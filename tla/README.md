# Verification of the Agent Client Protocol repository

TLA+ models, TLC runs and TLAPS proofs for the Rust runtime, the v1/v2 bridge and
its conversions, and the conformance suite of the Agent Client Protocol: the
harness's connection, the reference agent, and the two of them running every
test case. Paths are relative to the repository root.

## Inventory

| component | state | operations | hard behaviour |
|---|---|---|---|
| **rt connection** `agent-client-protocol-rt/src/connection.rs`, `jsonrpc.rs`, `error.rs` | per peer: `next_id`, `pending` map, unbounded `outgoing` channel, the `drive` future | `request`, `notify`, `respond`, `complete_pending`, `drain_pending`, reader and writer loop | callers on other threads race the driver's end; handlers are spawned, so they finish in any order and outlive the driver; a dropped driver never drains; torn lines |
| **rt roles** `agent.rs`, `client.rs`, `util.rs`, `stdio.rs` | none beyond the connection | typed wrappers, method dispatch | nested calls: a prompt handler asks the client for permission |
| **bridge sessions** `agent-client-protocol-bridge/src/lib.rs`, `session.rs` | session table: v1 session id, cwd, replay expectation, terminals | `load_to_resume`, `resume_to_v1`, `session_replay`, `close_session` | records are replaced on resume, vivified on first use; an agent may be unable to come back the way the client asks |
| **bridge terminals** `terminal.rs` | per session: live terminals and tombstones, sequence, byte cursor | create, output, wait, kill, release, drain | output and status are read at two instants; process threads run on; close and release kill; tails and chunks are cut inside characters |
| **bridge processes** `terminal.rs` (`ProcessExecutor`) | per process: shared output, exit status, reader threads, waiter thread | spawn, output, status, wait, kill | a grandchild keeps the pipe open after the child exits |
| **bridge files** `fs.rs` | none | read window, write | window arithmetic at the boundaries |
| **schema conversions** `agent-client-protocol-schema/src/v2/conversion.rs` | none | every v1 value to v2 and back, or a refusal | stateless functions over a stream of patches: what a client shows depends on every update before |
| **conformance driver** `conformance/src/driver.ts` | pending responses with timers, queued events, waiters, fatal error | request, expect*, respond, close | a late answer after a timeout; failure while an expectation waits; sends that never return |
| **reference agent** `conformance/src/reference-agent.ts` | sessions, prompt contexts, pending client and slow calls | request and notification handlers, prompt flows | a cancel, a close or a second prompt racing a prompt flow between awaits |
| **conformance runner and cases** `runner.ts`, `cases.ts`, `profiles.ts`, `fault-suite.ts` | case results | one case after another, each on a connection and an agent of its own | a verdict must not depend on the order in which lines and code run, nor a fault show in another case; a line that throws ends the process |
| **conformance support** `cli.ts`, `types.ts`, `utils.ts`, `schema.ts`, `stdio-agent.ts` | none | arguments, schema checks, helpers | none |
| **schema types** `agent-client-protocol-schema/src` | none | types, builders, serde | pure |
| **generator, examples, docs** `schema-generator/`, `examples/`, `scripts/`, `docs/` | none | build-time tools | none |

### How the components interact

An embedder builds one `Connection` (or `AgentSideConnection` /
`ClientSideConnection`) per side and spawns its `drive` future. `request` puts
an entry in `pending` and a line in `outgoing`; the writer loop moves lines to
the transport, the other side's reader loop takes them off and either spawns a
handler (which may call back over its own connection) or completes a pending
entry. The bridge sits above a connection: it turns v2 terminal requests into
child processes, v1 resume/load calls into one another, and passes session
updates through the converters. The conformance driver plays the client against
an agent process (or against the reference agent in process) over the same lines.

### What makes each component correct

- rt connection: a caller gets the answer to its own request, each request is
  executed at most once, no caller is left without an answer or an error when a
  driver ends, the table does not leak, an update a handler sent is read before
  the handler's answer, and nested calls over a full transport do not deadlock.
- bridge: the v2 client is shown a terminal's output in order, without gaps or
  repeats, and one exit, sent once the output is complete; a drain looks at the
  bytes before it looks at the status (`terminal.rs:392-406`), so a chunk may follow
  the exit, but one at most, with all that was missing; no child runs on that the
  bridge can neither reach nor has killed; whoever waits for an exit is woken; a
  client that comes back to a session sees its history once.
- conversions: clients of both versions show the same calls, messages and plans
  of one agent, and what cannot be said in the other version is refused whole.
- conformance driver: a late or unmatched answer is never taken for another
  request's; every line is kept for whoever asks first; the promise of every
  response and every expectation, which have timers, settles, once.
- reference agent: every request is answered once; a cancel ends the turn it was
  meant for and no other, whatever await it lands in; a replay is complete.
- conformance suite: it comes to its report; a good agent passes in whatever order
  lines, chunks and code run, as long as the timers outlast them; a fault fails the
  cases that meet it and is named by their failure.

## The modules

| module | models |
|---|---|
| `RtConnection` | two rt peers over one transport, every step of `request`, `notify`, the driver and the handlers |
| `RtRpc` | what `request` promises its caller: the abstract specification `RtConnection` implements |
| `MCRtConnection` | constants for TLC: a prompt, the permission request its handler makes, a second client call, an update, a cancel beside the prompt |
| `RtConnectionProofs` | TLAPS proofs about `RtConnection` |
| `Bridge` | `ProtocolBridge`: sessions, terminals, and the child, reader and waiter threads of `ProcessTerminalExecutor` |
| `TerminalView` | what the v2 client is shown of a terminal: the abstract specification `Bridge` implements |
| `MCBridge` | constants for TLC: a session, a terminal, commands that fork or lose a pipe |
| `BridgeProofs` | TLAPS proofs about `Bridge` |
| `BridgeValues` | the bridge's computations on text: file windows, tails of output, base64 |
| `Reentry` | a client that leaves a session and comes back through the bridge |
| `Translation` | the converters of session updates and permission requests, between an agent and a client of each version |
| `MCMediation` | constants for TLC: the three modules above, one per behaviour |
| `MediationProofs` | TLAPS proofs about `Reentry` and `BridgeValues` |
| `TranslationProofs` | TLAPS proofs about `Translation` |
| `HarnessConnection` | the harness's end of the connection against a target that may write any line but the one that throws |
| `HarnessProcess` | the process around that connection: a case, its end, the report, and the exception that ends it |
| `Mailbox` | what the harness's expectations promise: the abstract specification of each of its two queues |
| `MCHarnessProcess` | constants for TLC: two kinds of events |
| `HarnessProofs` | TLAPS proofs about `HarnessConnection` |
| `ReferenceAgent` | the reference agent: every handler, every prompt flow from await to await |
| `AnyClient` | the reference agent with an arbitrary client |
| `AgentProofs` | TLAPS proofs about `AnyClient`: the code of a flow, the invariant, then the owners of calls, replays, answers, cancels, rejections, idle sessions |
| `MCAnyClient` | constants for TLC: workloads of the client |
| `Conformance` | `HarnessConnection` and `ReferenceAgent` joined by two pipes, with the suite's cases as scripts |
| `MCConformance` | constants for TLC: the sets of faults |
| `ConformanceInvariant` | the inductive invariant of `Conformance` |
| `ScriptProofs` | lemmas: what the scripts of the cases are, and how the harness goes through the script of a turn |
| `ConformanceProofs` | TLAPS proofs about `Conformance` |

### `RtConnection`

`next_id`, `pending` and `outgoing` are `PeerInner`'s fields. `wire[p]` holds
the lines `p` wrote that the other side has not read; `driver[p]` says where the
future of `drive` is: in `select!` ("running"), after it with both loops dropped
("stopped"), returned ("done"), or dropped by the embedder ("dropped"). `pc`,
`id` and `reply` are a `request` future's program counter, id and oneshot.
`tasks` are spawned request handlers; `runs` and `answered` record which
handlers were started and which produced a result.

| action | code |
|---|---|
| `Allocate`, `Register`, `SendOk`/`SendRefused`, `Return`, `Abandon` | the steps of `PeerHandle::request` between which other threads run (`connection.rs:155-174`) |
| `Notify` | `PeerHandle::notify` |
| `DropHandle` | the embedder drops its last `Connection` |
| `Write`, `WriteError` | `writer_loop` |
| `ReadResponse`, `ReadRequest`, `ReadNotification`, `ReadFragment`, `ReadEof`, `ReadError` | `reader_loop` and `route`, one action per kind of line |
| `Drain` | the code of `drive` after `select!` |
| `DropDriver` | the future of `drive` is dropped or its task aborted |
| `Finish`, `Panic`, `NoteHandled` | the spawned handlers |

A line is modelled by its kind, its id and the call it belongs to. A response
carries the call whose handler made it, which is how a misdelivered answer shows.
When a driver ends while its writer is inside `write_all` the peer may read a
torn line, which is answered with a parse error under the null id.

`writer_loop` and `reader_loop` have a branch that ends with `Ok(())` because the
channel closed; the driver itself holds a sender (`shutdown_peer`), so that
branch of the writer is unreachable and there is no action for it.
`next_id` is an `AtomicI64`; its overflow after 2^63 requests is not modelled.

### `Bridge`

`replay` and `terminals` are the session table: `replay[s] = "absent"` means no
record, and `terminals[s]` holds the terminals of the record, released ones
(tombstones) included. `released`, `forwarded_len` and `exit_emitted` are fields
of `TerminalState`. Every method takes `&mut self`, so `call` names the one that
runs; a method that looks at a process twice has a step per look. `child`,
`descendant`, `pipe` and `written` are the operating system's side, `reader`,
`waiter`, `buffer` and `exit` the executor's threads and `ProcessShared`.
`shown` and `exits_shown` are what the v2 client was sent.

| action | code |
|---|---|
| `Create` | `create_terminal` and `ProcessTerminalExecutor::spawn` |
| `AskKill`, `Kill` | a `terminal/kill` the agent sent, and `kill_terminal` when the embedder serves it |
| `Release` | `release_terminal` |
| `Close` | `close_session` |
| `Reenter` | `load_to_resume` and `resume_to_v1` where they succeed |
| `DrainBytes`, `DrainStatus` | `drain_terminal_display`, at its two looks: `output_bytes()` and `status()` |
| `WaitStart`, `WaitLook` | `wait_for_terminal_exit` and the condition variable loop of `ProcessHandle::wait` |
| `ReadPipe`, `ReaderEnds` | `drain_pipe` on each of the two reader threads |
| `WaiterJoins`, `WaiterReaps`, `WaiterPublishes`, `WaiterNotifies` | the waiter thread |
| `ChildExits`, `KilledDies`, `Fork`, `DescendantExits`, `WriteChunk` | the command and a process it leaves behind |

A failed spawn and every refused call return before they change anything, so
they have no action. `terminal/output` changes nothing either: what its caller
can rely on (output and exit status belong together) is `ExitMeansComplete`.
Output is counted in chunks known only by their pipe. `ReadErrors` makes a reader
end on an error of its pipe, which loses what is left in it, as the code does.
Not modelled: the branch of the waiter for an error of `try_wait`, and dropping
the whole bridge. `fs.rs`, `view_within_limit` and base64 are in `BridgeValues`.

### `BridgeValues`

`text` is what a file or an output holds, and grows by one character at a time;
a character is its UTF-8 bytes. `Window` is `window_lines` (with `Lines` for
`str::lines`: a last empty piece and a carriage return before a newline go),
`ViewWithinLimit` is `view_within_limit`, `Base64` is `base64_encode`. Each is
compared with what it is for: pages put together, the longest tail of whole
characters that fits, decoded chunks put together.
`view_within_limit` also replaces invalid UTF-8 (`from_utf8_lossy`); the model
writes valid characters only. A command that writes invalid bytes may thus be
shown more bytes than the limit: each invalid byte becomes three.

### `Reentry`

`supports`, `replay`, `link` and `history` are the agent's abilities
(`V1SessionSupport`), the record's expectation, the connection and what was said;
`shown` is what the client displays and `since` where its view of the history
starts. `Route` is `resume_to_v1`, which maps a v2 `session/resume` to a v1
`session/load` or `session/resume` or refuses it; `Routed` adds `load_to_resume`.
`Resume` is the client's request, `ReplayNext` and `Opened` the agent's answer.
That an agent replays on load and does not on resume is what the protocol says
of it; the bridge cannot enforce it.

### `Translation`

`wire` is the update under way from an agent that speaks version `speaks`;
`v1View` and `v2View` are what a client of each version shows. `ToV1` and `ToV2`
are the conversions of tool calls and their updates, messages and chunks, plans
and permission requests, each giving the updates that stand for one, or none of
them when the code returns an error. `V1Apply` and `V2Apply` are the patch
functions of `v1/tool_call.rs` and `v2/tool_call.rs`. `Send` picks any update
within the bounds; `ToV2Client` and `ToV1Client` relay it.

Two things no stateless converter can carry over. A v1 client ignores an update
of a call it does not know if that has no title, and a v1 `tool_call` for a known
call, or a whole v2 message over blocks already shown, replaces what the client
has while its conversion adds to it. `strayed` marks the ids and a behaviour
ends there: the properties claim nothing of them, which is what the comment at
`v2/conversion.rs:182-188` says too. `_meta`, locations and unstable features are
left out.

### `HarnessConnection` and `Mailbox`

`nextId`, `pendingResponses`, `closed` and `fatalError` are the fields of the
class; an entry of the table owns a running timer. `write[id]` and `response[id]`
are the two promises of a request: that of `transport.sendLine` and that of the
response; `answeredBy[id]` is the line that settled it. The arrays of queued
events and unmatched responses, and of those who wait for them, are handled
alike by the code: `queued[b]` and `waiters[b]`, for the two boxes `b`. `calls`
are the expect calls a test made.

| action | code |
|---|---|
| `Request`, `SendReturns`, `SendFails`, `RequestTimeout` | `request`, its awaited `sendLine` and its timer (`driver.ts:135-193`) |
| `Expect`, `ExpectTimeout` | `expectEvent`, `expectUnmatchedResponse` and their timers |
| `EventLine`, `ResponseLine`, `BadLine` | the branches of `handleStdout` |
| `TargetFails` | the transport's error and exit callbacks |
| `Close` | `close` |

The target writes, at any time, anything but a line that makes `handleStdout`
throw: those are in `HarnessProcess`. A predicate sees the kind of
an event and the id of a response. `Mailbox` says what the two searched and
spliced arrays amount to: the oldest wanted message goes to the reader that has
waited longest, and readers may give up.

### `HarnessProcess`

What a callback of the event loop throws ends the process (`cli.ts:27-30`), and
`handleStdout` does throw: at `driver.ts:420`, where it asks whether `"method"` is
`in` a line that may be JSON but no object, or in the predicate of a case that looks
into an `error` that is `null` (`cases.ts:109`). The module adds `ThrowingLine`,
after which nothing happens any more (`exited`), the end of a case that awaits
nothing (`CaseEnds`) and the report after it (`Report`).
Not in it: a write to a target that is gone also makes Node emit an `error` event
on the pipe, for which `driver.ts` registers no listener; what that does to the
process is Node's affair and not read from this repository.

### `ReferenceAgent` and `AnyClient`

One event loop: a line is handled up to the handler's first await, and what
follows an await is a step of its own. A prompt or a replay is a flow, a record
with what is left of its code (`todo`, segments from one await to the next), its
status, its copy of the `cancelled` flag, the last answer of the client and a
counter. `promptContexts`, `pendingClientCalls`, `pendingSlowCalls` and
`nextAgentRequestId` are the class's fields; `out` is what the last step emitted.

| action | code |
|---|---|
| `Receive` | `receive`: `HandleRequest` and one operator per method, `HandleNotification` (`CancelRequest`, `SessionCancel`), `HandleResponse` |
| `Continue` | a flow goes on after an await and runs to its next one |
| `Wake` | a 20 ms nap of the v2 cancel scenario is over |
| `SlowDone` | the 5 s timer of `_conformance/slow` |
| `AgentClose` | `close`: timers cleared, calls rejected |

`Throw` says what becomes of a flow whose promise is rejected: an unhandled
rejection ends the process when the agent has one of its own, and when the flow
is a v2 prompt's, which nobody awaits (`crashed`).

`AnyClient` adds a client that keeps to the schema and does anything else:
requests before the last is answered, answers in any order, late, twice or
invalid, cancels and closes at any moment. A workload bounds how often it does
what. Its variables from `answers` on are history, for the properties.
The order of microtasks is over-approximated: flows that are ready run in any
order. A client that initializes twice is left out.

### `Conformance`

The harness's connection by `INSTANCE`, the agent by `EXTENDS`, joined by
`toAgent` and `toHarness`. A case of `cases.ts` is a script of calls, awaited
results, expectations and checks (`Suite`, in the order of the list); `todo` is
what is left of it, `log` the transcript, `results` the report. A case opens a
new connection and agent (`OpenCase`), its code runs one call or await at a time
(`CaseRequests`, `CaseExpects`, `CaseTells`, `CaseMarks`, `CaseGoesOn`), ends
where an await or an assertion throws (`CaseFails`, `Throws`) or after
`settle` (`CaseSettles`), and the next opens. In process, `sendLine` returns
when the agent's handler does (`WriteReturns`, `Handled`).

Timers are slow: a request's 5 s, an expectation's 8 s, the 150 ms of `settle`
and the last of the agent's twenty 20 ms naps pass only when nothing else can go
on (`Quiet`). Nothing in the code enforces this: it is an assumption about the
machine, and on one so slow that 150 ms pass before a line that is under way is
read, a verdict of the code can differ from the model's. What the runs and the proof
of the suite show holds for every order of lines, chunks and code under that
assumption, and says nothing of seconds. Left out: failures of `sendLine` (they are in
`HarnessConnection`), the harness's own invalid outbound messages, texts.

## Runs

| run | question | result |
|---|---|---|
| `rt_safety` | correlation, single execution, stranded callers, leaked entries, order of updates and answers, refinement of `RtRpc`, with transport errors, a dropped driver and panics | holds |
| `rt_liveness` | does the end of one driver reach the other side and every waiting caller, with handlers that may never return; do nested calls over a full transport end when handlers do return | holds |
| `rt_dropped_driver` | does a request fail when its transport is shut down by dropping the driver | violated: finding |
| `bridge_process` | one command, two pipes that may fail, a descendant, re-entry and close: is the display gapless with one exit, is output complete once the exit shows and at most one chunk behind, do waits return and is the exit reported, is every process reachable or killed | holds |
| `bridge_reentry` | does closing a session kill its terminals when the session was loaded or resumed twice | violated: finding |
| `harness` | does each line end in one place, do the queues implement a mailbox, is every promise in reach, is a line that throws the one thing that keeps a case from its end and the process from its report, against any target | holds |
| `harness_wedged` | is a request bounded by its timeout when the target stops reading | violated: finding |
| `agent_safety` | answers, calls, cancels, rejections, states and replays of the reference agent against any client | holds |
| `agent_answers` | is every request answered by a client that answers | holds |
| `agent_close` | does `session/close` cancel the turn in flight | violated: finding |
| `conformance` | does the suite end with the right verdict for every set of faults, in both drivers, in whatever order lines and code run while the timers outlast them | holds |
| `mediation` | do clients of both versions show the same; is history shown once; are pages, tails and chunks right | holds |

### The rt connection

The bounds: two peers with two or three calls, one of them made inside the
handler of another, one notification sent from that handler, and a transport
that holds one line in each direction, so that writers do block. Both peers
count ids from 1, so the ids of the nested calls coincide across peers, and in
`rt_safety` two client calls race for ids, table and channel. In `rt_liveness` the
client also notifies beside the prompt (`session/cancel`), so that the client's
line and the agent's fill both directions at once and both writers wait, while the
prompt's caller and the permission's wait for their answers.

The system may stop (every call returned, both drivers ended), so deadlock is
not checked; the liveness run says what must not stop.

Fairness: tokio polls woken tasks, so each step of a started `request`, of the
loops and of `drive` after `select!` is weakly fair. Starting or abandoning a
call, dropping a handle or a driver, and transport errors are the environment's
choice and carry none. Handlers are user code: `CallsEnd` assumes that they
return (`HandlersReturn`), the other two properties of `rt_liveness` do without.

### The bridge

`CloseKills` and `NoRunawayProcess` meet the same code: a second `session/load`
or `session/resume` of a session replaces its record and drops the handles in it
without a kill, so that a process of the old record runs on and no later close
reaches it. `bridge_process` therefore keeps sessions with a record from being
entered again (`MayReenter`), and `bridge_reentry` shows what happens otherwise.
The replaced record also loses its tombstones.

The bounds. One terminal's own pipes, threads and display: two chunks over two pipes
give a drain before, between and after reads, and a drain whose two looks have
output and the exit between them. Terminals share the session table, the sequence
counter and `call`, and no process: that they do not disturb one another is
proved for any number of sessions and terminals (below), and not run.

A bridge may be idle for ever and a command need not end, so deadlock is not
checked. Fairness: threads run, SIGKILL ends a process, a method that was called
goes on, and the embedder serves a kill when the bridge is free often enough
(`SF`). Nothing says that a child or its descendants exit by themselves, and
`WaitReturns` and `ExitIsReported` ask for nothing while one of them lives.

### The harness

Two requests, two expectations and two lines, with expectations of one kind and
of any: a line that an earlier and a later waiter want, a queued line that two
want, an answer before, after and instead of the timeout, a second answer.
`FairSpec` lets timers fire and the code of the case and of `runSuite` go on when what
it awaits has settled; the target need not read or answer.

The process goes on as long as something its case awaits is open, closes the
connection, writes the report and stops, so deadlock is not checked.

The promises of responses and expectations have a timer each. What a case awaits of a
request is the write of its line first (`AwaitsRequest`), which has none:
`RequestsAreBounded` fails in `harness_wedged` when the target stops reading. A
request of a connection that was closed or has failed is not counted there, since
its pipe is gone. `EndsOneWay` therefore says in its premise that every write ends;
then timers, the case and `runSuite` bring the process to its report, and the one
other end is the line that throws. (A suite of one case: the next one would open
where this closes.)

### The reference agent

Workloads: two prompts of a session and a cancel; prompts while replays run;
one prompt, one replay, a slow call and its cancellation; one prompt that is
closed, cancelled, or loses its agent; two slow calls, cancellations, requests
that are refused and lines that are no JSON. Each pair of actors that share state
(two flows, a flow and a handler, a timer and a handler) meets in one of them.
One session is enough because sessions share only the id counter and the table of
calls, which two flows of one session share too. `MaxTicks` is 2 of 20: no nap, a
nap and the last nap. A client may fall silent, so deadlock is not checked.
Fairness, for `agent_answers`: the event loop runs continuations and timers, and
the client answers what it is asked.

`CancelIsHeeded` counts a cancel that reaches the session's latest prompt while
code that looks at the flag is ahead of it. A cancel after the last look is
answered as an ordinary end of turn, and one that comes while an earlier prompt
of the same session still runs does not reach that one.

### The suite

Every case of the list for both versions, over both drivers, against the agent
with every set of its seven faults: the profiles of `fault-suite.ts` and all that
`--fault`, which may be repeated, can ask for. `RequestBound`, `CallBound` and `LineBound`
are larger than any case needs, so they never stop one; the suite's end
(`SuiteEnds`) would fail if they did. Fairness is that of the event loops: while
anything can go on, something does (`WF_vars(Next)`). The suite stops when its
report is written, so deadlock is not checked.

### The mediation

A behaviour is about updates, about coming back to a session, or about text.
Updates: one call and one message id (ids do not interact), every update that
names at most two of the five fields, so that every two fields are changed
together and every field in any two updates one after the other; messages of up
to three blocks. The views of calls are finite, so streams of updates are
explored to their end, not up to a length. A behaviour is about calls or about
texts and plans, which never meet in a view. Re-entry: histories of up to three
entries, every ability of the agent, any number of departures. Text: every text
of four characters of one, two, three and four bytes, newlines and returns.

## Proofs

### The rt connection

`RtConnectionProofs` proves the safety of `RtConnection` for every set of calls
and notifications, every nesting of calls, every wire capacity and every choice
of peers whose transport may fail, whose driver may be dropped and whose handlers
may panic. The assumptions are those the module declares: `PeersAssumption`,
`CallsAssumption` (a nested call is made by the other side), `NotesAssumption`.

| theorem | property |
|---|---|
| `TypeCorrect` | `TypeOK` |
| `Invariance` | the inductive invariant `IInv` |
| `AnswersAreOwn` | `OwnAnswer`: a caller gets the result of its own request or an error |
| `ExecutedAtMostOnce` | `SingleExecution` |
| `NobodyIsStranded` | `NoStrandedCaller` |
| `TableIsCleared` | `NoPendingLeak` |
| `UpdatesComeFirst` | `UpdatesPrecedeAnswer` |
| `Refinement` | `ImplementsRpc`: `RtConnection` implements `RtRpc` |

The argument. None of the properties is inductive: that an answer reaches its own
caller depends on ids being unique, on every entry in the table and every line
under way carrying the id of its call, and on a call having at most one handler.
`IInv` is the conjunction of these facts:

- `IdInv`: ids of one peer grow and are given once;
- `TableInv`, `WaitInv`: an entry belongs to an unresolved call of that peer, and
  a call that waits unresolved has an entry;
- `EndInv`: a driver that returned left no entry but those whose send is about
  to be refused, and a peer that stopped has an empty channel;
- `ReplyInv`: a delivered result is the call's own, a failure follows the end of
  the driver;
- `RunInv`: a handler ran at most once, for a call that was sent, and has not
  answered while it runs;
- `TransitInv`: what is under way between two peers, `Transit(p) == wire[p] \o
  outgoing[p]`, holds requests and notifications at most once, each for a call
  whose handler has not started, and answers with the id and caller they belong
  to.

`Transit` is what makes the proof short: seen as one pipe, a send appends to it,
a write leaves it alone, a read takes its head and a hangup cuts it, so the
actions of `Next` need only these facts about sequences, stated once.

The order of updates and answers needs one more invariant, `UpdateInv`: while a
notification that a handler sent is under way, the caller has no answer yet, and
every answer of that handler in the pipe stands behind the notification. It holds
because a handler that still runs has not answered, so that no answer is in the
pipe when the notification joins it. The refinement follows
from `IInv`: each step maps to a step of `RtRpc` or to a stutter, and `IInv`
supplies the two facts it needs (a call is executed once, an answer is of an
executed call).


### The bridge

`BridgeProofs` proves the safety of `Bridge` for every set of sessions, every
number of terminals and of chunks, and every choice of commands that leave a
descendant behind or whose pipes fail. The assumptions are the module's:
`BoundsAssumption` (the bounds are naturals, and there may be a terminal) and
`ChoicesAssumption` (there is a session; forks, read errors, re-entries and closes
concern terminals and sessions that exist).

| theorem | property |
|---|---|
| `TypeCorrect` | `TypeOK`, the display's one exit per terminal included |
| `Invariance` | the inductive invariant `IInv` |
| `OutputIsComplete` | `ExitMeansComplete` |
| `ProcessesStayInReach` | `NoRunawayProcess`, where `MayReenter = {}` |
| `Refinement` | `ImplementsView`: `Bridge` implements `TerminalView` |
| `LateChunks` | `LateChunkIsLast` |

The argument. That the output is complete once the exit shows does not follow
from the exit alone: it needs the order in which four threads and the child end,
and a count of the chunks wherever they are. `IInv` is the conjunction of:

- `CountInv`: what was written is in the buffer or in one of the two pipes; no
  cursor is beyond the buffer; an exit is shown exactly when it is marked;
- `CloneInv`: the clone a drain works on is no longer than the buffer is;
- `ThreadInv`: a reader that saw the end of its pipe left nothing in it and no
  process can write to it any more; the waiter is beyond its joins only when both
  readers ended; the exit is published by the waiter alone. With `CountInv` this
  gives `ExitMeansComplete`;
- `TableInv`: a number that was not given out names no process and is in no table,
  so that a new terminal is nobody's yet; a record holds terminals made for it;
- `DisplayInv`: what the client was shown is the buffer up to the cursor, which is
  the one in the clone while a drain stands between its two looks;
- `MarkInv`: an exit is marked only when it is known.

`NoRunawayProcess` is inductive together with `TableInv` when no session with a
record is entered again; without that condition it is false (`bridge_reentry`).
The refinement follows from `IInv`: a read appends to the log of `TerminalView`,
the first look of a drain shows more of it, the second the exit, and everything
else stutters. `TerminalView` lets a chunk follow the exit, as the code does.
`LateChunks` says how much: the exit is shown only when it is known, so all the output
was captured (`MarkInv`, `ThreadInv`, `CountInv`), and the first look of the next
drain takes the whole buffer (`DrainShowsAll`): after that nothing is left to show.

### The harness

`HarnessProofs` proves the safety of `HarnessConnection` against any target, for
every number of requests, expectations and lines, every set of kinds of events
and every choice of predicates. The assumptions are the module's:
`BoundsAssumption` (the bounds are naturals) and `PredicatesAssumption` (a
predicate tells kinds of its own box apart).

| theorem | property |
|---|---|
| `Invariance` | the inductive invariant `IInv` |
| `EveryoneIsRemembered` | `NobodyIsForgotten` |
| `EachLineHasOnePlace` | `EachLineOnce` |
| `Mail` | `ExpectationsAreMail`: each box implements `Mailbox` |

The argument. `NobodyIsForgotten` says that the list of waiters of a box is its
waiting calls in the order they were made. Being in order is what makes the
searches of the code right: the first waiter found is the one that has waited
longest, and `findIndex`, `indexOf` and `splice` take out one waiter, which is the
right one. `IInv` adds the types and

- `QueueInv`: a queue holds lines that have arrived in its box, in the order of
  their arrival, so the first item found is the oldest;
- `CallInv`: a call that waits got nothing, and what a call got has arrived in its
  box and is of a kind that box has.

Two lemmas tell what the two operators with a search and a splice do
(`DeliverIs`, `ExpectIs`); invariance, the refinement and the count of lines all
rest on them. The refinement is proved once for a parameterised instance
`Box(b)`: a delivered line is `Post`, a call is `Ask`, a timer and a rejection of
everybody are `GiveUp`, and a step that concerns the other box is a stutter.
`EachLineOnce` needs that an id is used once (`AnswerInv`); with it the set of
booked lines and their number (`LineInv`) grow together, by the line that came.

### The reference agent

`AgentProofs` proves the safety of `AnyClient`: the reference agent under any
client, for every number of sessions and of naps, any faults and both drivers. The assumptions are the modules': `AgentAssumption` (the
bounds are naturals, a driver is one of the two there are) and
`ClientAssumption` (a client is one of finitely many, makes a finite number of
each request and initializes once; versions and scenarios are those the code
knows).

| theorem | property |
|---|---|
| `AgentInvariant`, `AgentTypes` | the inductive invariant `AgentInv` and its types |
| `CallsAreOwned` | `CallsHaveOwners` |
| `ReplaysAreComplete` | `ReplayIsComplete`, a property of steps |
| `RequestsAreAnsweredOnce` | `AnsweredOnce` |
| `CancelsAreHeeded` | `CancelIsHeeded` |
| `CancelsAreAsked` | `NoStrayCancel` |
| `RejectionsAreFinal` | `RejectedAsksNothing` |
| `IdleComesLast` | `IdleIsTold`, where no agent has the fault `illegal-v2-fs-read-text-file` |

The condition of `IdleComesLast` is the code's: an agent started with that fault
makes a call that v2 does not have, and its turn stops where it is.

The argument. What a flow will do depends on what is left of its code, so the
invariant is about `todo`. `Script`, `Code` and `Leads` say of
a sequence of segments what it may still do: which segments it has, that it looks
at the flag before it says how the turn ended, that nothing follows the end. They
hold of the scripts the code has, and of every tail of them. `AgentInv` is the
conjunction of `TypeInv`, `CountInv` (the client keeps to its workload),
`SessionInv` (the context of a session is a prompt of that session), `FlowInv`
(a flow that is not over has code to run), `CallInv` (`CallsHaveOwners`, and ids of
calls are below the next one) and `RequestInv` (a request is behind one flow or
one slow call). Every action is then one of nine moves (`Calm`,
`PromptMove`, `PromptWaits`, `ReplayMove`, `WakeMove`, `CancelMove`, `AnswerMove`,
`EndMove`, `StartMove`), shown once; each further property is shown per move:

- `AnswerInv`: a request that may yet be answered (it is to come, its timer runs,
  or its flow still owes the answer) has none;
- `TurnInv`: a cancel that was heard has set the flag, and the code that is left
  does not say "end of turn" without looking at it;
- `DeniedInv`: after a rejection the code that is left asks for nothing, and what
  has yet to look will see the rejection;
- `IdleInv`: a session that was not last told to be idle has a turn that is not done.

### Re-entry

`HistoryIsShownOnce` (`MediationProofs`) states `ShownOnce` for histories of any length and whatever
the agent supports. `ShownOnce` is not inductive: it says nothing while a history is
replayed. `ReentryInv` adds that what is shown followed by what is to come is the
client's view of the history.

### The values of the bridge

`MediationProofs` also proves, for every text that `Write` can build, whatever its
length, its characters and the limit:

| theorem | property |
|---|---|
| `PagesAreTheFile` | `PagesMakeTheFile` |
| `TailsAreWhole` | `TailIsLongestFit` |
| `ChunksMakeTheOutput` | `ChunksDecode` |

Pages: `PagesMakeTheFile` is not inductive, since the newline that ends a file is
dropped from it but kept once more is written. `LinesInv` (`LinesOK`) is: the ended
lines, each with its newline, and the current line after them, are the file without
the returns of its lines' ends. A newline written after a return takes that return
out of both (`KeptGrows`, `LinesGrow`); `LinesJoin` then drops the last newline. Any
cut of the lines into pages that are not empty joins to the same (`PagesJoin`): a
newline after a page ends its last line. `PagesCount` shows that the pages an agent
asks for are such a cut.

Tails and chunks:

`CharactersAssumption` says what UTF-8 says of a character: one byte or more, and all but the
first of them, and only they, are continuation bytes. The invariant `ValuesInv`
(`TextOK`) is that wherever a text is cut between two characters, the bytes before
and the bytes after make its bytes, and that longer beginnings have no fewer bytes.
From it: the search of `view_within_limit` stops at the beginning of a character
(`TailStartIs`), and that character is the first whose tail fits (`TailFits`).

For base64: four sextets give back the number they were cut from (`SextetsJoin`), so
a group decodes to its one, two or three bytes (`GroupDecodes`), and groups
together to the input (`DecodeIs`, for any sequence of bytes, so for both sides of
any cut). `FlattenSeq` is shown to be a recursive function, and what it computes
for every length by taking the least place where it would not.

### The conversions

`TranslationProofs` proves `Translation` for any calls, messages, texts and any
length of a message.

| theorem | property |
|---|---|
| `Invariance` | `TranslationInv`: both clients show the same of everything that has not strayed |
| `ClientsShowTheSameCalls` | `ToolCallsAgree` |
| `ClientsShowTheSameTexts` | `TextsAgree` |
| `RoundTripsLoseNothing` | `NothingIsLost` |

The argument. The views of the clients are compared field by field: a patch of one
field and its conversion have the same effect on views that agree
(`FitsV1` says which values a v1 field can hold). An update becomes several of
the other version, so the proof has to say what a fold or `FlattenSeq` computes
for a sequence of any length: the operators are shown to be a recursive
function (`IterV1`, `Flattened`), and what that function computes follows by
taking the least place where it would not.
`TranslationSpec` and `ReentrySpec` are the two modules' own specifications;
`MCMediation` runs each of them beside the other and beside the texts.

### The suite

`ConformanceProofs` proves of `Conformance`, for any choice of fault sets, for both
drivers and for all bounds on naps, requests, expectations and lines:

| theorem | property |
|---|---|
| `SuiteInvariant` | the inductive invariant `IInv` (`ConformanceInvariant`) |
| `HarnessIsNeverKilled` | `HarnessSurvives` |

The assumptions are `AgentAssumption` and `BoundAssumption`: the bounds are
naturals.

The argument. The harness would end if a case were closed while a call of the
agent waits for its answer (`reference-agent.ts:152`). A case is closed when its
script has ended, or when something it awaits or asserts does not hold; so it is to
be shown that neither happens while the agent asks, whatever the order in which
lines are read, timers pass and the case's code runs. `IInv` says that a running
case is in one of four situations:

- `Harmless`: no call waits, none of the flows has code that asks, and no line, on
  its way or to come, will start such code. Fourteen of the eighteen cases are in
  this situation from their beginning, and the four others once the last question
  is answered or the agent has refused the prompt.
- `Opening`: one of the four scripts in which the agent asks opens its session. The
  faults of `session/new` show here; a case that fails now is closed while no call
  waits.
- `Prompting`: the prompt was called and not read. The case may already expect the
  first event.
- `Turn`: the agent has sent `e` events. Event `j` is line `base + j` of what it
  ever sent; what is read and not expected is queued, in order; the case waits for
  the event that comes next, or that event is at the head of the queue; a call that
  waits is the question with the last number, and when the case has answered it
  the answer is the last line on its way.

In a turn nothing the case awaits can fail: the events come in the order in which
the script expects them (`ScriptShape`: the place in the script of each event and of
each answer), each fits its predicate, and no timer passes, since the agent, a
line or the case can always go on (`NoTimeout`; here the proof uses `Quiet`, the
assumption that timers outlast all else). So the case stays in the turn until it has
answered every question. That the four scripts have this shape, and that the code
of the agent sends these events, is computed from the definitions in
`Conformance` and `ReferenceAgent` (`ShapeOf`, `CodeDue`); the scripts are put together by
`FlattenSeq`, which is shown to be what a recursive function computes
(`FlattenIs`). Faults do not matter once a turn has begun, except that
`midturn-bad-update-v1` and `illegal-v2-fs-read-text-file` make the agent stop
asking: the turn becomes `Harmless` (`HarmlessAfter`).

TLC checked `IInv` on the instance of the run `conformance` (236,586 states)
before it was proved.

### Only model-checked

- Liveness (`rt_liveness`, `EndsOneWay`, `EveryRequestIsAnswered`,
  `SuiteEnds`, `WaitReturns`, `ExitIsReported`): out of the prover's reach.
- The verdicts of the suite (`FailuresAreExplained`, `NoFlakyVerdict`): what a case
  reports follows from its script, one call after the other, and from the faults,
  of which there are 128 sets; TLC goes through all of them.

## Findings

Four places where a comment or a doc says more than the code does; each is a run
of its own, and `PROJECT.json` quotes the lines.

| run | the text says | the code does |
|---|---|---|
| `rt_dropped_driver` | requests fail when the transport is shut down | a driver that is dropped never drains, and its callers wait for ever |
| `bridge_reentry` | `close_session` kills any still-running terminal of the session | a record that was replaced took its handles with it |
| `agent_close` | closing a session cancels its ongoing work as `session/cancel` would | `session/close` forgets the prompt's context without marking it, and the turn goes on |
| `harness_wedged` | every outbound request is bounded by a timeout (`conformance/README.md:5`, `:177`) | the response is; the write awaited before it (`driver.ts:182`) is not, and a target that stops reading holds the case |

Smaller disagreements, met while modelling and left to the reader:

- `agent-client-protocol-rt/tests/integration.rs:138` says in a comment that
  dropping the client closes the transport and shuts both drivers down; the driver holds clones of the handle itself
  (`connection.rs:233`), so the channel never closes by itself.
- `agent-client-protocol-bridge/src/terminal.rs:136` calls `status()` the exit outcome "if the process has exited";
  the waiter joins the pipe readers first, and a descendant keeps the pipe open.
- `docs/protocol/v1/terminals.mdx:256-258` has a kill end a command while a wait
  for its exit is out; `wait_for_terminal_exit` holds `&mut self` until the exit,
  so the kill is served after it.
- `conformance/README.md:5` writes the report on success and failure paths; a line
  of JSON that is no object (`5`, `null`) throws at `driver.ts:420`, and
  `cli.ts:27-30` ends the process: the other end that `EndsOneWay` allows.
- `terminal/output` reads bytes before status (`terminal.rs:291-294`): an answer
  may carry the exit and lack the last output, which the next one has.
- `terminal.rs:618`: an error of a pipe loses what is left in it, without a trace
  in the answer.
- `docs/protocol/v1/prompt-turn.mdx:332` asks for the stop reason `cancelled`
  after a cancel; the reference agent's default v1 prompt (`reference-agent.ts:581`)
  never looks at the flag.
- `docs/protocol/v2/prompt-lifecycle.mdx:355`: an agent should report
  `requires_action` while it is blocked on a permission; the reference agent
  reports it once it has the answer (`reference-agent.ts:975`).
- `docs/protocol/v2/tool-calls.mdx:316`: `reject_once` rejects the operation; the
  v2 flow (`reference-agent.ts:997`) does not tell it from a grant.
- `v2/conversion.rs:5-8` drops nothing silently; the `_meta` of a `replayFrom`
  of `start` is dropped (`:3981`).
- `docs/protocol/v2/tool-calls.mdx:42` recommends a title in the first update of a
  call; one without cannot become a call of v1.

## Not modelled

- The schema's data types, builders and serde attributes (about 53,000 lines), and
  the conversions that map one value field by field, the negotiation of
  capabilities at `initialize` among them: values without state, held by
  exhaustive destructuring and round-trip tests. They are most of the
  repository's lines, which is why the map covers a small share of it.
- Lines of a foreign rt peer: an invalid line that carries an id is answered under
  that id (`connection.rs:275`), which `RtConnection` has no action for, since
  its two peers both run this code.
- The overflow of `next_id`, the waiter's branch for an error of `try_wait`,
  dropping the whole bridge, file system calls of `fs.rs`.
- Argument parsing, JSON schema checks, generators, examples.

## Plan

Done: the models of the connection, the bridge, the conversions and the
conformance suite; the proofs about `RtConnection`, `Bridge`,
`HarnessConnection`, the reference agent, the suite, `Reentry`, `Translation` and
`BridgeValues`.

1. `RtConnection` against a peer that does not run this code: unknown ids,
   repeated answers, malformed lines.
2. `Conformance`: `HarnessSurvives` for any script that answers every question it
   waits for, and the verdicts of the suite.
