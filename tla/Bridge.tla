------------------------------- MODULE Bridge -------------------------------
(***************************************************************************)
(* ProtocolBridge: sessions, the terminals the bridge executes for a v1    *)
(* agent, and the threads of ProcessTerminalExecutor                       *)
(* (agent-client-protocol-bridge/src/lib.rs, session.rs, terminal.rs).     *)
(*                                                                         *)
(* Every method of the bridge takes &mut self: one call runs at a time, and *)
(* the variable call says which.  A call that looks at a process twice, or *)
(* sleeps on its condition variable, has a step for each look, because the *)
(* child, its descendants, two reader threads and the waiter thread go on. *)
(*                                                                         *)
(* Output is counted in chunks, each known by the pipe it came through.    *)
(***************************************************************************)
EXTENDS Integers, FiniteSets, SequencesExt

CONSTANTS
    Sessions,       \* session ids
    MaxTerminals,   \* bound: terminals created in one behaviour
    MaxOutput,      \* bound: chunks one command writes
    Forks,          \* terminals whose command may leave a descendant behind
    ReadErrors,     \* terminals whose pipes may report an I/O error
    MayReenter,     \* sessions loaded or resumed while they have a record
    MayClose        \* sessions the embedder may close

Terms == 1..MaxTerminals
Sources == {"out", "err"}   \* PipeSource

ASSUME BoundsAssumption == MaxTerminals \in Nat \ {0} /\ MaxOutput \in Nat

ASSUME ChoicesAssumption ==
    /\ Sessions # {}
    /\ Forks \subseteq Terms /\ ReadErrors \subseteq Terms
    /\ MayReenter \subseteq Sessions /\ MayClose \subseteq Sessions

VARIABLES
    \* ProtocolBridge
    replay,         \* [Sessions -> STRING]: SessionRecord.replay, or "absent"
    terminals,      \* [Sessions -> SUBSET Terms]: SessionRecord.terminals
    terminal_seq,
    released,       \* the terminals whose TerminalState.released is set
    forwarded_len,  \* [Terms -> Nat]
    exit_emitted,   \* the terminals whose TerminalState.exit_emitted is set
    call,           \* the method call that holds &mut self
    wanted,         \* terminals with a terminal/kill the bridge has not served
    \* ProcessShared and the threads
    child,          \* [Terms -> STRING]
    killed,         \* terminals whose child was sent SIGKILL
    descendant,     \* [Terms -> BOOLEAN]: a process that inherited the pipes
    pipe,           \* [Terms -> [Sources -> Nat]]: chunks not read yet
    written,        \* [Terms -> Nat]: chunks written so far
    reader,         \* [Terms -> [Sources -> STRING]]
    waiter,         \* [Terms -> STRING]
    buffer,         \* [Terms -> Seq(Sources)]
    exit,           \* [Terms -> BOOLEAN]: ProcessShared.exit is Some
    \* what the v2 client was sent, and where a terminal was created
    shown,          \* [Terms -> Seq(Sources)]
    exits_shown,    \* [Terms -> Nat]
    home            \* [Terms -> Sessions]

sessionVars == <<replay, terminals, terminal_seq, home>>
termVars    == <<released, forwarded_len, exit_emitted>>
viewVars    == <<shown, exits_shown>>
childVars   == <<child, killed, descendant, written>>
threadVars  == <<reader, waiter, buffer, exit>>
vars == <<sessionVars, termVars, call, wanted, viewVars, childVars, pipe, threadVars>>

Idle == [op |-> "idle", term |-> 0, seen |-> 0]
Calling(op, t, seen) == [op |-> op, term |-> t, seen |-> seen]

Init ==
    /\ replay = [s \in Sessions |-> "absent"]
    /\ terminals = [s \in Sessions |-> {}]
    /\ terminal_seq = 0
    /\ home = [t \in Terms |-> CHOOSE s \in Sessions : TRUE]
    /\ released = {} /\ exit_emitted = {}
    /\ forwarded_len = [t \in Terms |-> 0]
    /\ call = Idle
    /\ wanted = {}
    /\ shown = [t \in Terms |-> <<>>]
    /\ exits_shown = [t \in Terms |-> 0]
    /\ child = [t \in Terms |-> "none"]
    /\ killed = {}
    /\ descendant = [t \in Terms |-> FALSE]
    /\ written = [t \in Terms |-> 0]
    /\ pipe = [t \in Terms |-> [x \in Sources |-> 0]]
    /\ reader = [t \in Terms |-> [x \in Sources |-> "none"]]
    /\ waiter = [t \in Terms |-> "none"]
    /\ buffer = [t \in Terms |-> <<>>]
    /\ exit = [t \in Terms |-> FALSE]

-----------------------------------------------------------------------------
(* The bridge's methods.                                                   *)

\* live_terminal: a terminal of that session which is not released.
Live(s, t) == t \in terminals[s] /\ t \notin released

\* self.terminal_seq.wrapping_add(1); one counter for all sessions.
NextSeq(s) == terminal_seq + 1

\* create_terminal: spawn, mint the id, vivify the session, insert.  (A spawn
\* that fails returns before anything changes.)
Create(s) ==
    LET t == NextSeq(s) IN
    /\ call = Idle
    /\ terminal_seq < MaxTerminals
    /\ terminal_seq' = t
    /\ terminals' = [terminals EXCEPT ![s] = @ \cup {t}]
    /\ replay' = [replay EXCEPT ![s] = IF @ = "absent" THEN "unknown" ELSE @]
    /\ home' = [home EXCEPT ![t] = s]
    /\ child' = [child EXCEPT ![t] = "running"]
    /\ reader' = [reader EXCEPT ![t] = [x \in Sources |-> "reading"]]
    /\ waiter' = [waiter EXCEPT ![t] = "joining"]
    /\ UNCHANGED <<termVars, call, wanted, viewVars, killed, descendant, written, pipe,
                   buffer, exit>>

\* ProcessHandle::kill on some handles; a child that exited is left alone.
SigKill(ts) == killed' = killed \cup {t \in ts : child[t] = "running"}

\* The agent sends terminal/kill.
AskKill(s, t) ==
    /\ Live(s, t)
    /\ wanted' = wanted \cup {t}
    /\ UNCHANGED <<sessionVars, termVars, call, viewVars, childVars, pipe, threadVars>>

\* kill_terminal, or its refusal if the terminal is live no longer.
Kill(t) ==
    /\ call = Idle
    /\ t \in wanted
    /\ wanted' = wanted \ {t}
    /\ IF \E s \in Sessions : Live(s, t) THEN SigKill({t}) ELSE UNCHANGED killed
    /\ UNCHANGED <<sessionVars, termVars, call, viewVars, child, descendant, written,
                   pipe, threadVars>>

\* release_terminal: kill, and keep the entry as a tombstone.
ReleaseOnly(s, t) ==
    /\ call = Idle
    /\ Live(s, t)
    /\ released' = released \cup {t}
    /\ UNCHANGED <<sessionVars, forwarded_len, exit_emitted, call, wanted, viewVars,
                   childVars, pipe, threadVars>>
Release(s, t) ==
    /\ call = Idle
    /\ Live(s, t)
    /\ SigKill({t})
    /\ released' = released \cup {t}
    /\ UNCHANGED <<sessionVars, forwarded_len, exit_emitted, call, wanted, viewVars,
                   child, descendant, written, pipe, threadVars>>

\* close_session: the record goes and every terminal in it is killed.
Close(s) ==
    /\ s \in MayClose
    /\ call = Idle
    /\ replay[s] # "absent"
    /\ replay' = [replay EXCEPT ![s] = "absent"]
    /\ SigKill(terminals[s])
    /\ terminals' = [terminals EXCEPT ![s] = {}]
    /\ UNCHANGED <<terminal_seq, home, termVars, call, wanted, viewVars, child,
                   descendant, written, pipe, threadVars>>

\* load_to_resume and resume_to_v1, where they succeed: a new record replaces
\* the one that was there, and the handles in that one are dropped.
Reenter(s, expectation) ==
    /\ call = Idle
    /\ replay[s] # "absent" => s \in MayReenter
    /\ replay' = [replay EXCEPT ![s] = expectation]
    /\ terminals' = [terminals EXCEPT ![s] = {}]
    /\ UNCHANGED <<terminal_seq, home, termVars, call, wanted, viewVars, childVars, pipe,
                   threadVars>>

\* drain_terminal_display, up to the chunk: output_bytes() clones the buffer.
DrainBytes(s, t) ==
    /\ call = Idle
    /\ Live(s, t)
    /\ call' = Calling("drain", t, Len(buffer[t]))
    /\ shown' = [shown EXCEPT ![t] =
                    @ \o SubSeq(buffer[t], forwarded_len[t] + 1, Len(buffer[t]))]
    /\ UNCHANGED <<sessionVars, termVars, wanted, exits_shown, childVars, pipe, threadVars>>

\* state.forwarded_len = bytes.len(), of the clone.
ForwardedNow(t) == Len(buffer[t])
Forwarded(t) == call.seen

\* ... and from status() on.
DrainStatusAgain(t) ==
    /\ call.op = "drain" /\ call.term = t
    /\ forwarded_len' = [forwarded_len EXCEPT ![t] = Forwarded(t)]
    /\ exits_shown' = IF exit[t] THEN [exits_shown EXCEPT ![t] = @ + 1] ELSE exits_shown
    /\ call' = Idle
    /\ UNCHANGED <<sessionVars, released, exit_emitted, wanted, shown, childVars, pipe,
                   threadVars>>
DrainStatus(t) ==
    /\ call.op = "drain" /\ call.term = t
    /\ forwarded_len' = [forwarded_len EXCEPT ![t] = Forwarded(t)]
    /\ IF exit[t] /\ t \notin exit_emitted
       THEN /\ exit_emitted' = exit_emitted \cup {t}
            /\ exits_shown' = [exits_shown EXCEPT ![t] = @ + 1]
       ELSE UNCHANGED <<exit_emitted, exits_shown>>
    /\ call' = Idle
    /\ UNCHANGED <<sessionVars, released, wanted, shown, childVars, pipe, threadVars>>

\* wait_for_terminal_exit takes &mut self ...
WaitStart(s, t) ==
    /\ call = Idle
    /\ Live(s, t)
    /\ call' = Calling("wait", t, 0)
    /\ UNCHANGED <<sessionVars, termVars, wanted, viewVars, childVars, pipe, threadVars>>

\* ... looks at exit under the lock, and sleeps while it is None.
SleepFirst(t) ==
    /\ call.op \in {"wait", "woken"} /\ call.term = t
    /\ call' = IF call.op = "wait" THEN Calling("asleep", t, 0) ELSE Idle
    /\ UNCHANGED <<sessionVars, termVars, wanted, viewVars, childVars, pipe, threadVars>>
WaitLook(t) ==
    /\ call.op \in {"wait", "woken"} /\ call.term = t
    /\ call' = IF exit[t] THEN Idle ELSE Calling("asleep", t, 0)
    /\ UNCHANGED <<sessionVars, termVars, wanted, viewVars, childVars, pipe, threadVars>>

-----------------------------------------------------------------------------
(* The child process and what it leaves behind.                            *)

\* A process that holds the write ends of the pipes.
HasWriter(t) == child[t] = "running" \/ descendant[t]

WriteChunk(t, x) ==
    /\ HasWriter(t)
    /\ written[t] < MaxOutput
    /\ written' = [written EXCEPT ![t] = @ + 1]
    /\ pipe' = [pipe EXCEPT ![t][x] = @ + 1]
    /\ UNCHANGED <<sessionVars, termVars, call, wanted, viewVars, child, killed,
                   descendant, threadVars>>

Fork(t) ==
    /\ t \in Forks
    /\ child[t] = "running"
    /\ descendant' = [descendant EXCEPT ![t] = TRUE]
    /\ UNCHANGED <<sessionVars, termVars, call, wanted, viewVars, child, killed, written,
                   pipe, threadVars>>

DescendantExits(t) ==
    /\ descendant[t]
    /\ descendant' = [descendant EXCEPT ![t] = FALSE]
    /\ UNCHANGED <<sessionVars, termVars, call, wanted, viewVars, child, killed, written,
                   pipe, threadVars>>

Die(t) ==
    /\ child[t] = "running"
    /\ child' = [child EXCEPT ![t] = "exited"]
    /\ UNCHANGED <<sessionVars, termVars, call, wanted, viewVars, killed, descendant,
                   written, pipe, threadVars>>

ChildExits(t) == Die(t)
KilledDies(t) == t \in killed /\ Die(t)

-----------------------------------------------------------------------------
(* The threads of ProcessTerminalExecutor.                                 *)

\* drain_pipe: read some output and append it to the shared buffer.
ReadPipe(t, x) ==
    /\ reader[t][x] = "reading"
    /\ pipe[t][x] > 0
    /\ pipe' = [pipe EXCEPT ![t][x] = @ - 1]
    /\ buffer' = [buffer EXCEPT ![t] = Append(@, x)]
    /\ UNCHANGED <<sessionVars, termVars, call, wanted, viewVars, childVars, reader,
                   waiter, exit>>

\* drain_pipe ends: at the end of the file, or at any error.
ReaderEnds(t, x) ==
    /\ reader[t][x] = "reading"
    /\ \/ /\ pipe[t][x] = 0
          /\ ~HasWriter(t)
          /\ reader' = [reader EXCEPT ![t][x] = "ended"]
       \/ /\ t \in ReadErrors
          /\ reader' = [reader EXCEPT ![t][x] = "failed"]
    /\ UNCHANGED <<sessionVars, termVars, call, wanted, viewVars, childVars, pipe, waiter,
                   buffer, exit>>

\* The waiter thread joins both readers ...
JoinNothing(t) ==
    /\ waiter[t] = "joining"
    /\ waiter' = [waiter EXCEPT ![t] = "polling"]
    /\ UNCHANGED <<sessionVars, termVars, call, wanted, viewVars, childVars, pipe, reader,
                   buffer, exit>>
JoinStdout(t) ==
    /\ waiter[t] = "joining"
    /\ reader[t]["out"] \in {"ended", "failed"}
    /\ waiter' = [waiter EXCEPT ![t] = "polling"]
    /\ UNCHANGED <<sessionVars, termVars, call, wanted, viewVars, childVars, pipe, reader,
                   buffer, exit>>
WaiterJoins(t) ==
    /\ waiter[t] = "joining"
    /\ \A x \in Sources : reader[t][x] \in {"ended", "failed"}
    /\ waiter' = [waiter EXCEPT ![t] = "polling"]
    /\ UNCHANGED <<sessionVars, termVars, call, wanted, viewVars, childVars, pipe, reader,
                   buffer, exit>>

\* ... polls try_wait until the child has exited, and so reaps it ...
\* mutant: asks try_wait once
TriesOnce(t) ==
    /\ waiter[t] = "polling"
    /\ child' = IF child[t] = "exited" THEN [child EXCEPT ![t] = "reaped"] ELSE child
    /\ waiter' = [waiter EXCEPT ![t] = IF child[t] = "exited" THEN "reaped" ELSE "done"]
    /\ UNCHANGED <<sessionVars, termVars, call, wanted, viewVars, killed, descendant,
                   written, pipe, reader, buffer, exit>>
WaiterReaps(t) ==
    /\ waiter[t] = "polling"
    /\ child[t] = "exited"
    /\ child' = [child EXCEPT ![t] = "reaped"]
    /\ waiter' = [waiter EXCEPT ![t] = "reaped"]
    /\ UNCHANGED <<sessionVars, termVars, call, wanted, viewVars, killed, descendant,
                   written, pipe, reader, buffer, exit>>

\* ... publishes the exit status ...
WaiterPublishes(t) ==
    /\ waiter[t] = "reaped"
    /\ exit' = [exit EXCEPT ![t] = TRUE]
    /\ waiter' = [waiter EXCEPT ![t] = "published"]
    /\ UNCHANGED <<sessionVars, termVars, call, wanted, viewVars, childVars, pipe, reader,
                   buffer>>

\* ... and wakes whoever sleeps.
WaiterNotifies(t) ==
    /\ waiter[t] = "published"
    /\ waiter' = [waiter EXCEPT ![t] = "done"]
    /\ call' = IF call.op = "asleep" /\ call.term = t THEN Calling("woken", t, 0) ELSE call
    /\ UNCHANGED <<sessionVars, termVars, wanted, viewVars, childVars, pipe, reader,
                   buffer, exit>>

BridgeStep ==
    \/ \E s \in Sessions : Create(s) \/ Close(s) \/ Reenter(s, "full") \/ Reenter(s, "none")
    \/ \E s \in Sessions, t \in Terms :
           AskKill(s, t) \/ Release(s, t) \/ DrainBytes(s, t) \/ WaitStart(s, t)
    \/ \E t \in Terms : Kill(t) \/ DrainStatus(t) \/ WaitLook(t)

ProcessStep(t) ==
    \/ Fork(t) \/ DescendantExits(t) \/ ChildExits(t)
    \/ \E x \in Sources : WriteChunk(t, x) \/ ReadPipe(t, x) \/ ReaderEnds(t, x)
    \/ WaiterJoins(t) \/ WaiterReaps(t) \/ WaiterPublishes(t) \/ WaiterNotifies(t)

Next == BridgeStep \/ \E t \in Terms : ProcessStep(t)

Spec == Init /\ [][Next]_vars

\* Threads run, SIGKILL ends a process, and the embedder serves a request when
\* the bridge is free.  A child or a descendant need never exit by itself.
Fairness ==
    \A t \in Terms :
        /\ WF_vars(\E x \in Sources : ReadPipe(t, x))
        /\ \A x \in Sources : WF_vars(ReaderEnds(t, x))
        /\ WF_vars(WaiterJoins(t)) /\ WF_vars(WaiterReaps(t))
        /\ WF_vars(WaiterPublishes(t)) /\ WF_vars(WaiterNotifies(t))
        /\ WF_vars(KilledDies(t)) /\ WF_vars(DrainStatus(t)) /\ WF_vars(WaitLook(t))
        /\ SF_vars(Kill(t))

FairSpec == Spec /\ Fairness

-----------------------------------------------------------------------------
(* Properties.                                                             *)

\* The shape of every variable; a terminal's exit is shown at most once.
TypeOK ==
    /\ replay \in [Sessions -> {"absent", "unknown", "none", "full"}]
    /\ terminals \in [Sessions -> SUBSET Terms]
    /\ terminal_seq \in 0..MaxTerminals
    /\ home \in [Terms -> Sessions]
    /\ released \subseteq Terms /\ exit_emitted \subseteq Terms
    /\ forwarded_len \in [Terms -> 0..MaxOutput]
    /\ call \in [op : {"idle", "drain", "wait", "asleep", "woken"},
                 term : 0..MaxTerminals, seen : 0..MaxOutput]
    /\ wanted \subseteq Terms /\ killed \subseteq Terms
    /\ child \in [Terms -> {"none", "running", "exited", "reaped"}]
    /\ descendant \in [Terms -> BOOLEAN]
    /\ written \in [Terms -> 0..MaxOutput]
    /\ pipe \in [Terms -> [Sources -> 0..MaxOutput]]
    /\ reader \in [Terms -> [Sources -> {"none", "reading", "ended", "failed"}]]
    /\ waiter \in [Terms -> {"none", "joining", "polling", "reaped", "published", "done"}]
    /\ buffer \in [Terms -> Seq(Sources)] /\ shown \in [Terms -> Seq(Sources)]
    /\ exit \in [Terms -> BOOLEAN]
    /\ exits_shown \in [Terms -> 0..1]

\* Once the exit is visible to terminal/output, wait_for_exit or the display,
\* the buffer holds everything the command wrote, from both pipes, unless a
\* pipe failed: reading the output after the exit never misses the end of it.
ExitMeansComplete ==
    \A t \in Terms : exit[t] /\ (\A x \in Sources : reader[t][x] # "failed")
        => Len(buffer[t]) = written[t]

\* A drain may show the exit before the last chunk, since bytes and status are
\* read at two moments.  What it shows after the exit is then everything that was
\* missing, in one chunk: a display that takes one more look has all the output.
LateChunkIsLast ==
    [][\A t \in Terms :
          exits_shown[t] = 1 /\ shown'[t] # shown[t] /\ (\A x \in Sources : reader[t][x] # "failed")
              => Len(shown'[t]) = written[t]]_vars

\* No process runs on that the bridge can neither reach nor has killed (here no
\* session is entered again while it has terminals: see CloseKills).
NoRunawayProcess ==
    \A t \in Terms : child[t] = "running" /\ t \notin killed =>
        t \in terminals[home[t]] \ released

\* wait_for_terminal_exit returns once the child and every process that holds
\* its pipes are gone: the wakeup is not lost between look and sleep.
WaitReturns ==
    \A t \in Terms :
        (call.op \in {"wait", "asleep", "woken"} /\ call.term = t /\ child[t] # "running"
         /\ ~descendant[t]) ~> call = Idle

View == INSTANCE TerminalView WITH
    log <- buffer, finished <- {t \in Terms : exit[t]}, exits <- exits_shown

\* Two looks at a process that runs on, in calls that any other call may follow,
\* show the v2 client what TerminalView promises.
ImplementsView == View!Spec

\* lib.rs:179: close_session drops all state for a session, killing any still-
\* running terminals.
CloseKills ==
    \A t \in Terms : child[t] = "running" /\ t \notin killed => replay[home[t]] # "absent"

\* The exit of a command is reported once every process that inherited its
\* pipes is gone.  (terminal.rs:136 says of status() "the exit outcome if the
\* process has exited"; while such a process lives, it is not.)
ExitIsReported ==
    \A t \in Terms : (child[t] = "exited" /\ ~descendant[t]) ~> exit[t]

=============================================================================
