---------------------------- MODULE TerminalView ----------------------------
(***************************************************************************)
(* What a v2 client is shown of the terminals the bridge executes: of each *)
(* the output, in its order and without gaps or repeats, and one exit      *)
(* status, sent when all the output is captured.  Every chunk brings the   *)
(* client up to date, so that after the exit there is one chunk to come at *)
(* most: all that was missing.                                             *)
(***************************************************************************)
EXTENDS Naturals, SequencesExt

CONSTANT Terms

VARIABLES
    log,        \* [Terms -> sequences]: the output captured so far
    finished,   \* the terminals whose exit status is known
    shown,      \* [Terms -> sequences]: the chunks sent, put together
    exits       \* [Terms -> Nat]: the exit statuses sent

vars == <<log, finished, shown, exits>>

Init ==
    /\ log = [t \in Terms |-> <<>>]
    /\ shown = [t \in Terms |-> <<>>]
    /\ finished = {}
    /\ exits = [t \in Terms |-> 0]

\* Some output is captured.
Capture(t) ==
    /\ t \notin finished
    /\ IsStrictPrefix(log[t], log'[t])
    /\ log' = [log EXCEPT ![t] = log'[t]]
    /\ UNCHANGED <<finished, shown, exits>>

\* The command is over.
Finish(t) ==
    /\ finished' = finished \cup {t}
    /\ UNCHANGED <<log, shown, exits>>

\* A chunk is sent: the output captured since the last one.
Show(t) ==
    /\ shown[t] # log[t]
    /\ shown' = [shown EXCEPT ![t] = log[t]]
    /\ UNCHANGED <<log, finished, exits>>

\* The exit status is sent.
End(t) ==
    /\ t \in finished
    /\ exits[t] = 0
    /\ exits' = [exits EXCEPT ![t] = 1]
    /\ UNCHANGED <<log, finished, shown>>

Next == \E t \in Terms : Capture(t) \/ Finish(t) \/ Show(t) \/ End(t)

Spec == Init /\ [][Next]_vars

=============================================================================
