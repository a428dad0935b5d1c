-------------------------- MODULE HarnessProcess --------------------------
(***************************************************************************)
(* The process that runs a test case on HarnessConnection and writes the    *)
(* report (runner.ts, runSuite; cli.ts, main).  The event loop calls        *)
(* handleStdout for every line, and what a callback throws reaches nobody   *)
(* but the handler of uncaught exceptions, which ends the process: no       *)
(* promise is rejected, no case fails and no report is written.             *)
(*                                                                          *)
(* A suite of one case: with more, the connection of the next one opens     *)
(* where this one is closed.                                                *)
(***************************************************************************)
EXTENDS HarnessConnection

VARIABLES
    exited,                   \* process.exit was called
    reported                  \* the summary is printed, the report written

processVars == <<exited, reported>>
allVars     == <<vars, processVars>>

ProcessInit == Init /\ exited = FALSE /\ reported = FALSE

\* A line of JSON that is no object (5, null): '"method" in parsed' throws.  So
\* does the predicate of a waiting expectation that looks into an error that is
\* null (cases.ts:109).
ThrowingLine ==
    /\ exited' = TRUE
    /\ UNCHANGED <<vars, reported>>

\* What a case awaits of request(): the write of its line, then the response.
AwaitsRequest(id) ==
    write[id] = "busy" \/ (write[id] = "done" /\ response[id] = "waiting")

\* All the case asked for was answered or rejected: its code ends, and the
\* connection is closed whatever the verdict.
NothingAwaited ==
    /\ \A id \in Ids : ~AwaitsRequest(id)
    /\ \A c \in DOMAIN calls : calls[c].state # "waiting"
CaseEnds == NothingAwaited /\ Close /\ UNCHANGED processVars

\* After the last case; what the process still does then is not followed.
Report ==
    /\ closed
    /\ ~reported
    /\ reported' = TRUE
    /\ UNCHANGED <<vars, exited>>

ProcessNext ==
    /\ ~exited /\ ~reported
    /\ \/ Next /\ UNCHANGED processVars
       \/ ThrowingLine
       \/ Report

ProcessSpec == ProcessInit /\ [][ProcessNext]_allVars

\* The loop goes on: timers fire, a case that awaits nothing ends, and the report
\* follows.  Nothing makes the target read or answer.
Goes(A) == ~exited /\ ~reported /\ A /\ UNCHANGED processVars
Timers ==
    /\ \A id \in Ids : WF_allVars(Goes(RequestTimeout(id)))
    /\ \A c \in 1 .. MaxCalls :
          WF_allVars(Goes(c \in DOMAIN calls /\ ExpectTimeout(c)))
Runner ==
    /\ WF_allVars(~exited /\ ~reported /\ CaseEnds)
    /\ WF_allVars(~exited /\ Report)

FairSpec == ProcessSpec /\ Timers /\ Runner

-----------------------------------------------------------------------------
(* Properties.                                                              *)

\* conformance/README.md:5: every outbound request is bounded by a timeout.  The
\* promise of its response is; that of the write of its line has no timer.  (Of a
\* target that was closed or has failed the pipe is gone, and the write with it.)
RequestsAreBounded ==
    \A id \in Ids :
        AwaitsRequest(id) ~> (~AwaitsRequest(id) \/ closed \/ fatalError \/ exited)

\* A target may answer anything, late or never, fail and die.  As long as it takes
\* its lines or refuses them, one thing keeps the suite from its report: a line
\* that throws.  Every response and expectation a case awaits settles by an answer,
\* a failure or its timer, so no case waits for ever; and none ends unreported.
EndsOneWay ==
    (\A id \in Ids : write[id] = "busy" ~> write[id] # "busy")
        => <>(reported \/ exited)

=============================================================================
