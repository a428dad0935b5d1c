----------------------------- MODULE MCConformance -----------------------------
(***************************************************************************)
(* Instances of Conformance for TLC.                                        *)
(***************************************************************************)
EXTENDS Conformance

Faults ==
    {"midturn-bad-update-v1", "omit-v1-session-new-session-id",
     "wrong-type-v1-session-new-session-id", "timeout-v1-session-new",
     "trailing-bad-update-v1", "omit-v1-prompt-stop-reason",
     "illegal-v2-fs-read-text-file"}

\* The good agent, the profiles of the fault suite, reference-bad-stdio's two
\* faults, and every other set that --fault, which may be repeated, can ask for.
MCFaultSets == SUBSET Faults

MCDrivers == {"stdio", "in-process"}

=============================================================================
