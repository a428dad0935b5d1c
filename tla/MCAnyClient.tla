---------------------------- MODULE MCAnyClient ----------------------------
(***************************************************************************)
(* Instances of AnyClient for TLC.                                          *)
(***************************************************************************)
EXTENDS AnyClient

MCNoFaults == {{}}
MCBoth     == {1, 2}
MCStdio    == {"stdio"}
MCDrivers  == {"stdio", "in-process"}

MCScenarios ==
    <<{"v1-full-turn", "v1-permission-reject", "v1-permission-cancel"},
      {"v2-full-turn", "v2-cancel"}>>
MCFullTurns == <<{"v1-full-turn"}, {"v2-full-turn"}>>

MCAnyPermission == {"allow", "reject", "cancelled", "error", "invalid"}
MCDecide        == {"allow", "reject", "cancelled"}
MCAnyOther   == {"ok", "invalid"}
MCValidOther == {"ok"}

MCNothing == [k \in Kinds |-> 0]

\* Two prompts of one session, and a cancel.
MCOverlap == [MCNothing EXCEPT !.initialize = 1, !.new = 1, !.scenario = 1,
                !.prompt = 2, !.cancel = 1]
\* A replay while prompts of the session run.
MCReplay == [MCNothing EXCEPT !.initialize = 1, !.new = 1, !.prompt = 2,
                !.replay = 2]
\* Every kind of request that takes more than a step.
MCAnswers == [MCNothing EXCEPT !.initialize = 1, !.new = 1, !.scenario = 1,
                !.prompt = 1, !.replay = 1, !.slow = 1, !.cancelRequest = 1]
\* One prompt, closed, cancelled, the agent ended under it.
MCEnding  == [MCNothing EXCEPT !.initialize = 1, !.new = 1, !.scenario = 1,
                !.prompt = 1, !.close = 1, !.cancel = 1, !.end = 1]
\* Slow calls and their cancellation.
MCSlow    == [MCNothing EXCEPT !.initialize = 1, !.slow = 2, !.cancelRequest = 2,
                !.other = 1, !.garbage = 1, !.end = 1]

MCWorkloads == {MCOverlap, MCReplay, MCAnswers, MCEnding, MCSlow}
MCProgress  == {MCAnswers, MCEnding, MCSlow}
MCOneEnding == {MCEnding}

=============================================================================
