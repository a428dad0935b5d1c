------------------------- MODULE MCHarnessProcess -------------------------
(***************************************************************************)
(* Instances of HarnessProcess, and HarnessConnection in it, for TLC.       *)
(***************************************************************************)
EXTENDS HarnessProcess

CONSTANTS permission, update

MCEventKinds == {permission, update}

\* expectRequest of one kind and expectAnyEvent; an unmatched response of any
\* id.  Both boxes choose alike, so the choice is met in the first.
MCPredicates ==
    [events    |-> {{permission}, MCEventKinds},
     responses |-> {ResponseIds}]

=============================================================================
