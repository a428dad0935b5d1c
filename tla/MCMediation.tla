------------------------------ MODULE MCMediation ------------------------------
(***************************************************************************)
(* Instances of Translation, Reentry and BridgeValues for TLC: a behaviour   *)
(* is of one of them, and the others rest in one of their initial states.    *)
(***************************************************************************)
EXTENDS Translation, Reentry, BridgeValues

VARIABLE subject

vars == <<subject, translationVars, reentryVars, text>>

MCCharacters == {<<97>>, <<10>>, <<13>>, <<195, 169>>, <<226, 130, 172>>,
                 <<240, 159, 152, 128>>}

Init ==
    /\ subject \in {"updates", "reentry", "values"}
    /\ TranslationInit /\ ReentryInit /\ ValuesInit
    /\ subject # "updates" => speaks = 1 /\ topic = "calls"
    /\ subject # "reentry" => clientSpeaks = 1 /\ supports = {} /\ history = <<>>

Next ==
    \/ subject = "updates" /\ TranslationNext /\ UNCHANGED <<subject, reentryVars, text>>
    \/ subject = "reentry" /\ ReentryNext /\ UNCHANGED <<subject, translationVars, text>>
    \/ subject = "values" /\ ValuesNext
       /\ UNCHANGED <<subject, translationVars, reentryVars>>

Spec == Init /\ [][Next]_vars

=============================================================================
