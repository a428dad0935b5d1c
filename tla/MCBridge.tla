------------------------------ MODULE MCBridge ------------------------------
(***************************************************************************)
(* Instances of Bridge for TLC.                                            *)
(***************************************************************************)
EXTENDS Bridge

CONSTANT s1

MCOneSession == {s1}
MCFirst      == {1}
MCNone       == {}

=============================================================================
