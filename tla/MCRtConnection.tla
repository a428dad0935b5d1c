--------------------------- MODULE MCRtConnection ---------------------------
(***************************************************************************)
(* Values for RtConnection's constants: a prompt whose handler asks for    *)
(* permission and sends an update, and a second client call beside it.     *)
(***************************************************************************)
EXTENDS RtConnection, TLC

CONSTANTS prompt, permission, list, update, cancel

MCCalls == {prompt, permission, list}
MCOwner == (prompt :> Client) @@ (permission :> Agent) @@ (list :> Client)
MCParent == (prompt :> NoCall) @@ (permission :> prompt) @@ (list :> NoCall)
MCNotes == {update}
MCNoteOwner == update :> Agent
MCNoteParent == update :> prompt

\* The nested pair alone, for the runs that check liveness.
MCPair == {prompt, permission}
MCPairOwner == (prompt :> Client) @@ (permission :> Agent)
MCPairParent == (prompt :> NoCall) @@ (permission :> prompt)

\* Beside the pair the client sends a notification, so that either side has two
\* lines to write while the other's have not been read, and both writers wait.
MCPairNotes == {update, cancel}
MCPairNoteOwner == (update :> Agent) @@ (cancel :> Client)
MCPairNoteParent == (update :> prompt) @@ (cancel :> NoCall)

=============================================================================
