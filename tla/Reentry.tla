-------------------------------- MODULE Reentry --------------------------------
(***************************************************************************)
(* A client comes back to a session through the bridge (session.rs): it      *)
(* says whether it wants the history replayed, the bridge chooses the method *)
(* of the agent's version, and the agent replays or does not.                *)
(*                                                                          *)
(* A client of v1 asks by session/load and the agent, of v2, can do what it  *)
(* asks; a client of v2 asks by session/resume and the agent, of v1, has     *)
(* load, resume, both or neither.  The requests' other fields are left out.  *)
(***************************************************************************)
EXTENDS Integers, Sequences

CONSTANT MaxHistory       \* bound: what is said in the session

VARIABLES
    clientSpeaks,         \* the client's version
    supports,             \* V1SessionSupport: SUBSET {"load", "resume"}
    replay,               \* SessionRecord.replay, or "absent"
    link,                 \* "open", "replaying", "closed"
    history,              \* the agent's
    toReplay,             \* what is left to replay
    shown,                \* by the client
    since                  \* where, in the history, its view starts

reentryVars == <<clientSpeaks, supports, replay, link, history, toReplay, shown, since>>

Intents == {"full", "none", "unknown"}      \* ReplayIntent

\* mutant: a load where there is no resume
RouteOrLoad(intent) ==
    CASE intent = "full" /\ "load" \in supports -> "load"
      [] intent = "none" /\ "resume" \in supports -> "resume"
      [] intent = "none" /\ "load" \in supports -> "load"
      [] OTHER -> "refused"

\* resume_to_v1.  An unknown cursor is refused by the converter.
Route(intent) ==
    CASE intent = "full" /\ "load" \in supports   -> "load"
      [] intent = "none" /\ "resume" \in supports -> "resume"
      [] OTHER -> "refused"

\* load_to_resume: to a v2 agent, with `replayFrom: start`.
Routed(intent) == IF clientSpeaks = 1 THEN "load" ELSE Route(intent)

ReentryInit ==
    /\ clientSpeaks \in {1, 2}
    /\ supports \in SUBSET {"load", "resume"}
    /\ replay = "absent" /\ link = "closed"
    /\ history \in UNION {[1 .. n -> {"a"}] : n \in 0 .. 1}
    /\ toReplay = <<>> /\ shown = <<>>
    /\ since = Len(history)

\* Something is said while the session is open.
Said(x) ==
    /\ link = "open"
    /\ Len(history) < MaxHistory
    /\ history' = Append(history, x)
    /\ shown' = Append(shown, x)
    /\ UNCHANGED <<clientSpeaks, supports, replay, link, toReplay, since>>

\* The connection is lost, and maybe what the client showed with it.
Disconnect(keeps) ==
    /\ link # "closed"
    /\ keeps => link = "open"
    /\ link' = "closed"
    /\ toReplay' = <<>>
    /\ shown' = IF keeps THEN shown ELSE <<>>
    /\ since' = IF keeps THEN since ELSE Len(history)
    /\ UNCHANGED <<clientSpeaks, supports, replay, history>>

\* A client that asks for the history starts from nothing.
Accepted(intent) ==
    /\ Routed(intent) # "refused"
    /\ replay' = IF Routed(intent) = "load" THEN "full" ELSE "none"
    /\ link' = "replaying"
    /\ toReplay' = IF Routed(intent) = "load" THEN history ELSE <<>>
    /\ shown' = IF intent = "full" THEN <<>> ELSE shown
    /\ since' = IF intent = "full" THEN 0 ELSE since

Resume(intent) ==
    /\ link = "closed"
    /\ clientSpeaks = 1 => intent = "full"
    /\ Accepted(intent)
    /\ UNCHANGED <<clientSpeaks, supports, history>>

ReplayNext ==
    /\ link = "replaying" /\ toReplay # <<>>
    /\ shown' = Append(shown, Head(toReplay))
    /\ toReplay' = Tail(toReplay)
    /\ UNCHANGED <<clientSpeaks, supports, replay, link, history, since>>

Opened ==
    /\ link = "replaying" /\ toReplay = <<>>
    /\ link' = "open"
    /\ UNCHANGED <<clientSpeaks, supports, replay, history, toReplay, shown, since>>

ReentryNext ==
    \/ \E x \in {"a", "b"} : Said(x)
    \/ \E keeps \in BOOLEAN : Disconnect(keeps)
    \/ \E intent \in Intents : Resume(intent)
    \/ ReplayNext \/ Opened

ReentrySpec == ReentryInit /\ [][ReentryNext]_reentryVars

-----------------------------------------------------------------------------
\* session.rs:168-179: a client never sees history it did not ask for, twice
\* or at all, and sees all of it where it asked: what it shows is the history
\* from the point where its view starts.
ShownOnce == link = "open" => shown = SubSeq(history, since + 1, Len(history))

=============================================================================
