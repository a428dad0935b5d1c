---------------------------- MODULE AgentProofs ----------------------------
(***************************************************************************)
(* Safety of the reference agent with an arbitrary client, for every       *)
(* workload, every set of faults and every number of sessions.  First what *)
(* the code of a flow may do and what each step is; then the invariant of  *)
(* types and code; then what the agent promises its client: one answer for *)
(* a request, a cancel that is heeded, no cancelled turn without a cancel, *)
(* nothing asked after a rejection, and in v2 an idle session at the end.  *)
(***************************************************************************)
EXTENDS AnyClient, FiniteSetTheorems, FunctionTheorems, SequenceTheorems,
    WellFoundedInduction, TLAPS

-----------------------------------------------------------------------------
(* The code of a flow.                                                     *)

Looking   == {"judgeV1", "judgeV2", "loop"}          \* reads cancelled
Branching == Looking \cup {"start", "entries"}
Plain1    == {"say", "ask", "reply", "bad", "illegal", "sleep", "replay"}
Owing     == {"reply", "judgeV1", "entries"}         \* answers, or may yet
EndTurns  == {"end_turn", "idle_end_turn"}
Cancels   == {"cancelled", "idle_cancelled"}
Idles     == {"idle_end_turn", "idle_cancelled"}
Roles     == {"user", "agent"}
Updates   == {"user_message_chunk", "agent_message_chunk", "user_message",
              "agent_message", "tool_call", "tool_call_update",
              "terminal_update", "terminal_output_chunk"}
Methods   == {"session/request_permission", "fs/read_text_file",
              "fs/write_text_file", "terminal/create", "terminal/output",
              "terminal/kill", "terminal/wait_for_exit", "terminal/release",
              "elicitation/create"}
Segments  == [op : Plain1 \cup Branching,
              what : Updates \cup Methods \cup States \cup Stops
                        \cup {"none", "ok", "no_stop_reason"},
              push : Roles \cup {"none"}]

Has(t, ops)    == \E i \in DOMAIN t : t[i].op \in ops
Tells(t, whats) == \E i \in DOMAIN t : t[i].what \in whats
Once(t, ops)   == \A i, j \in DOMAIN t : t[i].op \in ops /\ t[j].op \in ops => i = j

\* Code that branches is last, it is replaced when it runs; nothing waits at
\* the end; a turn is answered once at most.  What comes before a look at the
\* flag asks once at most and does not end the turn; what comes with the word
\* cancelled is the end of it.
Code(t) ==
    /\ t # <<>> => t[Len(t)].op \notin {"ask", "sleep"}
    /\ \A i \in DOMAIN t : t[i].op \in Branching => i = Len(t)
    /\ Has(t, {"start"}) => Len(t) = 1
    /\ Once(t, Owing)
    /\ Has(t, Looking) => Once(t, {"ask"}) /\ ~Tells(t, EndTurns)
    /\ Tells(t, Cancels) => ~Has(t, {"ask"} \cup Branching)

\* A script of these operations, without these words.
Script(t, ops, never) ==
    /\ t \in Seq(Segments) /\ t # <<>>
    /\ t[1].op \in Plain1
    /\ Code(t)
    /\ \A i \in DOMAIN t : t[i].op \in ops /\ t[i].what \notin never

\* The last word of a code that does not branch is that the session is idle.
EndsIdle(t) ==
    \/ t[Len(t)].op \in Branching
    \/ t[Len(t)].op = "say" /\ t[Len(t)].what \in Idles

\* What is left of a code is code.
LEMMA TailIs ==
    ASSUME NEW t \in Seq(Segments), t # <<>>
    PROVE  /\ Tail(t) \in Seq(Segments)
           /\ \A ops : Has(Tail(t), ops) => Has(t, ops)
           /\ \A whats : Tells(Tail(t), whats) => Tells(t, whats)
           /\ Tail(t) # <<>> => Tail(t)[Len(Tail(t))] = t[Len(t)] /\ Len(t) > 1
           /\ Tail(t) = <<>> => Len(t) = 1
           /\ Code(t) => Code(Tail(t))
           /\ \A ops : Once(t, ops) /\ t[1].op \in ops => ~Has(Tail(t), ops)
<1>1. /\ Tail(t) \in Seq(Segments) /\ Len(Tail(t)) = Len(t) - 1
      /\ \A i \in 1 .. Len(Tail(t)) : Tail(t)[i] = t[i + 1]
  BY HeadTailProperties
<1>2. Len(t) \in Nat \ {0} /\ DOMAIN t = 1 .. Len(t) /\ DOMAIN Tail(t) = 1 .. Len(t) - 1
  BY <1>1
<1>3. \A i \in DOMAIN Tail(t) : i + 1 \in DOMAIN t /\ Tail(t)[i] = t[i + 1]
  BY <1>1, <1>2
<1>4. \A ops : Has(Tail(t), ops) => Has(t, ops)
  BY <1>3 DEF Has
<1>5. \A whats : Tells(Tail(t), whats) => Tells(t, whats)
  BY <1>3 DEF Tells
<1>6. Tail(t) # <<>> => Tail(t)[Len(Tail(t))] = t[Len(t)] /\ Len(t) > 1
  BY <1>1, <1>2
<1>7. \A ops : Once(t, ops) => Once(Tail(t), ops)
  BY <1>2, <1>3 DEF Once
<1>8. \A ops : Once(t, ops) /\ t[1].op \in ops => ~Has(Tail(t), ops)
  BY <1>2, <1>3 DEF Once, Has
<1>9. ASSUME Code(t) PROVE Code(Tail(t))
  <2>1. Tail(t) # <<>> => Tail(t)[Len(Tail(t))].op \notin {"ask", "sleep"}
    BY <1>6, <1>9 DEF Code
  <2>2. \A i \in DOMAIN Tail(t) : Tail(t)[i].op \in Branching => i = Len(Tail(t))
    BY <1>1, <1>2, <1>3, <1>9 DEF Code
  <2>3. Has(Tail(t), {"start"}) => Len(Tail(t)) = 1
    BY <1>2, <1>4, <1>9 DEF Code, Has
  <2>4. Once(Tail(t), Owing) /\ (Once(t, {"ask"}) => Once(Tail(t), {"ask"}))
    BY <1>7, <1>9 DEF Code
  <2>5. Has(Tail(t), Looking) => Once(Tail(t), {"ask"}) /\ ~Tells(Tail(t), EndTurns)
    <3>1. Has(Tail(t), Looking) => Has(t, Looking)
      BY <1>4
    <3>2. Tells(Tail(t), EndTurns) => Tells(t, EndTurns)
      BY <1>5
    <3> QED BY <3>1, <3>2, <2>4, <1>9 DEF Code
  <2>6. Tells(Tail(t), Cancels) => ~Has(Tail(t), {"ask"} \cup Branching)
    <3>1. Has(Tail(t), {"ask"} \cup Branching) => Has(t, {"ask"} \cup Branching)
      BY <1>4
    <3>2. Tells(Tail(t), Cancels) => Tells(t, Cancels)
      BY <1>5
    <3> QED BY <3>1, <3>2, <1>9 DEF Code
  <2> QED BY <2>1, <2>2, <2>3, <2>4, <2>5, <2>6 DEF Code
<1>10. Tail(t) = <<>> => Len(t) = 1
  BY <1>1, <1>2
<1> QED BY <1>1, <1>3, <1>4, <1>5, <1>8, <1>9, <1>10

\* Says and asks, without a word about the end, may come before a script that
\* does not look at the flag and is not cancelled.
LEMMA Before ==
    ASSUME NEW s \in Seq(Segments), NEW t, NEW ops, NEW never, NEW calls \in SUBSET {"say", "ask"},
           s # <<>>, Script(t, ops, never), ops \cap Branching = {},
           Cancels \subseteq never,
           \A i \in DOMAIN s : s[i].op \in calls /\ s[i].what \notin Stops
    PROVE  Script(s \o t, ops \cup calls, never \cap Stops)
<1> DEFINE u == s \o t
<1>1. t \in Seq(Segments) /\ Len(t) \in Nat \ {0} /\ DOMAIN t = 1 .. Len(t)
  BY DEF Script
<1>2. Len(s) \in Nat \ {0} /\ DOMAIN s = 1 .. Len(s)
  OBVIOUS
<1>3. /\ u \in Seq(Segments) /\ Len(u) = Len(s) + Len(t) /\ DOMAIN u = 1 .. Len(s) + Len(t)
      /\ \A i \in DOMAIN u : u[i] = IF i <= Len(s) THEN s[i] ELSE t[i - Len(s)]
  BY <1>1, ConcatProperties
<1> HIDE DEF u
<1>4. \A i \in DOMAIN u :
         \/ i \in DOMAIN s /\ u[i] = s[i]
         \/ i - Len(s) \in DOMAIN t /\ u[i] = t[i - Len(s)]
  BY <1>1, <1>2, <1>3
<1>5. \A i \in DOMAIN u : u[i].op \in ops \cup calls /\ u[i].what \notin never \cap Stops
  BY <1>4 DEF Script
<1>6. u[Len(u)] = t[Len(t)] /\ u # <<>> /\ u[1] = s[1] /\ 1 \in DOMAIN s
  BY <1>1, <1>2, <1>3
<1>7. ~Has(u, Branching)
  BY <1>5 DEF Has, Branching, Looking
<1>8. ~Tells(u, Cancels)
  <2> SUFFICES ASSUME NEW i \in DOMAIN u PROVE u[i].what \notin Cancels
    BY DEF Tells
  <2> QED BY <1>4 DEF Script, Cancels, Stops
<1>9. Once(u, Owing)
  <2> SUFFICES ASSUME NEW i \in DOMAIN u, NEW j \in DOMAIN u,
                      u[i].op \in Owing, u[j].op \in Owing
               PROVE  i = j
    BY DEF Once
  <2>1. \A k \in DOMAIN s : s[k].op \notin Owing
    BY DEF Owing
  <2>2. /\ i - Len(s) \in DOMAIN t /\ u[i] = t[i - Len(s)]
        /\ j - Len(s) \in DOMAIN t /\ u[j] = t[j - Len(s)]
    BY <2>1, <1>4
  <2>3. i - Len(s) = j - Len(s)
    BY <2>2 DEF Script, Code, Once
  <2> QED BY <2>3, <1>2, <1>3
<1>10. Code(u)
  <2>1. u[Len(u)].op \notin {"ask", "sleep"}
    BY <1>6 DEF Script, Code
  <2> QED BY <2>1, <1>7, <1>8, <1>9 DEF Code, Has, Branching
<1>11. u[1].op \in Plain1
  BY <1>6 DEF Plain1
<1> QED BY <1>3, <1>5, <1>6, <1>10, <1>11 DEF Script, u

\* A v1 prompt's answer, and the bad update a fault adds, are a script that says
\* only the stop reason it was given.
LEMMA ReplyIs ==
    ASSUME NEW stop \in {"end_turn", "cancelled"}
    PROVE  Script(V1Reply(stop), {"reply", "bad"},
                  IF stop = "end_turn" THEN Cancels ELSE EndTurns)
<1> DEFINE r == Reply(IF "omit-v1-prompt-stop-reason" \in faults THEN "no_stop_reason" ELSE stop)
           b == Segment("bad", "none", "none")
           never == IF stop = "end_turn" THEN Cancels ELSE EndTurns
<1>1. /\ r \in Segments /\ r.op = "reply" /\ r.what \notin never
      /\ b \in Segments /\ b.op = "bad" /\ b.what \notin EndTurns \cup Cancels
  BY DEF Reply, Segment, Segments, Plain1, Stops, Cancels, EndTurns
<1> HIDE DEF r, b
<1>2. V1Reply(stop) = <<r>> \/ V1Reply(stop) = <<r, b>>
  <2>1. CASE "trailing-bad-update-v1" \in faults
    <3>1. V1Reply(stop) = <<r>> \o <<b>>
      <4>1. TrailingFault = <<b>>
        BY <2>1 DEF TrailingFault, b
      <4> QED BY <4>1 DEF V1Reply, r
    <3>2. <<r>> \in Seq(Segments) /\ <<b>> \in Seq(Segments) /\ <<r, b>> \in Seq(Segments)
      BY <1>1
    <3>3. /\ <<r>> \o <<b>> \in Seq(Segments) /\ Len(<<r>> \o <<b>>) = 2
          /\ (<<r>> \o <<b>>)[1] = r /\ (<<r>> \o <<b>>)[2] = b
      BY <3>2, ConcatProperties
    <3>4. <<r>> \o <<b>> = <<r, b>>
      <4> DEFINE x == <<r>> \o <<b>>
      <4> HIDE DEF x
      <4>1. x \in Seq(Segments) /\ Len(x) = 2 /\ x[1] = r /\ x[2] = b
        BY <3>3 DEF x
      <4>2. x = <<r, b>>
        BY <4>1, <3>2, SeqEqual
      <4> QED BY <4>2 DEF x
    <3> QED BY <3>1, <3>4
  <2>2. CASE "trailing-bad-update-v1" \notin faults
    <3>1. V1Reply(stop) = <<r>> \o <<>>
      BY <2>2 DEF V1Reply, TrailingFault, r
    <3> QED BY <3>1
  <2> QED BY <2>1, <2>2
<1>3. CASE V1Reply(stop) = <<r>>
  <2> DEFINE t == <<r>>
  <2>1. Code(t)
    BY <1>1 DEF Code, Has, Tells, Once, Branching, Looking, Owing
  <2> QED BY <1>1, <1>3, <2>1 DEF Script, Plain1, EndTurns, Cancels
<1>4. CASE V1Reply(stop) = <<r, b>>
  <2> DEFINE t == <<r, b>>
  <2>1. Code(t)
    BY <1>1 DEF Code, Has, Tells, Once, Branching, Looking, Owing
  <2> QED BY <1>1, <1>4, <2>1 DEF Script, Plain1, EndTurns, Cancels
<1> QED BY <1>2, <1>3, <1>4

\* The v1 turn without a scenario asks for nothing and is not cancelled.
LEMMA DefaultV1Is == Script(DefaultV1, {"say", "reply", "bad"}, Cancels)
<1> DEFINE s == <<SayNew("user_message_chunk", "user"), SayNew("agent_message_chunk", "agent")>>
<1>1. s \in Seq(Segments) /\ s # <<>>
      /\ \A i \in DOMAIN s : s[i].op \in {"say"} /\ s[i].what \notin Stops
  BY DEF SayNew, Segment, Segments, Plain1, Updates, Roles, Stops
<1>2. Script(V1Reply("end_turn"), {"reply", "bad"}, Cancels)
  BY ReplyIs
<1> HIDE DEF s
<1>3. Script(s \o V1Reply("end_turn"), {"reply", "bad"} \cup {"say"}, Cancels \cap Stops)
  BY <1>1, <1>2, Before DEF Branching, Looking
<1>4. Cancels \cap Stops = Cancels /\ {"reply", "bad"} \cup {"say"} = {"say", "reply", "bad"}
  BY DEF Cancels, Stops
<1> QED BY <1>3, <1>4 DEF DefaultV1, s

\* What a script does and never says may be told more loosely.
LEMMA Looser ==
    ASSUME NEW t, NEW ops, NEW never, NEW more, NEW fewer, Script(t, ops, never),
           ops \subseteq more, fewer \subseteq never
    PROVE  Script(t, more, fewer)
BY DEF Script

\* After a v1 rejection the turn asks for nothing more.
LEMMA RejectedV1Is == Script(RejectedV1, {"say", "reply", "bad"}, Cancels)
<1> DEFINE s == <<SayNew("tool_call_update", "agent"), Say("agent_message_chunk")>>
<1>1. s \in Seq(Segments) /\ s # <<>>
      /\ \A i \in DOMAIN s : s[i].op \in {"say"} /\ s[i].what \notin Stops
  BY DEF SayNew, Say, Segment, Segments, Plain1, Updates, Roles, Stops
<1>2. Script(V1Reply("end_turn"), {"reply", "bad"}, Cancels)
  BY ReplyIs
<1> HIDE DEF s
<1>3. Script(s \o V1Reply("end_turn"), {"reply", "bad"} \cup {"say"}, Cancels \cap Stops)
  BY <1>1, <1>2, Before DEF Branching, Looking
<1>4. Cancels \cap Stops = Cancels /\ {"reply", "bad"} \cup {"say"} = {"say", "reply", "bad"}
  BY DEF Cancels, Stops
<1> QED BY <1>3, <1>4 DEF RejectedV1, s

\* After a v1 permission the turn asks, says and is answered; it branches no
\* more and is not cancelled.
LEMMA AllowedV1Is == Script(AllowedV1, {"say", "ask", "reply", "bad"}, Cancels)
<1> DEFINE s == <<Ask("fs/read_text_file"), Ask("fs/write_text_file"),
                  Ask("terminal/create"), Ask("terminal/output"), Ask("terminal/kill"),
                  Ask("terminal/wait_for_exit"), Ask("terminal/release"),
                  Ask("elicitation/create")>>
           ops == {"say", "ask", "reply", "bad"}
<1>1. \A m \in Methods : Ask(m) \in Segments /\ Ask(m).op = "ask" /\ Ask(m).what \notin Stops
  BY DEF Ask, Segment, Segments, Plain1, Methods, Stops
<1>2. \A i \in DOMAIN s : \E m \in Methods : s[i] = Ask(m)
  BY DEF Methods
<1>3. Len(s) = 8 /\ DOMAIN s = 1 .. 8 /\ s # <<>>
  OBVIOUS
<1> HIDE DEF s
<1>4. \A i \in DOMAIN s : s[i] \in Segments /\ s[i].op \in {"ask"} /\ s[i].what \notin Stops
  BY <1>1, <1>2
<1>5. s \in Seq(Segments)
  <2>1. \A i \in 1 .. 8 : s[i] \in Segments
    BY <1>3, <1>4
  <2>2. s \in [1 .. 8 -> Segments]
    BY <2>1, <1>3 DEF s
  <2> QED BY <2>2, SeqDef
<1>6. Script(s \o RejectedV1, {"say", "reply", "bad"} \cup {"ask"}, Cancels \cap Stops)
  BY <1>3, <1>4, <1>5, RejectedV1Is, Before DEF Branching, Looking
<1>7. Cancels \cap Stops = Cancels /\ {"say", "reply", "bad"} \cup {"ask"} = ops
  BY DEF Cancels, Stops
<1> QED BY <1>6, <1>7 DEF AllowedV1, s

\* The v1 scenarios ask for permission once and then look, without a word about
\* the end.
LEMMA ScenarioV1Is == Script(ScenarioV1, {"say", "ask", "judgeV1"}, Stops)
<1>1. /\ ScenarioV1 \in Seq(Segments) /\ ScenarioV1 # <<>>
      /\ Len(ScenarioV1) = 4 /\ DOMAIN ScenarioV1 = 1 .. 4
  BY DEF ScenarioV1, SayNew, Say, Ask, Goto, Segment, Segments, Plain1, Branching, Looking,
         Updates, Methods, Roles
<1>2. /\ ScenarioV1[1].op = "say" /\ ScenarioV1[2].op = "say"
      /\ ScenarioV1[3].op = "ask" /\ ScenarioV1[4].op = "judgeV1"
  BY DEF ScenarioV1, SayNew, Say, Ask, Goto, Segment
<1>3. \A i \in 1 .. 4 : ScenarioV1[i].what \notin Stops
  BY DEF ScenarioV1, SayNew, Say, Ask, Goto, Segment, Stops
<1>4. \A i \in 1 .. 4 : ScenarioV1[i].op = IF i = 3 THEN "ask" ELSE IF i = 4 THEN "judgeV1" ELSE "say"
  BY <1>2
<1>5. Code(ScenarioV1)
  BY <1>1, <1>3, <1>4 DEF Code, Has, Tells, Once, Branching, Looking, Owing, EndTurns, Cancels, Stops
<1> QED BY <1>1, <1>3, <1>4, <1>5 DEF Script, Plain1

\* So does the full v2 turn.
LEMMA ScenarioV2Is ==
    Script(ScenarioV2, {"say", "ask", "judgeV2"}, Stops) /\ EndsIdle(ScenarioV2)
<1>1. /\ ScenarioV2 \in Seq(Segments) /\ ScenarioV2 # <<>>
      /\ Len(ScenarioV2) = 6 /\ DOMAIN ScenarioV2 = 1 .. 6
  BY DEF ScenarioV2, SayNew, Say, Ask, Goto, Segment, Segments, Plain1, Branching, Looking,
         Updates, Methods, States, Roles
<1>2. /\ ScenarioV2[1].op = "say" /\ ScenarioV2[2].op = "say" /\ ScenarioV2[3].op = "say"
      /\ ScenarioV2[4].op = "ask" /\ ScenarioV2[5].op = "say" /\ ScenarioV2[6].op = "judgeV2"
  BY DEF ScenarioV2, SayNew, Say, Ask, Goto, Segment
<1>3. \A i \in 1 .. 6 : ScenarioV2[i].what \notin Stops
  BY DEF ScenarioV2, SayNew, Say, Ask, Goto, Segment, Stops
<1>4. \A i \in 1 .. 6 : ScenarioV2[i].op = IF i = 4 THEN "ask" ELSE IF i = 6 THEN "judgeV2" ELSE "say"
  BY <1>2
<1>5. Code(ScenarioV2)
  BY <1>1, <1>3, <1>4 DEF Code, Has, Tells, Once, Branching, Looking, Owing, EndTurns, Cancels, Stops
<1> QED BY <1>1, <1>3, <1>4, <1>5 DEF Script, Plain1, EndsIdle, Branching, Looking

\* The v2 scenario that waits for a cancel ends in its loop.
LEMMA CancelV2Is ==
    Script(CancelV2, {"say", "loop"}, Stops) /\ EndsIdle(CancelV2)
<1>1. /\ CancelV2 \in Seq(Segments) /\ CancelV2 # <<>>
      /\ Len(CancelV2) = 3 /\ DOMAIN CancelV2 = 1 .. 3
  BY DEF CancelV2, SayNew, Say, Goto, Segment, Segments, Plain1, Branching, Looking,
         Updates, States, Roles
<1>2. \A i \in 1 .. 3 : /\ CancelV2[i].op = IF i = 3 THEN "loop" ELSE "say"
                        /\ CancelV2[i].what \notin Stops
  BY DEF CancelV2, SayNew, Say, Goto, Segment, Stops
<1>3. Code(CancelV2)
  BY <1>1, <1>2 DEF Code, Has, Tells, Once, Branching, Looking, Owing, EndTurns, Cancels, Stops
<1> QED BY <1>1, <1>2, <1>3 DEF Script, Plain1, EndsIdle, Branching, Looking

\* The v2 turn without a scenario says at the end that the session is idle.
LEMMA DefaultV2Is == Script(DefaultV2, {"say"}, Cancels) /\ EndsIdle(DefaultV2)
<1>1. /\ DefaultV2 \in Seq(Segments) /\ DefaultV2 # <<>>
      /\ Len(DefaultV2) = 4 /\ DOMAIN DefaultV2 = 1 .. 4
  BY DEF DefaultV2, SayNew, Say, Segment, Segments, Plain1, Updates, States, Roles
<1>2. \A i \in 1 .. 4 : DefaultV2[i].op = "say" /\ DefaultV2[i].what \notin Cancels
  BY DEF DefaultV2, SayNew, Say, Segment, Cancels
<1>3. DefaultV2[4].what \in Idles
  BY DEF DefaultV2, Say, Segment, Idles
<1>4. Code(DefaultV2)
  BY <1>1, <1>2 DEF Code, Has, Tells, Once, Branching, Looking, Owing
<1> QED BY <1>1, <1>2, <1>3, <1>4 DEF Script, Plain1, EndsIdle

\* One segment that does not wait is a script.
LEMMA OneStep ==
    ASSUME NEW seg \in Segments, seg.op \in Plain1 \ {"ask", "sleep"}
    PROVE  Script(<<seg>>, {seg.op}, (EndTurns \cup Cancels) \ {seg.what})
<1> DEFINE t == <<seg>>
<1>1. t \in Seq(Segments) /\ t # <<>> /\ Len(t) = 1 /\ DOMAIN t = {1} /\ t[1] = seg
  OBVIOUS
<1> HIDE DEF t
<1>2. Code(t)
  BY <1>1 DEF Code, Has, Tells, Once, Branching, Looking, Plain1
<1> QED BY <1>1, <1>2 DEF Script, t

\* AfterPermissionV2 goes on with one of three scripts.
LEMMA AllowedV2Is ==
    LET allowed == <<Say("terminal_update"), Say("terminal_output_chunk"),
                     Ask("elicitation/create"), SayNew("agent_message", "agent"),
                     Say("idle_end_turn")>>
    IN  /\ Script(<<Say("running")>> \o allowed, {"say", "ask"}, Cancels)
        /\ EndsIdle(<<Say("running")>> \o allowed)
<1> DEFINE allowed == <<Say("terminal_update"), Say("terminal_output_chunk"),
                        Ask("elicitation/create"), SayNew("agent_message", "agent"),
                        Say("idle_end_turn")>>
           u == <<Say("running")>> \o allowed
<1>1. /\ allowed \in Seq(Segments) /\ allowed # <<>>
      /\ Len(allowed) = 5 /\ DOMAIN allowed = 1 .. 5
  BY DEF SayNew, Say, Ask, Segment, Segments, Plain1, Updates, Methods, Stops, Roles
<1>2. \A i \in 1 .. 5 : /\ allowed[i].op = IF i = 3 THEN "ask" ELSE "say"
                        /\ allowed[i].what \notin Cancels
  BY DEF SayNew, Say, Ask, Segment, Cancels
<1>3. allowed[5].what = "idle_end_turn"
  BY DEF Say, Segment
<1>4. /\ <<Say("running")>> \in Seq(Segments) /\ <<Say("running")>> # <<>>
      /\ \A i \in DOMAIN <<Say("running")>> :
            <<Say("running")>>[i].op \in {"say", "ask"} /\ <<Say("running")>>[i].what \notin Stops
  BY DEF Say, Segment, Segments, Plain1, States, Stops
<1> HIDE DEF allowed
<1>5. Script(allowed, {"say", "ask"}, Cancels)
  <2>1. Code(allowed)
    BY <1>1, <1>2 DEF Code, Has, Tells, Once, Branching, Looking, Owing
  <2> QED BY <1>1, <1>2, <2>1 DEF Script, Plain1
<1>6. Script(u, {"say", "ask"} \cup {"say", "ask"}, Cancels \cap Stops)
  BY <1>4, <1>5, Before DEF Branching, Looking
<1>7. Cancels \cap Stops = Cancels /\ {"say", "ask"} \cup {"say", "ask"} = {"say", "ask"}
  BY DEF Cancels, Stops
<1>8. u[Len(u)] = allowed[5]
  <2>1. /\ Len(u) = Len(<<Say("running")>>) + Len(allowed)
        /\ \A i \in 1 .. Len(<<Say("running")>>) + Len(allowed) :
              u[i] = IF i <= Len(<<Say("running")>>) THEN <<Say("running")>>[i]
                     ELSE allowed[i - Len(<<Say("running")>>)]
    BY <1>1, <1>4, ConcatProperties
  <2>2. Len(<<Say("running")>>) = 1
    OBVIOUS
  <2> QED BY <2>1, <2>2, <1>1
<1>9. EndsIdle(u)
  BY <1>2, <1>3, <1>8 DEF EndsIdle, Idles
<1> QED BY <1>6, <1>7, <1>9 DEF u, allowed

\* The v2 turn that breaks the protocol does not end its session's work.
LEMMA IllegalV2Is ==
    Script(<<Say("running")>> \o <<Segment("illegal", "none", "none")>>, {"say", "ask", "illegal"},
           Cancels)
<1> DEFINE i1 == Segment("illegal", "none", "none")
<1>1. i1 \in Segments /\ i1.op = "illegal" /\ i1.what = "none"
  BY DEF Segment, Segments, Plain1
<1>2. Script(<<i1>>, {"illegal"}, (EndTurns \cup Cancels) \ {"none"})
  <2>1. i1.op \in Plain1 \ {"ask", "sleep"}
    BY <1>1 DEF Plain1
  <2> HIDE DEF i1
  <2> QED BY <1>1, <2>1, OneStep
<1>3. Cancels \subseteq (EndTurns \cup Cancels) \ {"none"}
  BY DEF Cancels
<1>4. /\ <<Say("running")>> \in Seq(Segments) /\ <<Say("running")>> # <<>>
      /\ \A i \in DOMAIN <<Say("running")>> :
            <<Say("running")>>[i].op \in {"say", "ask"} /\ <<Say("running")>>[i].what \notin Stops
  BY DEF Say, Segment, Segments, Plain1, States, Stops
<1> HIDE DEF i1
<1>5. Script(<<Say("running")>> \o <<i1>>, {"illegal"} \cup {"say", "ask"},
             ((EndTurns \cup Cancels) \ {"none"}) \cap Stops)
  BY <1>2, <1>3, <1>4, Before DEF Branching, Looking
<1>6. /\ {"illegal"} \cup {"say", "ask"} \subseteq {"say", "ask", "illegal"}
      /\ Cancels \subseteq ((EndTurns \cup Cancels) \ {"none"}) \cap Stops
  BY DEF Cancels, Stops
<1> QED BY <1>5, <1>6, Looser DEF i1

\* The loop that watches the flag sleeps and comes back.
LEMMA SleepIs ==
    /\ Script(<<Segment("sleep", "none", "none"), Goto("loop")>>, {"sleep", "loop"}, Stops)
    /\ EndsIdle(<<Segment("sleep", "none", "none"), Goto("loop")>>)
<1> DEFINE t == <<Segment("sleep", "none", "none"), Goto("loop")>>
<1>1. t \in Seq(Segments) /\ t # <<>> /\ Len(t) = 2 /\ DOMAIN t = 1 .. 2
  BY DEF Goto, Segment, Segments, Plain1, Branching, Looking
<1>2. /\ t[1].op = "sleep" /\ t[2].op = "loop"
      /\ \A i \in 1 .. 2 : t[i].what \notin Stops
  BY DEF Goto, Segment, Stops
<1> HIDE DEF t
<1>3. \A i \in 1 .. 2 : t[i].op = IF i = 1 THEN "sleep" ELSE "loop"
  BY <1>2
<1>4. Code(t)
  BY <1>1, <1>2, <1>3 DEF Code, Has, Tells, Once, Branching, Looking, Owing, EndTurns, Cancels,
     Stops
<1> QED BY <1>1, <1>2, <1>3, <1>4 DEF Script, Plain1, EndsIdle, Branching, Looking, t

-----------------------------------------------------------------------------
(* Branching.                                                              *)

Scenario1 == {"v1-full-turn", "v1-permission-reject", "v1-permission-cancel"}
Scenario2 == {"v2-full-turn", "v2-cancel"}
Names     == {"none"} \cup Scenario1 \cup Scenario2
\* The scenarios of a session when version v is spoken.
NamesOf(v) == {"none"} \cup (IF v = 1 THEN Scenario1 ELSE {})
                       \cup (IF v = 2 THEN Scenario2 ELSE {})
Over      == {"done", "thrown"}
Session   == [history : Seq(Roles \X Nat), scenario : Names]
Flow      == [kind : {"prompt", "replay"}, request : Nat, session : Nat, scenario : Names,
              todo : Seq(Segments),
              status : {"ready", "asking", "sleeping", "done", "thrown"},
              cancelled : BOOLEAN,
              answer : PermissionAnswers \cup OtherAnswers \cup {"none"},
              count : Nat]

NoIllegalCall == "illegal-v2-fs-read-text-file" \notin faults
Excused(fl) == fl.answer \in {"error", "cancelled"} \/ fl.scenario = "v1-permission-cancel"

\* A prompt's flow can go on, in the version spoken; before it starts it has
\* one segment, the start.
Runs(fl) ==
    /\ Code(fl.todo)
    /\ ~Has(fl.todo, {"entries", "replay"})
    /\ version = 1 => ~Has(fl.todo, {"judgeV2", "loop", "sleep"})
    /\ version = 2 => ~Has(fl.todo, Owing)
    /\ NoIllegalCall /\ version = 2 /\ fl.todo # <<>> => EndsIdle(fl.todo)

\* What the code t that replaces fl's may do.
Leads(fl, t) ==
    /\ t \in Seq(Segments) /\ t # <<>>
    /\ t[1].op \in Plain1
    /\ Runs([fl EXCEPT !.todo = t])
    /\ ~Has(t, {"start"})
    /\ Has(t, Owing) => Has(fl.todo, Owing) \/ (version = 1 /\ Has(fl.todo, {"start"}))
    /\ Has(t, Looking) => Has(fl.todo, Looking \cup {"start"})
    /\ Tells(t, Cancels) => Tells(fl.todo, Cancels) \/ fl.cancelled \/ Excused(fl)
    /\ (fl.cancelled /\ ~Tells(fl.todo, EndTurns) /\ ~Has(fl.todo, {"start"})) =>
          ~Tells(t, EndTurns)
    /\ (/\ version = 1
        /\ ~Has(fl.todo, {"ask", "start"})
        /\ Has(fl.todo, Looking) => fl.answer = "reject") => ~Has(t, {"ask"})

\* What a script does not do or say.
LEMMA Lacks ==
    ASSUME NEW t, NEW ops, NEW never, Script(t, ops, never)
    PROVE  /\ \A x : x \cap ops = {} => ~Has(t, x)
           /\ \A x : x \subseteq never => ~Tells(t, x)
BY DEF Script, Has, Tells

\* Code that branches is alone when it runs.
LEMMA Alone ==
    ASSUME NEW t \in Seq(Segments), t # <<>>, Code(t)
    PROVE  /\ 1 \in DOMAIN t
           /\ t[1].op \in Branching => Len(t) = 1 /\ DOMAIN t = {1}
           /\ \A ops : t[1].op \in ops => Has(t, ops)
           /\ t[1].op \in Plain1 \cup Branching
<1>1. Len(t) \in Nat \ {0} /\ DOMAIN t = 1 .. Len(t) /\ t[1] \in Segments
  OBVIOUS
<1>2. t[1].op \in Branching => Len(t) = 1
  BY <1>1 DEF Code
<1>3. t[1].op \in Plain1 \cup Branching
  BY <1>1 DEF Segments
<1> QED BY <1>1, <1>2, <1>3 DEF Has

\* The scripts of a version.
LEMMA ScriptOf ==
    ASSUME NEW sc \in NamesOf(version), version \in {1, 2}
    PROVE  /\ version = 1 => PromptScript(sc) \in {ScenarioV1, DefaultV1}
           /\ version = 2 => PromptScript(sc) \in {ScenarioV2, CancelV2, DefaultV2}
BY DEF PromptScript, NamesOf, Scenario1, Scenario2

\* A turn may start with the script of its session's scenario.
LEMMA StartLeads ==
    ASSUME version \in {1, 2}, NEW fl \in Flow, fl.todo # <<>>, Runs(fl), fl.todo[1].op = "start",
           NEW sc \in NamesOf(version)
    PROVE  Leads(fl, PromptScript(sc))
<1> DEFINE t == PromptScript(sc)
<1>1. Has(fl.todo, {"start"}) /\ Has(fl.todo, Looking \cup {"start"}) /\ Has(fl.todo, {"ask", "start"})
  BY Alone DEF Runs, Flow
<1>2. [fl EXCEPT !.todo = t].todo = t
  BY DEF Flow
<1>3. CASE version = 1
  <2>1. Script(t, {"say", "ask", "reply", "bad", "judgeV1"}, Cancels)
    <3>1. Script(ScenarioV1, {"say", "ask", "reply", "bad", "judgeV1"}, Cancels)
      BY ScenarioV1Is, Looser DEF Cancels, Stops
    <3>2. Script(DefaultV1, {"say", "ask", "reply", "bad", "judgeV1"}, Cancels)
      BY DefaultV1Is, Looser
    <3> QED BY <3>1, <3>2, <1>3, ScriptOf
  <2> HIDE DEF t
  <2>2. /\ ~Has(t, {"entries", "replay"}) /\ ~Has(t, {"start"})
        /\ ~Has(t, {"judgeV2", "loop", "sleep"}) /\ ~Tells(t, Cancels)
    BY <2>1, Lacks
  <2>3. Runs([fl EXCEPT !.todo = t])
    BY <1>2, <1>3, <2>1, <2>2 DEF Runs, Script
  <2>4. t \in Seq(Segments) /\ t # <<>> /\ t[1].op \in Plain1
    BY <2>1 DEF Script
  <2> QED BY <1>1, <1>3, <2>2, <2>3, <2>4 DEF Leads, t
<1>4. CASE version = 2
  <2>1. Script(t, {"say", "ask", "judgeV2", "loop"}, Cancels) /\ EndsIdle(t)
    <3>1. Script(ScenarioV2, {"say", "ask", "judgeV2", "loop"}, Cancels)
      BY ScenarioV2Is, Looser DEF Cancels, Stops
    <3>2. Script(CancelV2, {"say", "ask", "judgeV2", "loop"}, Cancels)
      BY CancelV2Is, Looser DEF Cancels, Stops
    <3>3. Script(DefaultV2, {"say", "ask", "judgeV2", "loop"}, Cancels)
      BY DefaultV2Is, Looser
    <3> QED BY <3>1, <3>2, <3>3, <1>4, ScriptOf, ScenarioV2Is, CancelV2Is, DefaultV2Is
  <2> HIDE DEF t
  <2>2. /\ ~Has(t, {"entries", "replay"}) /\ ~Has(t, {"start"})
        /\ ~Has(t, Owing) /\ ~Tells(t, Cancels)
    BY <2>1, Lacks DEF Owing
  <2>3. Runs([fl EXCEPT !.todo = t])
    BY <1>2, <1>4, <2>1, <2>2 DEF Runs, Script
  <2>4. t \in Seq(Segments) /\ t # <<>> /\ t[1].op \in Plain1
    BY <2>1 DEF Script
  <2> QED BY <1>1, <1>4, <2>2, <2>3, <2>4 DEF Leads, t
<1> QED BY <1>3, <1>4

\* What follows the look at a v1 permission is in order: a cancelled turn ends as
\* cancelled, a rejected one asks for nothing.
LEMMA JudgeV1Leads ==
    ASSUME version \in {1, 2}, NEW fl \in Flow, fl.todo # <<>>, Runs(fl),
           fl.todo[1].op = "judgeV1"
    PROVE  Leads(fl, AfterPermissionV1(fl))
<1> DEFINE t == AfterPermissionV1(fl)
           bad == <<Segment("bad", "none", "none")>>
<1>1. Has(fl.todo, Looking) /\ Has(fl.todo, Owing)
  BY Alone DEF Runs, Flow, Looking, Owing
<1>2. version = 1
  BY <1>1 DEF Runs
<1>3. [fl EXCEPT !.todo = t].todo = t
  BY DEF Flow
<1>4. \/ t = bad
      \/ t = V1Reply("cancelled") /\ (fl.cancelled \/ Excused(fl))
      \/ t = RejectedV1 /\ ~fl.cancelled
      \/ t = AllowedV1 /\ ~fl.cancelled /\ fl.answer # "reject"
  BY DEF AfterPermissionV1, Excused
<1>5. Script(bad, {"say", "reply", "bad"}, EndTurns \cup Cancels)
  <2> DEFINE seg == Segment("bad", "none", "none")
  <2>1. seg \in Segments /\ seg.op \in Plain1 \ {"ask", "sleep"} /\ seg.op = "bad" /\ seg.what = "none"
    BY DEF Segment, Segments, Plain1
  <2> HIDE DEF seg
  <2>2. Script(<<seg>>, {"bad"}, (EndTurns \cup Cancels) \ {"none"})
    BY <2>1, OneStep
  <2>3. EndTurns \cup Cancels \subseteq (EndTurns \cup Cancels) \ {"none"}
    BY DEF EndTurns, Cancels
  <2>4. Script(<<seg>>, {"say", "reply", "bad"}, EndTurns \cup Cancels)
    BY <2>2, <2>3, Looser
  <2> QED BY <2>4 DEF seg
<1>6. Script(V1Reply("cancelled"), {"say", "reply", "bad"}, EndTurns)
  <2>1. Script(V1Reply("cancelled"), {"reply", "bad"}, EndTurns)
    BY ReplyIs
  <2> QED BY <2>1, Looser
<1> HIDE DEF t, bad
<1>7. /\ Script(t, {"say", "ask", "reply", "bad"}, {})
      /\ Tells(t, Cancels) => fl.cancelled \/ Excused(fl)
      /\ fl.cancelled => ~Tells(t, EndTurns)
      /\ fl.answer = "reject" => ~Has(t, {"ask"})
  <2>1. CASE t = bad
    <3>1. ~Tells(t, Cancels) /\ ~Tells(t, EndTurns) /\ ~Has(t, {"ask"})
      BY <1>5, <2>1, Lacks
    <3>2. Script(t, {"say", "ask", "reply", "bad"}, {})
      BY <1>5, <2>1, Looser
    <3> QED BY <3>1, <3>2
  <2>2. CASE t = V1Reply("cancelled") /\ (fl.cancelled \/ Excused(fl))
    <3>1. ~Tells(t, EndTurns) /\ ~Has(t, {"ask"})
      BY <1>6, <2>2, Lacks
    <3>2. Script(t, {"say", "ask", "reply", "bad"}, {})
      BY <1>6, <2>2, Looser
    <3> QED BY <3>1, <3>2, <2>2
  <2>3. CASE t = RejectedV1 /\ ~fl.cancelled
    <3>1. ~Tells(t, Cancels) /\ ~Has(t, {"ask"})
      BY <2>3, RejectedV1Is, Lacks
    <3>2. Script(t, {"say", "ask", "reply", "bad"}, {})
      BY <2>3, RejectedV1Is, Looser
    <3> QED BY <3>1, <3>2, <2>3
  <2>4. CASE t = AllowedV1 /\ ~fl.cancelled /\ fl.answer # "reject"
    <3>1. ~Tells(t, Cancels)
      BY <2>4, AllowedV1Is, Lacks
    <3>2. Script(t, {"say", "ask", "reply", "bad"}, {})
      BY <2>4, AllowedV1Is, Looser
    <3> QED BY <3>1, <3>2, <2>4
  <2> QED BY <1>4, <2>1, <2>2, <2>3, <2>4
<1>8. /\ ~Has(t, {"entries", "replay"}) /\ ~Has(t, {"start"})
      /\ ~Has(t, {"judgeV2", "loop", "sleep"}) /\ ~Has(t, Looking)
  BY <1>7, Lacks DEF Looking
<1>9. Code(t) /\ t \in Seq(Segments) /\ t # <<>> /\ t[1].op \in Plain1
  BY <1>7 DEF Script
<1>10. Runs([fl EXCEPT !.todo = t])
  BY <1>2, <1>3, <1>8, <1>9 DEF Runs
<1> QED BY <1>1, <1>2, <1>7, <1>8, <1>9, <1>10 DEF Leads, t

\* What follows the look at a v2 permission is in order.
LEMMA JudgeV2Leads ==
    ASSUME version \in {1, 2}, NEW fl \in Flow, fl.todo # <<>>, Runs(fl),
           fl.todo[1].op = "judgeV2"
    PROVE  Leads(fl, AfterPermissionV2(fl))
<1> DEFINE t == AfterPermissionV2(fl)
           stop == <<Say("idle_cancelled")>>
           illegal == <<Say("running")>> \o <<Segment("illegal", "none", "none")>>
           allowed == <<Say("running")>> \o
                         <<Say("terminal_update"), Say("terminal_output_chunk"),
                           Ask("elicitation/create"), SayNew("agent_message", "agent"),
                           Say("idle_end_turn")>>
<1>1. Has(fl.todo, Looking) /\ Has(fl.todo, {"judgeV2", "loop", "sleep"})
  BY Alone DEF Runs, Flow, Looking
<1>2. version = 2
  BY <1>1 DEF Runs
<1>3. [fl EXCEPT !.todo = t].todo = t
  BY DEF Flow
<1>4. \/ t = stop /\ (fl.cancelled \/ Excused(fl))
      \/ t = illegal /\ ~fl.cancelled /\ ~NoIllegalCall
      \/ t = allowed /\ ~fl.cancelled
  BY DEF AfterPermissionV2, Excused, NoIllegalCall
<1>5. Script(stop, {"say"}, EndTurns) /\ EndsIdle(stop)
  <2> DEFINE seg == Say("idle_cancelled")
  <2>1. seg \in Segments /\ seg.op \in Plain1 \ {"ask", "sleep"} /\ seg.op = "say"
        /\ seg.what = "idle_cancelled"
    BY DEF Say, Segment, Segments, Plain1, Stops
  <2> HIDE DEF seg
  <2>2. Script(<<seg>>, {"say"}, (EndTurns \cup Cancels) \ {"idle_cancelled"})
    BY <2>1, OneStep
  <2>3. EndTurns \subseteq (EndTurns \cup Cancels) \ {"idle_cancelled"}
    BY DEF EndTurns
  <2>4. Script(<<seg>>, {"say"}, EndTurns)
    BY <2>2, <2>3, Looser
  <2>5. EndsIdle(<<seg>>)
    BY <2>1 DEF EndsIdle, Idles
  <2> QED BY <2>4, <2>5 DEF seg
<1>6. Script(illegal, {"say", "ask", "illegal"}, Cancels)
  BY IllegalV2Is
<1>7. Script(allowed, {"say", "ask"}, Cancels) /\ EndsIdle(allowed)
  BY AllowedV2Is
<1> HIDE DEF t, stop, illegal, allowed
<1>8. /\ Script(t, {"say", "ask", "illegal"}, {})
      /\ Tells(t, Cancels) => fl.cancelled \/ Excused(fl)
      /\ fl.cancelled => ~Tells(t, EndTurns)
      /\ NoIllegalCall => EndsIdle(t)
  <2>1. CASE t = stop /\ (fl.cancelled \/ Excused(fl))
    <3>1. ~Tells(t, EndTurns)
      BY <1>5, <2>1, Lacks
    <3>2. Script(t, {"say", "ask", "illegal"}, {})
      BY <1>5, <2>1, Looser
    <3> QED BY <3>1, <3>2, <2>1, <1>5
  <2>2. CASE t = illegal /\ ~fl.cancelled /\ ~NoIllegalCall
    <3>1. ~Tells(t, Cancels)
      BY <1>6, <2>2, Lacks
    <3>2. Script(t, {"say", "ask", "illegal"}, {})
      BY <1>6, <2>2, Looser
    <3> QED BY <3>1, <3>2, <2>2
  <2>3. CASE t = allowed /\ ~fl.cancelled
    <3>1. ~Tells(t, Cancels)
      BY <1>7, <2>3, Lacks
    <3>2. Script(t, {"say", "ask", "illegal"}, {})
      BY <1>7, <2>3, Looser
    <3> QED BY <3>1, <3>2, <2>3, <1>7
  <2> QED BY <1>4, <2>1, <2>2, <2>3
<1>9. /\ ~Has(t, {"entries", "replay"}) /\ ~Has(t, {"start"})
      /\ ~Has(t, Owing) /\ ~Has(t, Looking)
  BY <1>8, Lacks DEF Looking, Owing
<1>10. Code(t) /\ t \in Seq(Segments) /\ t # <<>> /\ t[1].op \in Plain1
  BY <1>8 DEF Script
<1>11. Runs([fl EXCEPT !.todo = t])
  BY <1>2, <1>3, <1>8, <1>9, <1>10 DEF Runs
<1> QED BY <1>1, <1>2, <1>8, <1>9, <1>10, <1>11 DEF Leads, t

\* Each round of the v2 loop is in order: a cancelled turn leaves it as cancelled.
LEMMA LoopLeads ==
    ASSUME version \in {1, 2}, NEW fl \in Flow, fl.todo # <<>>, Runs(fl),
           fl.todo[1].op = "loop"
    PROVE  Leads(fl, CancelLoop(fl))
<1> DEFINE t == CancelLoop(fl)
           again == <<Segment("sleep", "none", "none"), Goto("loop")>>
           stop(word) == <<Say(word)>>
<1>1. Has(fl.todo, Looking) /\ Has(fl.todo, {"judgeV2", "loop", "sleep"})
      /\ Has(fl.todo, Looking \cup {"start"})
  BY Alone DEF Runs, Flow, Looking
<1>2. version = 2
  BY <1>1 DEF Runs
<1>3. [fl EXCEPT !.todo = t].todo = t
  BY DEF Flow
<1>4. \/ t = again /\ ~fl.cancelled
      \/ t = stop("idle_cancelled") /\ fl.cancelled
      \/ t = stop("idle_end_turn") /\ ~fl.cancelled
  <2>1. CASE fl.cancelled
    BY <2>1 DEF CancelLoop
  <2>2. CASE ~fl.cancelled
    BY <2>2 DEF CancelLoop
  <2> QED BY <2>1, <2>2
<1>5. ASSUME NEW word \in Idles
      PROVE  /\ Script(stop(word), {"say"}, (EndTurns \cup Cancels) \ {word})
             /\ EndsIdle(stop(word))
  <2> DEFINE seg == Say(word)
  <2>1. seg \in Segments /\ seg.op \in Plain1 \ {"ask", "sleep"} /\ seg.op = "say" /\ seg.what = word
    BY DEF Say, Segment, Segments, Plain1, Stops, Idles
  <2> HIDE DEF seg
  <2>2. Script(<<seg>>, {"say"}, (EndTurns \cup Cancels) \ {word})
    BY <2>1, OneStep
  <2>3. EndsIdle(<<seg>>)
    BY <2>1 DEF EndsIdle
  <2> QED BY <2>2, <2>3 DEF seg
<1> HIDE DEF t, again, stop
<1>6. /\ Script(t, {"say", "sleep", "loop"}, {})
      /\ Tells(t, Cancels) => fl.cancelled
      /\ fl.cancelled => ~Tells(t, EndTurns)
      /\ EndsIdle(t)
  <2>1. CASE t = again /\ ~fl.cancelled
    <3>1. Script(t, {"sleep", "loop"}, Stops) /\ EndsIdle(t)
      BY <2>1, SleepIs DEF again
    <3>2. ~Tells(t, Cancels)
      BY <3>1, Lacks DEF Cancels, Stops
    <3>3. Script(t, {"say", "sleep", "loop"}, {})
      BY <3>1, Looser
    <3> QED BY <3>1, <3>2, <3>3, <2>1
  <2>2. CASE t = stop("idle_cancelled") /\ fl.cancelled
    <3>1. "idle_cancelled" \in Idles /\ EndTurns \subseteq (EndTurns \cup Cancels) \ {"idle_cancelled"}
      BY DEF Idles, EndTurns
    <3>2. Script(t, {"say"}, (EndTurns \cup Cancels) \ {"idle_cancelled"}) /\ EndsIdle(t)
      BY <3>1, <2>2, <1>5
    <3>3. ~Tells(t, EndTurns)
      BY <3>1, <3>2, Lacks
    <3>4. Script(t, {"say", "sleep", "loop"}, {})
      BY <3>2, Looser
    <3> QED BY <3>2, <3>3, <3>4, <2>2
  <2>3. CASE t = stop("idle_end_turn") /\ ~fl.cancelled
    <3>1. "idle_end_turn" \in Idles /\ Cancels \subseteq (EndTurns \cup Cancels) \ {"idle_end_turn"}
      BY DEF Idles, Cancels
    <3>2. Script(t, {"say"}, (EndTurns \cup Cancels) \ {"idle_end_turn"}) /\ EndsIdle(t)
      BY <3>1, <2>3, <1>5
    <3>3. ~Tells(t, Cancels)
      BY <3>1, <3>2, Lacks
    <3>4. Script(t, {"say", "sleep", "loop"}, {})
      BY <3>2, Looser
    <3> QED BY <3>2, <3>3, <3>4, <2>3
  <2> QED BY <1>4, <2>1, <2>2, <2>3
<1>7. /\ ~Has(t, {"entries", "replay"}) /\ ~Has(t, {"start"}) /\ ~Has(t, {"ask"})
      /\ ~Has(t, Owing)
  BY <1>6, Lacks DEF Owing
<1>8. Code(t) /\ t \in Seq(Segments) /\ t # <<>> /\ t[1].op \in Plain1
  BY <1>6 DEF Script
<1>9. Runs([fl EXCEPT !.todo = t])
  BY <1>2, <1>3, <1>6, <1>7, <1>8 DEF Runs
<1> QED BY <1>1, <1>2, <1>6, <1>7, <1>8, <1>9 DEF Leads, t

\* A prompt's code that is run is what it leads to: itself, or what replaces
\* it.  Its scenario changes at the start only.
LEMMA BranchIs ==
    ASSUME version \in {1, 2}, NEW fl \in Flow, fl.todo # <<>>, Runs(fl),
           sessions[fl.session].scenario \in NamesOf(version),
           fl.scenario \in NamesOf(version)
    PROVE  \E t : \E sc \in NamesOf(version) :
              /\ Branch(fl) = [fl EXCEPT !.scenario = sc, !.todo = t]
              /\ Leads(fl, t)
              /\ ~Has(fl.todo, {"start"}) => sc = fl.scenario
              /\ ~Has(fl.todo, Branching) => t = fl.todo
<1> DEFINE op == fl.todo[1].op
           Goal(t, sc) == /\ Branch(fl) = [fl EXCEPT !.scenario = sc, !.todo = t]
                          /\ Leads(fl, t)
                          /\ ~Has(fl.todo, {"start"}) => sc = fl.scenario
                          /\ ~Has(fl.todo, Branching) => t = fl.todo
<1> SUFFICES \E t : \E sc \in NamesOf(version) : Goal(t, sc)
  OBVIOUS
<1>1. /\ fl.todo \in Seq(Segments) /\ Code(fl.todo)
      /\ \A t : [fl EXCEPT !.scenario = fl.scenario, !.todo = t] = [fl EXCEPT !.todo = t]
  BY DEF Flow, Runs
<1>2. /\ op \in Branching => Len(fl.todo) = 1 /\ DOMAIN fl.todo = {1} /\ Has(fl.todo, Branching)
      /\ 1 \in DOMAIN fl.todo
      /\ op \in Plain1 \cup Branching
      /\ op = "start" => Has(fl.todo, {"start"})
      /\ op = "entries" => Has(fl.todo, {"entries", "replay"})
  <2>1. /\ op \in Branching => Len(fl.todo) = 1 /\ DOMAIN fl.todo = {1}
        /\ \A ops : op \in ops => Has(fl.todo, ops)
        /\ 1 \in DOMAIN fl.todo /\ op \in Plain1 \cup Branching
    BY <1>1, Alone
  <2>2. /\ op \in Branching => Has(fl.todo, Branching)
        /\ op \in {"start"} => Has(fl.todo, {"start"})
        /\ op \in {"entries", "replay"} => Has(fl.todo, {"entries", "replay"})
    BY <2>1
  <2> QED BY <2>1, <2>2
<1> HIDE DEF Goal
<1>3. CASE op = "start"
  <2> DEFINE sc == sessions[fl.session].scenario
  <2>1. Branch(fl) = [fl EXCEPT !.scenario = sc, !.todo = PromptScript(sc)]
    BY <1>3 DEF Branch, StartOf
  <2>2. Leads(fl, PromptScript(sc))
    BY <1>3, StartLeads
  <2>3. op \in Branching
    BY <1>3 DEF Branching
  <2> HIDE DEF sc
  <2>4. Goal(PromptScript(sc), sc)
    BY <2>1, <2>2, <2>3, <1>2, <1>3 DEF Goal
  <2>5. sc \in NamesOf(version)
    BY DEF sc
  <2> QED BY <2>4, <2>5
<1>4. CASE op = "judgeV1"
  <2>1. Branch(fl) = [fl EXCEPT !.todo = AfterPermissionV1(fl)]
    BY <1>4 DEF Branch
  <2>2. Leads(fl, AfterPermissionV1(fl))
    BY <1>4, JudgeV1Leads
  <2>3. op \in Branching
    BY <1>4 DEF Branching, Looking
  <2>4. Goal(AfterPermissionV1(fl), fl.scenario)
    BY <2>1, <2>2, <2>3, <1>1, <1>2 DEF Goal
  <2> QED BY <2>4
<1>5. CASE op = "judgeV2"
  <2>1. Branch(fl) = [fl EXCEPT !.todo = AfterPermissionV2(fl)]
    BY <1>5 DEF Branch
  <2>2. Leads(fl, AfterPermissionV2(fl))
    BY <1>5, JudgeV2Leads
  <2>3. op \in Branching
    BY <1>5 DEF Branching, Looking
  <2>4. Goal(AfterPermissionV2(fl), fl.scenario)
    BY <2>1, <2>2, <2>3, <1>1, <1>2 DEF Goal
  <2> QED BY <2>4
<1>6. CASE op = "loop"
  <2>1. Branch(fl) = [fl EXCEPT !.todo = CancelLoop(fl)]
    BY <1>6 DEF Branch
  <2>2. Leads(fl, CancelLoop(fl))
    BY <1>6, LoopLeads
  <2>3. op \in Branching
    BY <1>6 DEF Branching, Looking
  <2>4. Goal(CancelLoop(fl), fl.scenario)
    BY <2>1, <2>2, <2>3, <1>1, <1>2 DEF Goal
  <2> QED BY <2>4
<1>7. CASE op = "entries"
  BY <1>2, <1>7 DEF Runs
<1>8. CASE op \in Plain1
  <2>1. Branch(fl) = fl
    BY <1>8 DEF Branch, Plain1
  <2>2. [fl EXCEPT !.todo = fl.todo] = fl
    BY DEF Flow
  <2>3. op \notin Branching
    BY <1>8 DEF Plain1, Branching, Looking
  <2>4. ~Has(fl.todo, {"start"})
    <3>1. SUFFICES ASSUME Has(fl.todo, {"start"}) PROVE FALSE
      OBVIOUS
    <3>2. Len(fl.todo) = 1
      BY <3>1, <1>1 DEF Code
    <3>3. PICK i \in DOMAIN fl.todo : fl.todo[i].op = "start"
      BY <3>1 DEF Has
    <3>4. DOMAIN fl.todo = 1 .. 1
      BY <3>2, <1>1, LenProperties
    <3> QED BY <3>3, <3>4, <1>8 DEF Plain1
  <2>5. Has(fl.todo, Looking) => Has(fl.todo, Looking \cup {"start"})
    BY DEF Has
  <2>6. ~Has(fl.todo, {"ask", "start"}) => ~Has(fl.todo, {"ask"})
    BY DEF Has
  <2>7. Leads(fl, fl.todo)
    BY <2>2, <2>4, <2>5, <2>6, <1>1, <1>8 DEF Leads
  <2>8. Goal(fl.todo, fl.scenario)
    BY <2>1, <2>2, <2>7, <1>1 DEF Goal
  <2> QED BY <2>8
<1> QED BY <1>2, <1>3, <1>4, <1>5, <1>6, <1>7, <1>8 DEF Branching, Looking

-----------------------------------------------------------------------------
(* What the client's steps do.                                             *)

\* An answer to request id, and nothing else.
Answered(id) == \E r \in {"ok", "not_found", "invalid_request", "invalid_params",
                          "method_not_found"} : Emit(<<Response(id, r)>>)

\* initialize agrees on a version and answers.
LEMMA InitializeStep ==
    ASSUME SendInitialize
    PROVE  /\ Count("initialize") /\ Plain /\ version' \in {1, 2}
           /\ out' = <<Response(NextId, "ok")>>
           /\ UNCHANGED <<lifeVars, flowVars, sessions, promptContexts, pendingSlowCalls>>
<1>1. PICK v \in Versions : Count("initialize") /\ Call("initialize", 0, v) /\ Plain
  BY DEF SendInitialize
<1>2. HandleRequest(Line("request", "initialize", NextId, 0, v, TRUE))
  BY <1>1 DEF Call, Receive, Line
<1>3. HandleInitialize(Line("request", "initialize", NextId, 0, v, TRUE))
  BY <1>2 DEF HandleRequest, Extensions, Line
<1> QED BY <1>1, <1>3, ClientAssumption DEF HandleInitialize, Line

\* session/new is answered, with a new session if there is a version.
LEMMA NewStep ==
    ASSUME SendNew
    PROVE  /\ Count("new") /\ Plain
           /\ \/ Answered(NextId)
              \/ /\ version # 0 /\ Len(sessions) < MaxSessions
                 /\ sessions' = Append(sessions, [history |-> <<>>, scenario |-> "none"])
                 /\ out' = SessionNewResult(NextId)
                 /\ UNCHANGED <<lifeVars, flowVars, version, promptContexts, pendingSlowCalls>>
<1> DEFINE l == Line("request", "session/new", NextId, 0, "none", TRUE)
<1>1. Count("new") /\ Receive(l) /\ Plain
  BY DEF SendNew, Call
<1>2. /\ l.type = "request" /\ l.method = "session/new" /\ l.valid = TRUE /\ l.id = NextId
  BY DEF Line
<1> HIDE DEF l
<1>3. HandleRequest(l)
  BY <1>1, <1>2 DEF Receive
<1>4. (version # 0 /\ HandleSessionNew(l)) \/ Answered(NextId)
  BY <1>2, <1>3 DEF HandleRequest, Extensions, KnownMethods, Answer, Answered
<1> QED BY <1>1, <1>2, <1>4 DEF HandleSessionNew

\* set_scenario names the scenario of a known session, or is refused.
LEMMA ScenarioStep ==
    ASSUME SendScenario
    PROVE  /\ Count("scenario") /\ Plain /\ version # 0
           /\ \/ Answered(NextId)
              \/ \E s \in SomeSession, c \in Scenarios[version] :
                    /\ Known(s)
                    /\ sessions' = [sessions EXCEPT ![s].scenario = c]
                    /\ out' = <<Response(NextId, "ok")>>
                    /\ UNCHANGED <<lifeVars, flowVars, version, promptContexts, pendingSlowCalls>>
<1>1. PICK s \in SomeSession, c \in IF version = 0 THEN {} ELSE Scenarios[version] :
         Count("scenario") /\ Call("_conformance/set_scenario", s, c) /\ Plain
  BY DEF SendScenario
<1> DEFINE l == Line("request", "_conformance/set_scenario", NextId, s, c, TRUE)
<1>2. /\ l.type = "request" /\ l.method = "_conformance/set_scenario" /\ l.id = NextId
      /\ l.session = s /\ l.arg = c
  BY DEF Line
<1>3. Receive(l)
  BY <1>1 DEF Call
<1> HIDE DEF l
<1>4. HandleExtension(l)
  BY <1>2, <1>3 DEF Receive, HandleRequest, Extensions
<1>5. version # 0 /\ c \in Scenarios[version]
  BY <1>1
<1>6. CASE Known(s)
  BY <1>1, <1>2, <1>4, <1>5, <1>6 DEF HandleExtension
<1>7. CASE ~Known(s)
  <2>1. Answer(l, "not_found")
    BY <1>2, <1>4, <1>7 DEF HandleExtension
  <2> QED BY <1>1, <1>2, <1>5, <2>1 DEF Answer, Answered
<1> QED BY <1>6, <1>7

\* The flow of a new prompt, and of a new replay.
PromptFlow(s) == NewFlow("prompt", NextId, s, <<Goto("start")>>)
ReplayFlow(s) == NewFlow("replay", NextId, s, <<Goto("entries")>>)

\* session/prompt starts a flow, in v2 after its answer, or is refused.
LEMMA PromptStep ==
    ASSUME SendPrompt
    PROVE  /\ Count("prompt")
           /\ \/ Answered(NextId) /\ Plain
              \/ \E s \in SomeSession :
                    /\ Known(s) /\ version # 0
                    /\ promptContexts' = [promptContexts EXCEPT ![s] = Len(flows) + 1]
                    /\ UNCHANGED <<lifeVars, version, pendingSlowCalls>>
                    /\ \/ /\ version = 1 /\ RunNew(PromptFlow(s))
                          /\ IF flows' # flows THEN FlowSays(Len(flows) + 1, s) ELSE Plain
                       \/ /\ version # 1
                          /\ flows' = Append(flows, PromptFlow(s))
                          /\ out' = <<Response(NextId, "ok")>>
                          /\ UNCHANGED <<sessions, pendingClientCalls, nextAgentRequestId>>
                          /\ IF flows' # flows THEN FlowSays(Len(flows) + 1, s) ELSE Plain
<1>1. PICK s \in SomeSession :
         /\ Count("prompt")
         /\ Call("session/prompt", s, "none")
         /\ IF flows' # flows THEN FlowSays(Len(flows) + 1, s) ELSE Plain
  BY DEF SendPrompt
<1> DEFINE l == Line("request", "session/prompt", NextId, s, "none", TRUE)
<1>2. /\ l.type = "request" /\ l.method = "session/prompt" /\ l.id = NextId
      /\ l.session = s /\ l.valid = TRUE
  BY DEF Line
<1>3. Receive(l)
  BY <1>1 DEF Call
<1> HIDE DEF l
<1>4. HandleRequest(l)
  BY <1>2, <1>3 DEF Receive
<1>5. (version # 0 /\ HandlePrompt(l)) \/ Answered(NextId)
  BY <1>2, <1>4 DEF HandleRequest, Extensions, KnownMethods, Answer, Answered
<1>6. CASE Answered(NextId)
  <2>1. flows' = flows
    BY <1>6 DEF Answered, Emit, flowVars
  <2> QED BY <1>1, <1>6, <2>1
<1>7. CASE version # 0 /\ HandlePrompt(l) /\ ~Known(s)
  <2>1. Answered(NextId)
    BY <1>2, <1>7 DEF HandlePrompt, Answer, Answered
  <2> QED BY <1>6, <2>1
<1>8. CASE version # 0 /\ HandlePrompt(l) /\ Known(s)
  <2>1. /\ promptContexts' = [promptContexts EXCEPT ![s] = Len(flows) + 1]
        /\ IF version = 1
           THEN RunNew(PromptFlow(s))
           ELSE /\ flows' = Append(flows, PromptFlow(s))
                /\ out' = <<Response(NextId, "ok")>>
                /\ UNCHANGED <<sessions, pendingClientCalls, nextAgentRequestId>>
        /\ UNCHANGED <<lifeVars, version, pendingSlowCalls>>
    BY <1>2, <1>8 DEF HandlePrompt, PromptFlow
  <2> QED BY <1>1, <1>8, <2>1
<1> QED BY <1>5, <1>6, <1>7, <1>8

\* session/load and session/resume start a replay or are answered.
LEMMA ReplayStep ==
    ASSUME SendReplay
    PROVE  /\ Count("replay") /\ Plain
           /\ \/ Answered(NextId)
              \/ \E s \in SomeSession :
                    /\ Known(s) /\ version # 0
                    /\ RunNew(ReplayFlow(s))
                    /\ UNCHANGED <<lifeVars, version, promptContexts, pendingSlowCalls>>
<1>1. PICK s \in SomeSession, arg \in {"start", "none"},
           method \in {"session/load", "session/resume"} :
         Count("replay") /\ Call(method, s, arg) /\ Plain
  BY DEF SendReplay
<1> DEFINE l == Line("request", method, NextId, s, arg, TRUE)
<1>2. /\ l.type = "request" /\ l.method = method /\ l.id = NextId
      /\ l.session = s /\ l.valid = TRUE /\ l.arg = arg
  BY DEF Line
<1>3. Receive(l)
  BY <1>1 DEF Call
<1> HIDE DEF l
<1>4. HandleRequest(l)
  BY <1>2, <1>3 DEF Receive
<1>5. \/ version # 0 /\ (HandleSessionLoad(l) \/ HandleSessionResume(l))
      \/ Answered(NextId)
  BY <1>2, <1>4 DEF HandleRequest, Extensions, KnownMethods, Answer, Answered
<1>6. \/ version # 0 /\ Known(s) /\ Replay(l)
      \/ Answered(NextId)
  BY <1>2, <1>5 DEF HandleSessionLoad, HandleSessionResume, Answer, Answered
<1>7. Replay(l) => /\ RunNew(ReplayFlow(s))
                   /\ UNCHANGED <<lifeVars, version, promptContexts, pendingSlowCalls>>
  BY <1>2 DEF Replay, ReplayFlow
<1> QED BY <1>1, <1>6, <1>7

\* A slow call is noted.
LEMMA SlowStep ==
    ASSUME SendSlow
    PROVE  /\ Count("slow") /\ Plain
           /\ pendingSlowCalls' = pendingSlowCalls \cup {NextId}
           /\ out' = <<>>
           /\ UNCHANGED <<lifeVars, flowVars, version, sessions, promptContexts>>
<1> DEFINE l == Line("request", "_conformance/slow", NextId, 0, "none", TRUE)
<1>1. Count("slow") /\ Receive(l) /\ Plain
  BY DEF SendSlow, Call
<1>2. /\ l.type = "request" /\ l.method = "_conformance/slow" /\ l.id = NextId
  BY DEF Line
<1> HIDE DEF l
<1>3. HandleExtension(l)
  BY <1>1, <1>2 DEF Receive, HandleRequest, Extensions
<1> QED BY <1>1, <1>2, <1>3 DEF HandleExtension

\* Other requests are answered at once.
LEMMA OtherStep ==
    ASSUME SendOther
    PROVE  Count("other") /\ Plain /\ Answered(NextId)
<1>1. PICK method \in {"session/list", "session/unknown", "_unknown", "_conformance/echo"},
           valid \in BOOLEAN :
         /\ Count("other")
         /\ Receive(Line("request", method, NextId, 0, "none", valid))
         /\ Plain
  BY DEF SendOther
<1> DEFINE l == Line("request", method, NextId, 0, "none", valid)
<1>2. /\ l.type = "request" /\ l.method = method /\ l.id = NextId
  BY DEF Line
<1> HIDE DEF l
<1>3. HandleRequest(l)
  BY <1>1, <1>2 DEF Receive, l
<1>4. CASE method \in {"_unknown", "_conformance/echo"}
  <2>1. HandleExtension(l)
    BY <1>2, <1>3, <1>4 DEF HandleRequest, Extensions
  <2>2. Answer(l, "ok") \/ Answer(l, "method_not_found")
    BY <1>2, <1>4, <2>1 DEF HandleExtension
  <2> QED BY <1>1, <1>2, <2>2 DEF Answer, Answered
<1>5. CASE method = "session/unknown"
  <2>1. Answer(l, "invalid_request") \/ Answer(l, "method_not_found")
    BY <1>2, <1>3, <1>5 DEF HandleRequest, Extensions, KnownMethods
  <2> QED BY <1>1, <1>2, <2>1 DEF Answer, Answered
<1>6. CASE method = "session/list"
  <2>1. Answer(l, "invalid_request") \/ Answer(l, "ok") \/ Answer(l, "invalid_params")
    BY <1>2, <1>3, <1>6 DEF HandleRequest, Extensions, KnownMethods
  <2> QED BY <1>1, <1>2, <2>1 DEF Answer, Answered
<1> QED BY <1>4, <1>5, <1>6

\* Garbage is answered without an id.
LEMMA GarbageStep ==
    ASSUME SendGarbage
    PROVE  Count("garbage") /\ Plain /\ Emit(<<Response(0, "parse_error")>>)
BY DEF SendGarbage, Receive, Line

\* $/cancel_request reaches the slow calls.
LEMMA CancelRequestStep ==
    ASSUME SendCancelRequest
    PROVE  /\ Count("cancelRequest") /\ Plain
           /\ \E id \in 1 .. NextId : CancelRequest(id)
<1>1. PICK id \in 1 .. NextId :
         Count("cancelRequest") /\ Notify("$/cancel_request", 0, id) /\ Plain
  BY DEF SendCancelRequest
<1> DEFINE l == Line("notification", "$/cancel_request", 0, 0, id, TRUE)
<1>2. /\ l.type = "notification" /\ l.method = "$/cancel_request" /\ l.arg = id /\ l.valid = TRUE
  BY DEF Line
<1>3. Receive(l)
  BY <1>1 DEF Notify
<1> HIDE DEF l
<1>4. HandleNotification(l)
  BY <1>2, <1>3 DEF Receive
<1>5. CancelRequest(id)
  BY <1>2, <1>4 DEF HandleNotification
<1> QED BY <1>1, <1>5

\* session/close forgets the context of the latest prompt, or is refused.
LEMMA CloseStep ==
    ASSUME SendClose
    PROVE  /\ Count("close") /\ CountAnswers
           /\ UNCHANGED <<ended, lastState, cancelAsked, cancelHeard, denied>>
           /\ \/ Answered(NextId)
              \/ \E s \in SomeSession :
                    /\ promptContexts' = [t \in 1 .. MaxSessions |->
                                            IF t = s THEN 0 ELSE promptContexts[t]]
                    /\ out' = <<Response(NextId, "ok")>>
                    /\ UNCHANGED <<lifeVars, flowVars, version, sessions, pendingSlowCalls>>
<1>1. PICK s \in SomeSession :
         /\ Count("close") /\ Call("session/close", s, "none") /\ CountAnswers
         /\ UNCHANGED <<ended, lastState, cancelAsked, cancelHeard, denied>>
  BY DEF SendClose
<1> DEFINE l == Line("request", "session/close", NextId, s, "none", TRUE)
<1>2. /\ l.type = "request" /\ l.method = "session/close" /\ l.id = NextId
      /\ l.session = s /\ l.valid = TRUE
  BY DEF Line
<1>3. Receive(l)
  BY <1>1 DEF Call
<1> HIDE DEF l
<1>4. HandleRequest(l)
  BY <1>2, <1>3 DEF Receive
<1>5. HandleSessionClose(l) \/ Answered(NextId)
  BY <1>2, <1>4 DEF HandleRequest, Extensions, KnownMethods, Answer, Answered
<1> QED BY <1>1, <1>2, <1>5 DEF HandleSessionClose

\* session/cancel reaches the latest prompt of its session, once there is a version.
LEMMA CancelStep ==
    ASSUME SendCancel
    PROVE  \E s \in SomeSession :
              /\ Count("cancel") /\ CountAnswers
              /\ cancelAsked' = cancelAsked \cup Running(s)
              /\ cancelHeard' = cancelHeard \cup
                    {f \in Running(s) : WillLook(f) /\ f = promptContexts[s]}
              /\ UNCHANGED <<ended, lastState, closeAsked, denied>>
              /\ (version # 0 /\ SessionCancel(s)) \/ (version = 0 /\ Emit(<<>>))
<1>1. PICK s \in SomeSession :
         /\ Count("cancel") /\ Notify("session/cancel", s, "none") /\ CountAnswers
         /\ cancelAsked' = cancelAsked \cup Running(s)
         /\ cancelHeard' = cancelHeard \cup
               {f \in Running(s) : WillLook(f) /\ f = promptContexts[s]}
         /\ UNCHANGED <<ended, lastState, closeAsked, denied>>
  BY DEF SendCancel
<1> DEFINE l == Line("notification", "session/cancel", 0, s, "none", TRUE)
<1>2. /\ l.type = "notification" /\ l.method = "session/cancel" /\ l.session = s /\ l.valid = TRUE
  BY DEF Line
<1>3. Receive(l)
  BY <1>1 DEF Notify
<1> HIDE DEF l
<1>4. HandleNotification(l)
  BY <1>2, <1>3 DEF Receive
<1>5. (version # 0 /\ SessionCancel(s)) \/ (version = 0 /\ Emit(<<>>))
  BY <1>2, <1>4 DEF HandleNotification
<1> QED BY <1>1, <1>5

\* The calls that the client's answer settles.
OwnersOf(call) == {p[2] : p \in {q \in pendingClientCalls : q[1] = call}}

\* An answer takes its call from the table and wakes the flows behind it, or makes
\* them throw.
LEMMA AnswerStep ==
    ASSUME SendAnswer
    PROVE  \E call \in 1 .. nextAgentRequestId - 1, a \in PermissionAnswers \cup OtherAnswers :
              /\ UNCHANGED <<workload, done, ended, lastState, cancelAsked, cancelHeard>>
              /\ CountAnswers /\ out' = <<>>
              /\ UNCHANGED <<startVars, agentClosed, version, sessions, promptContexts,
                             pendingSlowCalls, nextAgentRequestId>>
              /\ denied' = IF (\E f \in OwnersOf(call) : WillLook(f)) /\ a = "reject"
                           THEN denied \cup OwnersOf(call) ELSE denied
              /\ pendingClientCalls' = {p \in pendingClientCalls : p[1] # call}
              /\ \/ /\ a = "invalid"
                    /\ flows' = [f \in DOMAIN flows |->
                                   IF f \in OwnersOf(call)
                                   THEN [flows[f] EXCEPT !.status = "thrown"] ELSE flows[f]]
                 \/ /\ a # "invalid"
                    /\ flows' = [f \in DOMAIN flows |->
                                   IF f \in OwnersOf(call)
                                   THEN [flows[f] EXCEPT !.status = "ready", !.answer = a]
                                   ELSE flows[f]]
<1>1. PICK call \in 1 .. nextAgentRequestId - 1 :
         LET F == {p[2] : p \in {q \in pendingClientCalls : q[1] = call}}
             permission == \E f \in F : WillLook(f) IN
         \E a \in IF permission THEN PermissionAnswers ELSE OtherAnswers :
             /\ Receive(Line("response", "none", call, 0, a, a # "invalid"))
             /\ denied' = IF permission /\ a = "reject" THEN denied \cup F ELSE denied
             /\ CountAnswers
             /\ UNCHANGED <<workload, done, ended, lastState, cancelAsked, cancelHeard, closeAsked>>
  BY DEF SendAnswer
<1>2. PICK a \in PermissionAnswers \cup OtherAnswers :
         /\ Receive(Line("response", "none", call, 0, a, a # "invalid"))
         /\ denied' = IF (\E f \in OwnersOf(call) : WillLook(f)) /\ a = "reject"
                      THEN denied \cup OwnersOf(call) ELSE denied
         /\ CountAnswers
         /\ UNCHANGED <<workload, done, ended, lastState, cancelAsked, cancelHeard, closeAsked>>
  BY <1>1 DEF OwnersOf
<1> DEFINE l == Line("response", "none", call, 0, a, a # "invalid")
<1>3. l.type = "response" /\ l.id = call /\ l.arg = a /\ (l.valid <=> a # "invalid")
  BY DEF Line
<1>4. Receive(l)
  BY <1>2
<1> HIDE DEF l
<1>5. HandleResponse(l)
  BY <1>3, <1>4 DEF Receive
<1>6. /\ out' = <<>>
      /\ UNCHANGED <<startVars, agentClosed, version, sessions, promptContexts,
                     pendingSlowCalls, nextAgentRequestId>>
      /\ pendingClientCalls' = {p \in pendingClientCalls : p[1] # call}
  BY <1>3, <1>5 DEF HandleResponse
<1>7. CASE a = "invalid"
  <2>1. Throw(OwnersOf(call))
    BY <1>3, <1>5, <1>7 DEF HandleResponse, OwnersOf
  <2> QED BY <1>2, <1>6, <1>7, <2>1 DEF Throw
<1>8. CASE a # "invalid"
  <2>1. flows' = [f \in DOMAIN flows |->
                    IF f \in OwnersOf(call)
                    THEN [flows[f] EXCEPT !.status = "ready", !.answer = a]
                    ELSE flows[f]]
    BY <1>3, <1>5, <1>8 DEF HandleResponse, OwnersOf
  <2> QED BY <1>2, <1>6, <1>8, <2>1
<1> QED BY <1>7, <1>8

-----------------------------------------------------------------------------
(* The invariant.                                                          *)

TypeInv ==
    /\ version \in {0, 1, 2}
    /\ sessions \in Seq(Session) /\ Len(sessions) <= MaxSessions
    /\ promptContexts \in [SessionIds -> Nat]
    /\ flows \in Seq(Flow)
    /\ pendingClientCalls \subseteq Nat \X Nat
    /\ pendingSlowCalls \subseteq Nat
    /\ nextAgentRequestId \in Nat
    /\ workload \in Workloads
    /\ done \in [Kinds -> Nat]
    /\ answers \in [1 .. MaxId -> Nat]
    /\ ended \in [Flows -> Stops \cup {"not"}]
    /\ lastState \in [SessionIds -> States \cup {"none"}]
    /\ cancelAsked \subseteq DOMAIN flows
    /\ cancelHeard \subseteq DOMAIN flows
    /\ denied \subseteq DOMAIN flows

\* What the client did, it was to do; there is nothing before it initializes;
\* a flow is a prompt or a replay of its.
CountInv ==
    /\ \A k \in Kinds : done[k] <= workload[k]
    /\ version # 0 => done.initialize >= 1
    /\ version = 0 => /\ sessions = <<>> /\ flows = <<>>
                      /\ \A s \in SessionIds : lastState[s] = "none"
    /\ Len(flows) <= done.prompt + done.replay

SessionInv ==
    /\ \A s \in DOMAIN sessions : sessions[s].scenario \in NamesOf(version)
    /\ \A s \in SessionIds :
          promptContexts[s] # 0 =>
             /\ promptContexts[s] \in DOMAIN flows
             /\ flows[promptContexts[s]].kind = "prompt"
             /\ flows[promptContexts[s]].session = s

\* A flow that is not over has code to run.  A v1 prompt has started; one that
\* waits for the permission asks for nothing else before it looks.  A replay
\* never waits, and has shown no more than there is.
FlowOK(fl) ==
    /\ fl.session \in DOMAIN sessions
    /\ fl.scenario \in NamesOf(version)
    /\ fl.status \notin Over => fl.todo # <<>>
    /\ fl.kind = "prompt" =>
          /\ Runs(fl)
          /\ version = 1 => ~Has(fl.todo, {"start"})
          /\ fl.status = "asking" /\ Has(fl.todo, Looking) => ~Has(fl.todo, {"ask"})
    /\ fl.kind = "replay" =>
          /\ fl.status \in {"ready", "done"}
          /\ fl.todo \in {<<>>, <<Goto("entries")>>}
          /\ fl.count <= Len(sessions[fl.session].history)
FlowInv == \A f \in DOMAIN flows : FlowOK(flows[f])

CallInv ==
    /\ CallsHaveOwners
    /\ \A p \in pendingClientCalls : p[1] < nextAgentRequestId

\* A request is behind one flow or one slow call.
RequestInv ==
    /\ \A f \in DOMAIN flows :
          flows[f].request < NextId /\ flows[f].request \notin pendingSlowCalls
    /\ \A f, g \in DOMAIN flows : flows[f].request = flows[g].request => f = g
    /\ \A id \in pendingSlowCalls : id < NextId

AgentInv == TypeInv /\ CountInv /\ SessionInv /\ FlowInv /\ CallInv /\ RequestInv

-----------------------------------------------------------------------------
(* Counting.                                                               *)

\* Requests are numbered from 1.
LEMMA NextIdIs ==
    ASSUME TypeInv
    PROVE  NextId \in Nat
<1>1. done \in [Kinds -> Nat]
  BY DEF TypeInv
<1>2. {"initialize", "new", "scenario", "prompt", "replay", "close", "slow", "other"} \subseteq Kinds
  BY DEF Kinds, Requests
<1> QED BY <1>1, <1>2 DEF NextId, Total

\* What the client does once more is within its workload; a request takes the
\* next number.
LEMMA Counted ==
    ASSUME TypeInv, CountInv, NEW k \in Kinds, Count(k)
    PROVE  /\ workload' = workload
           /\ done' \in [Kinds -> Nat]
           /\ \A j \in Kinds : done'[j] = IF j = k THEN done[j] + 1 ELSE done[j]
           /\ \A j \in Kinds : done'[j] <= workload[j]
           /\ NextId \in Nat
           /\ NextId' = IF k \in Requests THEN NextId + 1 ELSE NextId
<1>1. /\ workload \in [Kinds -> Nat] /\ done \in [Kinds -> Nat]
  BY ClientAssumption DEF TypeInv
<1>2. /\ done[k] < workload[k] /\ done' = [done EXCEPT ![k] = @ + 1] /\ workload' = workload
  BY DEF Count
<1>3. /\ done' \in [Kinds -> Nat]
      /\ \A j \in Kinds : done'[j] = IF j = k THEN done[j] + 1 ELSE done[j]
  BY <1>1, <1>2
<1>4. \A j \in Kinds : done'[j] <= workload[j]
  BY <1>1, <1>2, <1>3 DEF CountInv
<1>6. NextId \in Nat
  BY NextIdIs
<1>7. NextId' = IF k \in Requests THEN NextId + 1 ELSE NextId
  <2>1. \A j \in Requests : done[j] \in Nat /\ done'[j] = IF j = k THEN done[j] + 1 ELSE done[j]
    BY <1>1, <1>3 DEF Kinds
  <2>2. CASE k \notin Requests
    <3>1. \A j \in Requests : done'[j] = done[j]
      BY <2>1, <2>2
    <3> QED BY <2>2, <3>1 DEF NextId, Total, Requests
  <2>3. CASE k \in Requests
    BY <2>1, <2>3 DEF NextId, Total, Requests
  <2> QED BY <2>2, <2>3
<1> QED BY <1>2, <1>3, <1>4, <1>6, <1>7

\* What a step emits adds one answer, to the request of its response.
LEMMA Tally ==
    ASSUME TypeInv, CountAnswers
    PROVE  /\ out' = <<>> => answers' = answers
           /\ \A m : out' = <<m>> /\ m.type # "response" => answers' = answers
           /\ \A m : out' = <<m>> /\ m.type = "response" =>
                 answers' = [id \in DOMAIN answers |->
                               IF m.id = id THEN answers[id] + 1 ELSE answers[id]]
<1>1. /\ DOMAIN answers = 1 .. MaxId
      /\ \A id \in DOMAIN answers : answers[id] \in Nat
      /\ answers = [id \in DOMAIN answers |-> answers[id]]
  BY DEF TypeInv
<1>2. answers' = [id \in DOMAIN answers |->
                    answers[id] + Cardinality({i \in Responses : out'[i].id = id})]
  BY DEF CountAnswers
<1>3. ASSUME Responses = {} PROVE answers' = answers
  <2>1. \A id \in DOMAIN answers : {i \in Responses : out'[i].id = id} = {}
    BY <1>3
  <2>2. \A id \in DOMAIN answers :
           answers[id] + Cardinality({i \in Responses : out'[i].id = id}) = answers[id]
    <3> TAKE id \in DOMAIN answers
    <3>1. Cardinality({i \in Responses : out'[i].id = id}) = 0
      BY <2>1, FS_EmptySet
    <3>2. answers[id] \in Nat
      BY <1>1
    <3> QED BY <3>1, <3>2
  <2>3. answers' = [id \in DOMAIN answers |-> answers[id]]
    BY <1>2, <2>2
  <2> QED BY <1>1, <2>3
<1>4. out' = <<>> => Responses = {}
  BY DEF Responses
<1>5. \A m : out' = <<m>> /\ m.type # "response" => Responses = {}
  BY DEF Responses
<1>6. ASSUME NEW m, out' = <<m>>, m.type = "response"
      PROVE  answers' = [id \in DOMAIN answers |->
                               IF m.id = id THEN answers[id] + 1 ELSE answers[id]]
  <2>1. Responses = {1} /\ out'[1] = m
    BY <1>6 DEF Responses
  <2>2. \A id \in DOMAIN answers :
           Cardinality({i \in Responses : out'[i].id = id}) = IF m.id = id THEN 1 ELSE 0
    <3> TAKE id \in DOMAIN answers
    <3>1. {i \in Responses : out'[i].id = id} = IF m.id = id THEN {1} ELSE {}
      BY <2>1
    <3> QED BY <3>1, FS_EmptySet, FS_Singleton
  <2>3. \A id \in DOMAIN answers :
           answers[id] + Cardinality({i \in Responses : out'[i].id = id})
              = IF m.id = id THEN answers[id] + 1 ELSE answers[id]
    BY <1>1, <2>2
  <2> QED BY <1>2, <2>3
<1> QED BY <1>3, <1>4, <1>5, <1>6

-----------------------------------------------------------------------------
(* Steps that change one flow.                                             *)

\* Flow f, old or new, becomes fl.
Put(f, fl) ==
    /\ f \in 1 .. Len(flows) + 1
    /\ fl \in Flow
    /\ flows' \in Seq(Flow)
    /\ Len(flows') = IF f \in DOMAIN flows THEN Len(flows) ELSE Len(flows) + 1
    /\ \A g \in DOMAIN flows' : flows'[g] = IF g = f THEN fl ELSE flows[g]

\* The flows after one of them was put in its place or added.
LEMMA PutDomain ==
    ASSUME flows \in Seq(Flow), NEW f, NEW fl, Put(f, fl)
    PROVE  /\ DOMAIN flows' = DOMAIN flows \cup {f}
           /\ flows'[f] = fl
           /\ \A g \in DOMAIN flows : g # f => flows'[g] = flows[g]
           /\ f \notin DOMAIN flows => f = Len(flows) + 1
<1>1. DOMAIN flows = 1 .. Len(flows) /\ DOMAIN flows' = 1 .. Len(flows') /\ Len(flows) \in Nat
  BY DEF Put
<1>2. CASE f \in DOMAIN flows
  BY <1>1, <1>2 DEF Put
<1>3. CASE f \notin DOMAIN flows
  BY <1>1, <1>3 DEF Put
<1> QED BY <1>2, <1>3

\* Cutting a sequence at i and putting e there replaces its i-th element.
Spliced(s, i, e) == SubSeq(s, 1, i - 1) \o <<e>> \o SubSeq(s, i + 1, Len(s))

\* Cutting a sequence around a place and putting an element there replaces it.
LEMMA SplicedIs ==
    ASSUME NEW S, NEW s \in Seq(S), NEW i \in DOMAIN s, NEW e \in S
    PROVE  Spliced(s, i, e) = [s EXCEPT ![i] = e]
<1> DEFINE front == SubSeq(s, 1, i - 1)
           back  == SubSeq(s, i + 1, Len(s))
           x     == front \o <<e>>
<1>0. DOMAIN s = 1 .. Len(s) /\ Len(s) \in Nat
  BY LenProperties
<1>1. DOMAIN s = 1 .. Len(s) /\ Len(s) \in Nat /\ i \in Nat /\ i >= 1 /\ i <= Len(s)
  BY <1>0
<1>2. \A j \in 1 .. Len(s) : s[j] \in S
  BY <1>1, ElementOfSeq
<1>3. /\ front \in Seq(S) /\ Len(front) = i - 1
      /\ \A j \in 1 .. i - 1 : front[j] = s[j]
  BY <1>1, <1>2, SubSeqProperties
<1>4. /\ back \in Seq(S) /\ Len(back) = Len(s) - i
      /\ \A j \in 1 .. Len(s) - i : back[j] = s[i + j]
  <2>1. /\ i + 1 \in Int /\ Len(s) \in Int
        /\ \A j \in (i + 1) .. Len(s) : s[j] \in S
    BY <1>1, <1>2
  <2>2. /\ back \in Seq(S)
        /\ Len(back) = IF i + 1 <= Len(s) THEN Len(s) - (i + 1) + 1 ELSE 0
        /\ \A j \in 1 .. Len(s) - (i + 1) + 1 : back[j] = s[(i + 1) + j - 1]
    BY <2>1, SubSeqProperties
  <2> HIDE DEF back
  <2>3. /\ Len(s) - (i + 1) + 1 = Len(s) - i
        /\ \A j \in 1 .. Len(s) - i : (i + 1) + j - 1 = i + j
    BY <1>1
  <2>4. ~(i + 1 <= Len(s)) => Len(s) - i = 0
    BY <1>1
  <2> QED BY <2>2, <2>3, <2>4
<1>5. <<e>> \in Seq(S) /\ Len(<<e>>) = 1 /\ <<e>>[1] = e
  OBVIOUS
<1> HIDE DEF front, back
<1>6. /\ x \in Seq(S) /\ Len(x) = i
      /\ \A j \in 1 .. i : x[j] = IF j = i THEN e ELSE s[j]
  <2>1. /\ x \in Seq(S) /\ Len(x) = Len(front) + Len(<<e>>)
        /\ \A j \in 1 .. Len(front) + Len(<<e>>) :
              x[j] = IF j <= Len(front) THEN front[j] ELSE <<e>>[j - Len(front)]
    BY <1>3, <1>5, ConcatProperties
  <2> HIDE DEF x
  <2>2. Len(front) + Len(<<e>>) = i
    BY <1>1, <1>3, <1>5
  <2>3. \A j \in 1 .. i : x[j] = IF j = i THEN e ELSE s[j]
    <3> TAKE j \in 1 .. i
    <3>1. CASE j = i
      <4>1. ~(j <= Len(front)) /\ j - Len(front) = 1 /\ j \in 1 .. Len(front) + Len(<<e>>)
        BY <3>1, <2>2, <1>1, <1>3
      <4> QED BY <3>1, <4>1, <2>1, <1>5
    <3>2. CASE j # i
      BY <3>2, <2>1, <2>2, <1>1, <1>3
    <3> QED BY <3>1, <3>2
  <2> QED BY <2>1, <2>2, <2>3
<1> HIDE DEF x
<1>7. /\ x \o back \in Seq(S) /\ Len(x \o back) = Len(x) + Len(back)
      /\ \A j \in 1 .. Len(x) + Len(back) :
            (x \o back)[j] = IF j <= Len(x) THEN x[j] ELSE back[j - Len(x)]
  BY <1>4, <1>6, ConcatProperties
<1>8. Len(x) + Len(back) = Len(s)
  BY <1>1, <1>4, <1>6
<1>9. \A j \in 1 .. Len(s) : (x \o back)[j] = IF j = i THEN e ELSE s[j]
  <2> TAKE j \in 1 .. Len(s)
  <2>1. CASE j <= i
    BY <2>1, <1>1, <1>6, <1>7, <1>8
  <2>2. CASE ~(j <= i)
    <3>1. j - i \in 1 .. Len(s) - i /\ i + (j - i) = j
      BY <2>2, <1>1
    <3>2. (x \o back)[j] = back[j - i]
      BY <2>2, <1>1, <1>6, <1>7, <1>8
    <3> QED BY <2>2, <3>1, <3>2, <1>1, <1>4
  <2> QED BY <2>1, <2>2
<1>10. /\ [s EXCEPT ![i] = e] \in Seq(S) /\ Len([s EXCEPT ![i] = e]) = Len(s)
       /\ \A j \in 1 .. Len(s) : [s EXCEPT ![i] = e][j] = IF j = i THEN e ELSE s[j]
  BY <1>1, ExceptSeq
<1>11. x \o back = [s EXCEPT ![i] = e]
  <2> DEFINE y == [s EXCEPT ![i] = e]
             z == x \o back
  <2>1. y \in Seq(S) /\ z \in Seq(S) /\ Len(y) = Len(z) /\ Len(z) = Len(s)
    BY <1>7, <1>8, <1>10
  <2>2. \A j \in 1 .. Len(s) : z[j] = y[j]
    BY <1>9, <1>10
  <2> HIDE DEF y, z
  <2>3. z = y
    BY <2>1, <2>2, SeqEqual
  <2> QED BY <2>3 DEF y, z
<1> QED BY <1>11 DEF Spliced, x, front, back

\* A flow that is appended is put last.
LEMMA PutLast ==
    ASSUME flows \in Seq(Flow), NEW fl \in Flow,
           \/ flows' = Append(flows, fl)
           \/ flows' = flows \o <<fl>> \o SubSeq(flows, Len(flows) + 2, Len(flows))
    PROVE  Put(Len(flows) + 1, fl)
<1>1. DOMAIN flows = 1 .. Len(flows) /\ Len(flows) \in Nat
  OBVIOUS
<1>2. flows' = Append(flows, fl)
  <2>1. SubSeq(flows, Len(flows) + 2, Len(flows)) = <<>>
    BY <1>1, SubSeqEmpty
  <2>2. flows \o <<fl>> \in Seq(Flow)
    BY ConcatProperties
  <2>3. flows \o <<fl>> \o <<>> = flows \o <<fl>>
    BY <2>2, ConcatEmptySeq
  <2>4. flows \o <<fl>> = Append(flows, fl)
    OBVIOUS
  <2> QED BY <2>1, <2>3, <2>4
<1> QED BY <1>1, <1>2 DEF Put

\* A flow that is replaced is put in its place.
LEMMA PutChanged ==
    ASSUME flows \in Seq(Flow), NEW f \in DOMAIN flows, NEW fl \in Flow,
           \/ flows' = [flows EXCEPT ![f] = fl]
           \/ flows' = [g \in DOMAIN flows |-> IF g = f THEN fl ELSE flows[g]]
    PROVE  Put(f, fl)
<1>1. /\ DOMAIN flows = 1 .. Len(flows) /\ Len(flows) \in Nat
      /\ flows = [g \in DOMAIN flows |-> flows[g]]
  OBVIOUS
<1>2. flows' = [flows EXCEPT ![f] = fl]
  BY <1>1
<1>3. /\ [flows EXCEPT ![f] = fl] \in Seq(Flow)
      /\ Len([flows EXCEPT ![f] = fl]) = Len(flows)
      /\ \A j \in 1 .. Len(flows) : [flows EXCEPT ![f] = fl][j] = IF j = f THEN fl ELSE flows[j]
  BY <1>1, ExceptSeq
<1> QED BY <1>1, <1>2, <1>3 DEF Put

\* So is one that RunOn puts between the others.
LEMMA PutInside ==
    ASSUME flows \in Seq(Flow), NEW f \in DOMAIN flows, NEW fl \in Flow,
           flows' = SubSeq(flows, 1, f - 1) \o <<fl>> \o SubSeq(flows, f + 1, Len(flows))
    PROVE  Put(f, fl)
<1>1. flows' = Spliced(flows, f, fl)
  BY DEF Spliced
<1>2. Spliced(flows, f, fl) = [flows EXCEPT ![f] = fl]
  BY SplicedIs
<1>3. flows' = [flows EXCEPT ![f] = fl]
  BY <1>1, <1>2
<1> QED BY <1>3, PutChanged

\* What a run of flow f, whose code is t, does; it leaves after.
Ran(f, fl, t, after) ==
    /\ Put(f, after)
    /\ after.kind = fl.kind /\ after.request = fl.request /\ after.session = fl.session
    /\ after.cancelled = fl.cancelled /\ after.answer = fl.answer
    /\ after.todo = Tail(t) /\ after.status = StatusAfter(t[1], Tail(t))
    /\ after.count = IF t[1].op \in {"sleep", "replay"} THEN fl.count + 1 ELSE fl.count
    /\ sessions' = IF t[1].push = "none" THEN sessions
                   ELSE [sessions EXCEPT ![fl.session].history = Append(@, <<t[1].push, f>>)]
    /\ pendingClientCalls' =
          IF t[1].op = "ask" THEN pendingClientCalls \cup {<<nextAgentRequestId, f>>}
          ELSE pendingClientCalls
    /\ nextAgentRequestId' = IdAfter(t[1])
    /\ out' = Emitted(fl, t[1])

\* The status of a flow after a segment tells what the segment was.
LEMMA StatusIs ==
    ASSUME NEW seg \in Segments, seg.op \in Plain1, NEW rest
    PROVE  /\ StatusAfter(seg, rest) \in {"ready", "asking", "sleeping", "done"}
           /\ StatusAfter(seg, rest) = "asking" <=> seg.op = "ask"
           /\ StatusAfter(seg, rest) = "ready" => rest # <<>>
           /\ StatusAfter(seg, rest) = "done" => rest = <<>>
           /\ StatusAfter(seg, rest) = "sleeping" <=> seg.op = "sleep"
           /\ (seg.op \notin {"ask", "sleep"} /\ rest # <<>>) => StatusAfter(seg, rest) = "ready"
BY DEF StatusAfter, Plain1

\* What f's record becomes when the code t of scenario sc takes its place,
\* and where f is: among the flows or after them.
Branched(fl, sc, t) == [fl EXCEPT !.scenario = sc, !.todo = t]
Place(f, rest) ==
    \/ f \in DOMAIN flows /\ rest = SubSeq(flows, 1, f - 1)
    \/ f = Len(flows) + 1 /\ rest = flows

\* RunOn runs the first segment of the code the flow branched to.
LEMMA RunIs ==
    ASSUME TypeInv, NEW fl \in Flow, NEW sc \in Names, NEW t \in Seq(Segments),
           t # <<>>, t[1].op \in Plain1, Branch(fl) = Branched(fl, sc, t),
           NEW f, NEW rest, RunOn(rest, f, fl), Place(f, rest)
    PROVE  \E after \in Flow : Ran(f, fl, t, after) /\ after.scenario = sc
<1> DEFINE b == [fl EXCEPT !.scenario = sc, !.todo = t]
           seg == t[1]
           after == [b EXCEPT !.todo = Tail(b.todo),
                              !.status = StatusAfter(seg, Tail(b.todo)),
                              !.count = IF seg.op \in {"sleep", "replay"} THEN @ + 1 ELSE @]
<1>1. b \in Flow /\ b.todo = t /\ b.request = fl.request /\ b.count = fl.count
  BY DEF Flow
<1>2. seg \in Segments /\ Tail(t) \in Seq(Segments)
  BY HeadTailProperties
<1>3. StatusAfter(seg, Tail(t)) \in {"ready", "asking", "sleeping", "done"}
  BY <1>2, StatusIs
<1>4. fl.count \in Nat
  BY DEF Flow
<1>5. /\ after \in Flow
      /\ after.kind = fl.kind /\ after.request = fl.request /\ after.session = fl.session
      /\ after.cancelled = fl.cancelled /\ after.answer = fl.answer
      /\ after.todo = Tail(t) /\ after.status = StatusAfter(seg, Tail(t))
      /\ after.count = IF seg.op \in {"sleep", "replay"} THEN fl.count + 1 ELSE fl.count
      /\ after.scenario = sc
  <2> DEFINE n == IF seg.op \in {"sleep", "replay"} THEN fl.count + 1 ELSE fl.count
             st == StatusAfter(seg, Tail(t))
             td == Tail(t)
  <2>1. n \in Nat /\ st \in {"ready", "asking", "sleeping", "done", "thrown"} /\ td \in Seq(Segments)
    BY <1>2, <1>3, <1>4
  <2>2. after = [fl EXCEPT !.scenario = sc, !.todo = td, !.status = st, !.count = n]
    <3>1. b.todo = t
      BY <1>1
    <3>2. after = [b EXCEPT !.todo = td, !.status = st, !.count = n]
      BY <3>1, <1>1
    <3> HIDE DEF n, st, td, after
    <3> QED BY <3>2 DEF Flow
  <2> HIDE DEF n, st, td, after
  <2>3. /\ after \in Flow /\ after.kind = fl.kind /\ after.request = fl.request
        /\ after.session = fl.session /\ after.cancelled = fl.cancelled /\ after.answer = fl.answer
        /\ after.todo = td /\ after.status = st /\ after.count = n /\ after.scenario = sc
    BY <2>1, <2>2 DEF Flow
  <2> QED BY <2>3 DEF n, st, td
<1>6. /\ flows' = rest \o <<after>> \o SubSeq(flows, f + 1, Len(flows))
      /\ sessions' = IF seg.push = "none" THEN sessions
                     ELSE [sessions EXCEPT ![fl.session].history = Append(@, <<seg.push, f>>)]
      /\ pendingClientCalls' =
            IF seg.op = "ask" THEN pendingClientCalls \cup {<<nextAgentRequestId, f>>}
            ELSE pendingClientCalls
      /\ nextAgentRequestId' = IdAfter(seg)
      /\ out' = Emitted(b, seg)
  <2>1. Branch(fl) = b /\ b.todo = t
    BY <1>1 DEF Branched
  <2> HIDE DEF b
  <2> QED BY <2>1 DEF RunOn
<1>7. Emitted(b, seg) = Emitted(fl, seg)
  <2>1. b.request = fl.request
    BY <1>1
  <2> HIDE DEF b
  <2> QED BY <2>1 DEF Emitted, Response
<1>8. Put(f, after)
  <2>1. flows \in Seq(Flow) /\ Len(flows) \in Nat
    BY DEF TypeInv
  <2>2. after \in Flow
    BY <1>5
  <2> HIDE DEF after
  <2>3. CASE f \in DOMAIN flows /\ rest = SubSeq(flows, 1, f - 1)
    BY <2>1, <2>2, <2>3, <1>6, PutInside
  <2>4. CASE f = Len(flows) + 1 /\ rest = flows
    <3>1. (Len(flows) + 1) + 1 = Len(flows) + 2
      BY <2>1
    <3>2. flows' = flows \o <<after>> \o SubSeq(flows, Len(flows) + 2, Len(flows))
      BY <2>4, <3>1, <1>6
    <3> QED BY <2>1, <2>2, <2>4, <3>2, PutLast
  <2> QED BY <2>3, <2>4 DEF Place
<1> HIDE DEF after, b
<1>9. Ran(f, fl, t, after)
  BY <1>5, <1>6, <1>7, <1>8 DEF Ran
<1> QED BY <1>5, <1>9

-----------------------------------------------------------------------------
(* Bounds.                                                                 *)

\* A finite set of numbers has a largest one.
LEMMA LargestIs ==
    ASSUME NEW S \in SUBSET Nat, IsFiniteSet(S), S # {}
    PROVE  Largest(S) \in S /\ \A m \in S : m <= Largest(S)
<1> DEFINE Above(x) == {y \in S : y > x}
           T == {Above(x) : x \in S}
<1>1. IsWellFoundedOn(StrictSubsetOrdering(S), FiniteSubsetsOf(S))
  BY FS_StrictSubsetOrderingWellFounded
<1>2. T \subseteq FiniteSubsetsOf(S)
  <2> SUFFICES ASSUME NEW x \in S PROVE Above(x) \in FiniteSubsetsOf(S)
    OBVIOUS
  <2>1. Above(x) \in SUBSET S
    OBVIOUS
  <2>2. IsFiniteSet(Above(x))
    BY <2>1, FS_Subset
  <2> QED BY <2>1, <2>2 DEF FiniteSubsetsOf
<1>3. T # {}
  OBVIOUS
<1> HIDE DEF T
<1>4. PICK U \in T : \A V \in T : ~(<<V, U>> \in StrictSubsetOrdering(S))
  BY <1>1, <1>2, <1>3, WFMin
<1>5. PICK x \in S : U = Above(x)
  BY DEF T
<1>6. \A y \in S : y <= x
  <2> SUFFICES ASSUME NEW y \in S, y > x PROVE FALSE
    OBVIOUS
  <2>1. Above(y) \in T
    BY DEF T
  <2>2. \A z \in Above(y) : z \in Above(x)
    OBVIOUS
  <2>3. y \in Above(x) /\ y \notin Above(y)
    OBVIOUS
  <2>4. <<Above(y), Above(x)>> \in StrictSubsetOrdering(S)
    BY <2>2, <2>3 DEF StrictSubsetOrdering
  <2> QED BY <2>1, <2>4, <1>4, <1>5
<1>7. \E n \in S : \A m \in S : m <= n
  BY <1>6
<1> QED BY <1>7 DEF Largest

\* Every flow of a workload has its number among Flows.
LEMMA FlowsAreFew ==
    ASSUME NEW w \in Workloads, NEW n \in Nat, n <= w.prompt + w.replay
    PROVE  1 .. n \subseteq Flows
<1> DEFINE S == {v.prompt + v.replay : v \in Workloads}
           g == [v \in Workloads |-> v.prompt + v.replay]
<1>1. S \in SUBSET Nat /\ w.prompt + w.replay \in S
  <2>1. \A v \in Workloads : v.prompt \in Nat /\ v.replay \in Nat
    BY ClientAssumption DEF Kinds, Requests
  <2> QED BY <2>1
<1>2. IsFiniteSet(S)
  <2>1. g \in Surjection(Workloads, S)
    BY DEF Surjection
  <2> HIDE DEF g, S
  <2> QED BY <2>1, ClientAssumption, FS_Surjection
<1> HIDE DEF S
<1>3. Largest(S) \in Nat /\ w.prompt + w.replay <= Largest(S) /\ w.prompt + w.replay \in Nat
  BY <1>1, <1>2, LargestIs
<1>4. n <= Largest(S)
  BY <1>1, <1>3
<1>5. Flows = 1 .. Largest(S)
  BY DEF Flows, S
<1> QED BY <1>3, <1>4, <1>5

-----------------------------------------------------------------------------
(* The table of calls.                                                     *)

\* A flow that begins to wait has its call entered.
LEMMA CallsAsk ==
    ASSUME TypeInv, CallInv, NEW f, NEW fl, Put(f, fl), fl.status = "asking",
           f \in DOMAIN flows => flows[f].status # "asking",
           pendingClientCalls' = pendingClientCalls \cup {<<nextAgentRequestId, f>>},
           nextAgentRequestId' = nextAgentRequestId + 1
    PROVE  CallInv'
<1> DEFINE new == <<nextAgentRequestId, f>>
<1>1. /\ DOMAIN flows' = DOMAIN flows \cup {f} /\ flows'[f] = fl
      /\ \A g \in DOMAIN flows : g # f => flows'[g] = flows[g]
  BY PutDomain DEF TypeInv
<1>2. /\ {p[2] : p \in pendingClientCalls} = {g \in DOMAIN flows : flows[g].status = "asking"}
      /\ \A p, q \in pendingClientCalls : p[1] = q[1] <=> p[2] = q[2]
      /\ \A p \in pendingClientCalls : p[1] < nextAgentRequestId
  BY DEF CallInv, CallsHaveOwners
<1>3. nextAgentRequestId \in Nat /\ pendingClientCalls \subseteq Nat \X Nat
  BY DEF TypeInv
<1>4. new[1] = nextAgentRequestId /\ new[2] = f
  OBVIOUS
<1> HIDE DEF new
<1>5. \A p \in pendingClientCalls : p[1] # nextAgentRequestId /\ p[2] # f
  <2> TAKE p \in pendingClientCalls
  <2>1. p[1] < nextAgentRequestId /\ p[1] \in Nat
    BY <1>2, <1>3
  <2>2. p[2] \in {g \in DOMAIN flows : flows[g].status = "asking"}
    BY <1>2
  <2> QED BY <2>1, <2>2, <1>3
<1>6. {p[2] : p \in pendingClientCalls'} = {p[2] : p \in pendingClientCalls} \cup {f}
  BY <1>4 DEF new
<1>7. {p[2] : p \in pendingClientCalls'} = {g \in DOMAIN flows' : flows'[g].status = "asking"}
  BY <1>1, <1>2, <1>6
<1>8. \A p, q \in pendingClientCalls' : p[1] = q[1] <=> p[2] = q[2]
  BY <1>2, <1>4, <1>5 DEF new
<1>9. \A p \in pendingClientCalls' : p[1] < nextAgentRequestId'
  <2> TAKE p \in pendingClientCalls'
  <2>1. CASE p \in pendingClientCalls
    BY <2>1, <1>2, <1>3
  <2>2. CASE p = new
    BY <2>2, <1>3, <1>4
  <2> QED BY <2>1, <2>2 DEF new
<1> QED BY <1>7, <1>8, <1>9 DEF CallInv, CallsHaveOwners

\* The table of a step after which f waits if it waited before.
LEMMA CallsStay ==
    ASSUME TypeInv, CallInv, NEW f, NEW fl, Put(f, fl),
           fl.status = "asking" <=> f \in DOMAIN flows /\ flows[f].status = "asking",
           pendingClientCalls' = pendingClientCalls,
           nextAgentRequestId' \in {nextAgentRequestId, nextAgentRequestId + 1}
    PROVE  CallInv'
<1>1. /\ DOMAIN flows' = DOMAIN flows \cup {f} /\ flows'[f] = fl
      /\ \A g \in DOMAIN flows : g # f => flows'[g] = flows[g]
  BY PutDomain DEF TypeInv
<1>2. {g \in DOMAIN flows' : flows'[g].status = "asking"} = {g \in DOMAIN flows : flows[g].status = "asking"}
  BY <1>1
<1>3. \A p \in pendingClientCalls' : p[1] < nextAgentRequestId'
  <2> TAKE p \in pendingClientCalls'
  <2>1. p[1] < nextAgentRequestId /\ p[1] \in Nat /\ nextAgentRequestId \in Nat
    BY DEF CallInv, TypeInv
  <2> QED BY <2>1
<1> QED BY <1>2, <1>3 DEF CallInv, CallsHaveOwners

\* An answer takes out the call it is for, and its flow no longer waits.
LEMMA CallsSettled ==
    ASSUME TypeInv, CallInv, NEW f \in DOMAIN flows, NEW fl, Put(f, fl), fl.status # "asking",
           NEW call, <<call, f>> \in pendingClientCalls,
           pendingClientCalls' = {p \in pendingClientCalls : p[1] # call},
           nextAgentRequestId' = nextAgentRequestId
    PROVE  CallInv'
<1>1. /\ DOMAIN flows' = DOMAIN flows /\ flows'[f] = fl
      /\ \A g \in DOMAIN flows : g # f => flows'[g] = flows[g]
  <2>1. /\ DOMAIN flows' = DOMAIN flows \cup {f} /\ flows'[f] = fl
        /\ \A g \in DOMAIN flows : g # f => flows'[g] = flows[g]
    BY PutDomain DEF TypeInv
  <2>2. DOMAIN flows \cup {f} = DOMAIN flows
    OBVIOUS
  <2> QED BY <2>1, <2>2
<1>2. /\ {p[2] : p \in pendingClientCalls} = {g \in DOMAIN flows : flows[g].status = "asking"}
      /\ \A p, q \in pendingClientCalls : p[1] = q[1] <=> p[2] = q[2]
      /\ \A p \in pendingClientCalls : p[1] < nextAgentRequestId
  BY DEF CallInv, CallsHaveOwners
<1>3. \A p \in pendingClientCalls : p[1] = call <=> p[2] = f
  <2> DEFINE mine == <<call, f>>
  <2>1. mine \in pendingClientCalls /\ mine[1] = call /\ mine[2] = f
    OBVIOUS
  <2> HIDE DEF mine
  <2> QED BY <2>1, <1>2
<1>4. {p[2] : p \in pendingClientCalls'} = {p[2] : p \in pendingClientCalls} \ {f}
  BY <1>3
<1>5. {p[2] : p \in pendingClientCalls'} = {g \in DOMAIN flows' : flows'[g].status = "asking"}
  BY <1>1, <1>2, <1>4
<1> QED BY <1>2, <1>5 DEF CallInv, CallsHaveOwners

-----------------------------------------------------------------------------
(* Steps that keep the invariant.                                          *)

\* What the client does is counted.
Counts ==
    /\ workload' = workload
    /\ done' \in [Kinds -> Nat]
    /\ \A k \in Kinds : done[k] <= done'[k] /\ done'[k] <= workload[k]
    /\ NextId \in Nat /\ NextId' \in {NextId, NextId + 1}
    /\ CountAnswers
    /\ out' = <<>> \/ \E m : out' = <<m>>

\* The version and the faults stay, the sessions grow.
Grown ==
    /\ version' = version /\ faults' = faults
    /\ sessions' \in Seq(Session) /\ Len(sessions') <= MaxSessions
    /\ version = 0 => sessions' = sessions
    /\ \A s \in DOMAIN sessions : /\ s \in DOMAIN sessions'
                                  /\ Len(sessions[s].history) <= Len(sessions'[s].history)
    /\ \A s \in DOMAIN sessions' : sessions'[s].scenario \in NamesOf(version)

\* The flows are numbered from 1.
LEMMA FlowsAre ==
    ASSUME TypeInv
    PROVE  /\ DOMAIN flows = 1 .. Len(flows) /\ Len(flows) \in Nat
           /\ \A f \in DOMAIN flows : f \in Nat \ {0} /\ flows[f] \in Flow
<1>1. flows \in Seq(Flow)
  BY DEF TypeInv
<1>2. DOMAIN flows = 1 .. Len(flows) /\ Len(flows) \in Nat
  BY <1>1, LenProperties
<1>3. \A f \in DOMAIN flows : flows[f] \in Flow
  BY <1>1, <1>2, ElementOfSeq
<1> QED BY <1>2, <1>3

\* A flow that does not move is as good as before.
LEMMA FlowStays ==
    ASSUME TypeInv, Grown, NEW fl \in Flow, FlowOK(fl)
    PROVE  FlowOK(fl)'
<1>1. Runs(fl) => Runs(fl)'
  BY DEF Grown, Runs, NoIllegalCall
<1>2. fl.session \in DOMAIN sessions' /\ NamesOf(version)' = NamesOf(version)
  BY DEF FlowOK, Grown
<1>3. fl.kind = "replay" => fl.count <= Len(sessions'[fl.session].history)
  <2>1. Len(sessions[fl.session].history) <= Len(sessions'[fl.session].history)
    BY DEF FlowOK, Grown
  <2>2. /\ Len(sessions[fl.session].history) \in Nat
        /\ Len(sessions'[fl.session].history) \in Nat
    <3>1. sessions[fl.session] \in Session /\ sessions'[fl.session] \in Session
      BY <1>2 DEF FlowOK, TypeInv, Grown
    <3> QED BY <3>1 DEF Session
  <2>3. fl.count \in Nat
    BY DEF Flow
  <2> QED BY <2>1, <2>2, <2>3 DEF FlowOK
<1> QED BY <1>1, <1>2, <1>3 DEF FlowOK, Grown

\* No flow moves.
Calm ==
    /\ Grown /\ Counts
    /\ flows' = flows /\ pendingClientCalls' = pendingClientCalls
    /\ nextAgentRequestId' = nextAgentRequestId
    /\ promptContexts' \in [SessionIds -> Nat]
    /\ \A s \in SessionIds : promptContexts'[s] \in {0, promptContexts[s]}
    /\ pendingSlowCalls' \subseteq pendingSlowCalls \cup {NextId}
    /\ NextId \in pendingSlowCalls' => NextId' = NextId + 1
    /\ UNCHANGED <<ended, lastState, cancelHeard, denied>>
    /\ cancelAsked \subseteq cancelAsked' /\ cancelAsked' \subseteq DOMAIN flows

\* The types of the counts.
LEMMA CountTypes ==
    ASSUME TypeInv, Counts
    PROVE  /\ workload' \in Workloads /\ done' \in [Kinds -> Nat]
           /\ answers' \in [1 .. MaxId -> Nat]
<1>1. DOMAIN answers = 1 .. MaxId /\ \A id \in DOMAIN answers : answers[id] \in Nat
  BY DEF TypeInv
<1>2. ASSUME NEW m,
             answers' = [id \in DOMAIN answers |->
                           IF m.id = id THEN answers[id] + 1 ELSE answers[id]]
      PROVE  answers' \in [1 .. MaxId -> Nat]
  <2>1. \A id \in DOMAIN answers : (IF m.id = id THEN answers[id] + 1 ELSE answers[id]) \in Nat
    BY <1>1
  <2> QED BY <2>1, <1>1, <1>2
<1>3. answers' \in [1 .. MaxId -> Nat]
  <2>1. CountAnswers
    BY DEF Counts
  <2>2. CASE out' = <<>>
    BY <2>1, <2>2, Tally DEF TypeInv
  <2>3. ASSUME NEW m, out' = <<m>> PROVE <1>3
    <3>1. CASE m.type = "response"
      BY <2>1, <2>3, <3>1, <1>2, Tally
    <3>2. CASE m.type # "response"
      BY <2>1, <2>3, <3>2, Tally DEF TypeInv
    <3> QED BY <3>1, <3>2
  <2> QED BY <2>2, <2>3 DEF Counts
<1> QED BY <1>3 DEF TypeInv, Counts

\* A step in which no flow moves keeps the invariant.
LEMMA CalmKeeps ==
    ASSUME AgentInv, Calm
    PROVE  AgentInv'
<1>1. TypeInv'
  BY CountTypes DEF AgentInv, TypeInv, Calm, Grown, Counts
<1>2. CountInv'
  <2>1. /\ \A k \in Kinds : done'[k] <= workload'[k]
        /\ version' # 0 => done'.initialize >= 1
    <3>1. /\ \A k \in Kinds : done[k] \in Nat /\ done'[k] \in Nat
          /\ "initialize" \in Kinds
      BY DEF AgentInv, TypeInv, Calm, Counts, Kinds, Requests
    <3>2. done.initialize <= done'.initialize /\ done.initialize \in Nat /\ done'.initialize \in Nat
      BY <3>1 DEF Calm, Counts
    <3> QED BY <3>2 DEF AgentInv, CountInv, Calm, Counts, Grown
  <2>2. version' = 0 => /\ sessions' = <<>> /\ flows' = <<>>
                        /\ \A s \in SessionIds : lastState'[s] = "none"
    BY DEF AgentInv, CountInv, Calm, Grown
  <2>3. Len(flows') <= done'.prompt + done'.replay
    <3>1. {"prompt", "replay"} \subseteq Kinds
      BY DEF Kinds, Requests
    <3>2. /\ done.prompt \in Nat /\ done'.prompt \in Nat /\ done.prompt <= done'.prompt
          /\ done.replay \in Nat /\ done'.replay \in Nat /\ done.replay <= done'.replay
      BY <3>1 DEF AgentInv, TypeInv, Calm, Counts
    <3>3. Len(flows) <= done.prompt + done.replay /\ Len(flows) \in Nat
      BY LenProperties DEF AgentInv, CountInv, TypeInv
    <3> QED BY <3>2, <3>3 DEF Calm
  <2> QED BY <2>1, <2>2, <2>3 DEF CountInv
<1>3. SessionInv'
  BY DEF AgentInv, SessionInv, Calm, Grown
<1>4. FlowInv'
  <2> SUFFICES ASSUME NEW f \in DOMAIN flows PROVE FlowOK(flows[f])'
    BY DEF FlowInv, Calm
  <2>1. flows[f] \in Flow /\ FlowOK(flows[f])
    BY DEF AgentInv, TypeInv, FlowInv
  <2> DEFINE fl == flows[f]
  <2>2. \A x \in Flow : FlowOK(x) => FlowOK(x)'
    BY FlowStays DEF AgentInv, Calm
  <2> QED BY <2>1, <2>2 DEF Calm, FlowOK
<1>5. CallInv'
  BY DEF AgentInv, CallInv, CallsHaveOwners, Calm
<1>6. RequestInv'
  <2>1. NextId \in Nat /\ NextId' \in {NextId, NextId + 1}
    BY DEF Calm, Counts
  <2>2. \A f \in DOMAIN flows : flows[f].request \in Nat
    BY FlowsAre DEF AgentInv, Flow
  <2>3. \A f \in DOMAIN flows : flows[f].request < NextId' /\ flows[f].request \notin pendingSlowCalls'
    <3> TAKE f \in DOMAIN flows
    <3>1. flows[f].request < NextId /\ flows[f].request \notin pendingSlowCalls
      BY DEF AgentInv, RequestInv
    <3>2. flows[f].request < NextId' /\ flows[f].request # NextId
      BY <3>1, <2>1, <2>2
    <3> QED BY <3>1, <3>2 DEF Calm
  <2>4. \A id \in pendingSlowCalls' : id < NextId'
    <3> TAKE id \in pendingSlowCalls'
    <3>1. CASE id \in pendingSlowCalls
      <4>1. id \in Nat /\ id < NextId
        BY <3>1 DEF AgentInv, RequestInv, TypeInv
      <4> QED BY <4>1, <2>1
    <3>2. CASE id \notin pendingSlowCalls
      <4>1. id = NextId /\ NextId' = NextId + 1
        BY <3>2 DEF Calm
      <4> QED BY <4>1, <2>1
    <3> QED BY <3>1, <3>2
  <2> QED BY <2>3, <2>4 DEF RequestInv, AgentInv, Calm
<1> QED BY <1>1, <1>2, <1>3, <1>4, <1>5, <1>6 DEF AgentInv

\* Flow f moves to fl: it keeps its kind, request and session; a new one has
\* the request of this step.  It may tell the client how its turn ended and
\* what state its session is in.
Moves(f, fl) ==
    /\ Grown /\ Counts /\ Put(f, fl)
    /\ f \in DOMAIN flows =>
          /\ fl.kind = flows[f].kind /\ fl.request = flows[f].request
          /\ fl.session = flows[f].session
          /\ promptContexts' = promptContexts
    /\ f \notin DOMAIN flows =>
          /\ fl.request = NextId /\ NextId' = NextId + 1 /\ version # 0
          /\ Len(flows') <= done'.prompt + done'.replay
          /\ \/ promptContexts' = promptContexts
             \/ /\ fl.kind = "prompt" /\ fl.session \in SessionIds
                /\ promptContexts' = [promptContexts EXCEPT ![fl.session] = f]
    /\ pendingSlowCalls' = pendingSlowCalls
    /\ \/ ended' = ended
       \/ \E word \in Stops : ended' = [ended EXCEPT ![f] = word]
    /\ \/ lastState' = lastState
       \/ \E word \in States : lastState' = [lastState EXCEPT ![fl.session] = word]
    /\ cancelAsked' \subseteq DOMAIN flows'
    /\ cancelHeard' \subseteq DOMAIN flows'
    /\ denied' \subseteq DOMAIN flows'

\* A step that moves one flow keeps the invariant, if the flow is as good as
\* before and the calls have their owners.
LEMMA MovesKeeps ==
    ASSUME AgentInv, NEW f, NEW fl, Moves(f, fl), FlowOK(fl)', CallInv',
           pendingClientCalls' \subseteq Nat \X Nat, nextAgentRequestId' \in Nat
    PROVE  AgentInv'
<1>0. /\ DOMAIN flows' = DOMAIN flows \cup {f} /\ flows'[f] = fl
      /\ \A g \in DOMAIN flows : g # f => flows'[g] = flows[g]
  BY PutDomain DEF AgentInv, TypeInv, Moves
<1>1. TypeInv'
  <2>1. /\ ended' \in [Flows -> Stops \cup {"not"}]
        /\ lastState' \in [SessionIds -> States \cup {"none"}]
    BY DEF AgentInv, TypeInv, Moves
  <2>2. promptContexts' \in [SessionIds -> Nat]
    <3>1. f \in Nat
      BY FlowsAre DEF AgentInv, Moves, Put
    <3> QED BY <3>1 DEF AgentInv, TypeInv, Moves
  <2>3. /\ flows' \in Seq(Flow) /\ pendingSlowCalls' \subseteq Nat /\ version' \in {0, 1, 2}
        /\ sessions' \in Seq(Session) /\ Len(sessions') <= MaxSessions
        /\ cancelAsked' \subseteq DOMAIN flows' /\ cancelHeard' \subseteq DOMAIN flows'
        /\ denied' \subseteq DOMAIN flows'
    BY DEF AgentInv, TypeInv, Moves, Grown, Put
  <2>4. /\ workload' \in Workloads /\ done' \in [Kinds -> Nat]
        /\ answers' \in [1 .. MaxId -> Nat]
    BY CountTypes DEF AgentInv, Moves
  <2> QED BY <2>1, <2>2, <2>3, <2>4 DEF TypeInv
<1>2. CountInv'
  <2>1. /\ \A k \in Kinds : done'[k] <= workload'[k]
        /\ version' # 0 => done'.initialize >= 1
    <3>1. /\ \A k \in Kinds : done[k] \in Nat /\ done'[k] \in Nat
          /\ "initialize" \in Kinds
      BY DEF AgentInv, TypeInv, Moves, Counts, Kinds, Requests
    <3>2. done.initialize <= done'.initialize /\ done.initialize \in Nat /\ done'.initialize \in Nat
      BY <3>1 DEF Moves, Counts
    <3> QED BY <3>2 DEF AgentInv, CountInv, Moves, Counts, Grown
  <2>2. version # 0
    <3>1. version = 0 => DOMAIN flows = {}
      BY DEF AgentInv, CountInv
    <3> QED BY <3>1 DEF Moves
  <2>3. Len(flows') <= done'.prompt + done'.replay
    <3>1. CASE f \in DOMAIN flows
      <4>1. {"prompt", "replay"} \subseteq Kinds
        BY DEF Kinds, Requests
      <4>2. /\ done.prompt \in Nat /\ done'.prompt \in Nat /\ done.prompt <= done'.prompt
            /\ done.replay \in Nat /\ done'.replay \in Nat /\ done.replay <= done'.replay
        BY <4>1 DEF AgentInv, TypeInv, Moves, Counts
      <4>3. Len(flows) <= done.prompt + done.replay /\ Len(flows) \in Nat
        BY FlowsAre DEF AgentInv, CountInv
      <4>4. Len(flows') = Len(flows)
        BY <3>1 DEF Moves, Put
      <4> QED BY <4>2, <4>3, <4>4
    <3>2. CASE f \notin DOMAIN flows
      BY <3>2 DEF Moves
    <3> QED BY <3>1, <3>2
  <2> QED BY <2>1, <2>2, <2>3 DEF CountInv, Moves, Grown
<1>3. SessionInv'
  <2>1. \A s \in DOMAIN sessions' : sessions'[s].scenario \in NamesOf(version')
    BY DEF Moves, Grown
  <2>2. ASSUME NEW s \in SessionIds, promptContexts'[s] # 0
        PROVE  /\ promptContexts'[s] \in DOMAIN flows'
               /\ flows'[promptContexts'[s]].kind = "prompt"
               /\ flows'[promptContexts'[s]].session = s
    <3>1. CASE promptContexts'[s] = promptContexts[s]
      <4>1. /\ promptContexts[s] \in DOMAIN flows
            /\ flows[promptContexts[s]].kind = "prompt"
            /\ flows[promptContexts[s]].session = s
        BY <2>2, <3>1 DEF AgentInv, SessionInv
      <4> QED BY <4>1, <3>1, <1>0 DEF Moves
    <3>2. CASE promptContexts'[s] # promptContexts[s]
      <4>1. f \notin DOMAIN flows /\ fl.kind = "prompt" /\ fl.session \in SessionIds
            /\ promptContexts' = [promptContexts EXCEPT ![fl.session] = f]
        BY <3>2 DEF Moves
      <4>2. s = fl.session /\ promptContexts'[s] = f
        BY <3>2, <4>1 DEF AgentInv, TypeInv
      <4> QED BY <4>1, <4>2, <1>0
    <3> QED BY <3>1, <3>2
  <2> QED BY <2>1, <2>2 DEF SessionInv
<1>4. FlowInv'
  <2> SUFFICES ASSUME NEW g \in DOMAIN flows' PROVE FlowOK(flows[g])'
    BY DEF FlowInv
  <2>1. \A x \in Flow : FlowOK(x) => FlowOK(x)'
    BY FlowStays DEF AgentInv, Moves
  <2>2. CASE g = f
    BY <2>2, <1>0 DEF FlowOK, Runs, NoIllegalCall
  <2>3. CASE g # f
    <3>1. flows[g] \in Flow /\ FlowOK(flows[g]) /\ flows'[g] = flows[g]
      BY <2>3, <1>0, FlowsAre DEF AgentInv, FlowInv
    <3> QED BY <2>1, <3>1 DEF FlowOK, Runs, NoIllegalCall
  <2> QED BY <2>2, <2>3
<1>5. RequestInv'
  <2>1. NextId \in Nat /\ NextId' \in {NextId, NextId + 1}
    BY DEF Moves, Counts
  <2>2. \A g \in DOMAIN flows : /\ flows[g].request \in Nat /\ flows[g].request < NextId
                                /\ flows[g].request \notin pendingSlowCalls
    BY FlowsAre DEF AgentInv, RequestInv, Flow
  <2>3. \A id \in pendingSlowCalls : id \in Nat /\ id < NextId
    BY DEF AgentInv, RequestInv, TypeInv
  <2>4. CASE f \in DOMAIN flows
    <3>1. DOMAIN flows' = DOMAIN flows /\ \A g \in DOMAIN flows : flows'[g].request = flows[g].request
      BY <2>4, <1>0 DEF Moves
    <3>2. \A g \in DOMAIN flows : flows[g].request < NextId'
      BY <2>1, <2>2
    <3>3. \A id \in pendingSlowCalls : id < NextId'
      BY <2>1, <2>3
    <3> QED BY <2>2, <3>1, <3>2, <3>3 DEF RequestInv, AgentInv, Moves
  <2>5. CASE f \notin DOMAIN flows
    <3>1. flows'[f].request = NextId /\ NextId' = NextId + 1
      BY <2>5, <1>0 DEF Moves
    <3>2. \A g \in DOMAIN flows : flows'[g].request = flows[g].request
      BY <2>5, <1>0
    <3>3. \A g \in DOMAIN flows : flows[g].request < NextId' /\ flows[g].request # NextId
      BY <2>1, <2>2, <3>1
    <3>4. \A id \in pendingSlowCalls : id < NextId' /\ id # NextId
      BY <2>1, <2>3, <3>1
    <3>5. NextId < NextId'
      BY <2>1, <3>1
    <3>6. \A g \in DOMAIN flows' : flows'[g].request < NextId' /\ flows'[g].request \notin pendingSlowCalls
      BY <2>2, <3>1, <3>2, <3>3, <3>4, <3>5, <1>0
    <3>7. \A g, h \in DOMAIN flows' : flows'[g].request = flows'[h].request => g = h
      BY <3>1, <3>2, <3>3, <1>0 DEF AgentInv, RequestInv
    <3> QED BY <3>4, <3>6, <3>7 DEF RequestInv, Moves
  <2> QED BY <2>4, <2>5
<1> QED BY <1>1, <1>2, <1>3, <1>4, <1>5 DEF AgentInv

-----------------------------------------------------------------------------
(* Running a flow.                                                         *)

\* What a run adds to a session leaves the rest as it was.
LEMMA SessionsGrow ==
    ASSUME TypeInv, SessionInv, NEW s \in DOMAIN sessions, NEW push \in Roles \cup {"none"},
           NEW f \in Nat, version # 0, version' = version, faults' = faults,
           sessions' = IF push = "none" THEN sessions
                       ELSE [sessions EXCEPT ![s].history = Append(@, <<push, f>>)]
    PROVE  Grown
<1>1. /\ DOMAIN sessions = 1 .. Len(sessions) /\ Len(sessions) \in Nat
      /\ \A r \in DOMAIN sessions : sessions[r] \in Session
  <2>1. sessions \in Seq(Session)
    BY DEF TypeInv
  <2>2. DOMAIN sessions = 1 .. Len(sessions) /\ Len(sessions) \in Nat
    BY <2>1, LenProperties
  <2> QED BY <2>1, <2>2, ElementOfSeq
<1>2. CASE push = "none"
  <2>1. sessions' = sessions
    BY <1>2
  <2>2. \A r \in DOMAIN sessions : Len(sessions[r].history) \in Nat
    BY <1>1 DEF Session
  <2>3. sessions' \in Seq(Session) /\ Len(sessions') <= MaxSessions
    BY <2>1 DEF TypeInv
  <2>4. \A r \in DOMAIN sessions : Len(sessions[r].history) <= Len(sessions'[r].history)
    BY <2>1, <2>2
  <2> QED BY <2>1, <2>3, <2>4 DEF Grown, SessionInv
<1>3. CASE push # "none"
  <2> DEFINE new == [sessions[s] EXCEPT !.history = Append(@, <<push, f>>)]
  <2>1. /\ sessions[s].history \in Seq(Roles \X Nat) /\ <<push, f>> \in Roles \X Nat
        /\ sessions[s].scenario \in Names
    BY <1>1, <1>3 DEF Session
  <2>2. /\ Append(sessions[s].history, <<push, f>>) \in Seq(Roles \X Nat)
        /\ Len(Append(sessions[s].history, <<push, f>>)) = Len(sessions[s].history) + 1
        /\ Len(sessions[s].history) \in Nat
    BY <2>1, AppendProperties, LenProperties
  <2>3. /\ new \in Session /\ new.scenario = sessions[s].scenario
        /\ Len(new.history) = Len(sessions[s].history) + 1
    BY <1>1, <2>2 DEF Session
  <2> HIDE DEF new
  <2>4. sessions' = [sessions EXCEPT ![s] = new]
    BY <1>3 DEF new
  <2>5. /\ sessions' \in Seq(Session) /\ Len(sessions') = Len(sessions)
        /\ DOMAIN sessions' = DOMAIN sessions
        /\ \A r \in DOMAIN sessions : sessions'[r] = IF r = s THEN new ELSE sessions[r]
    <3> DEFINE x == [sessions EXCEPT ![s] = new]
    <3>1. /\ x \in Seq(Session) /\ Len(x) = Len(sessions)
          /\ \A r \in 1 .. Len(sessions) : x[r] = IF r = s THEN new ELSE sessions[r]
      BY <1>1, <2>3, ExceptSeq DEF TypeInv
    <3> HIDE DEF x
    <3>2. DOMAIN x = DOMAIN sessions
      BY <3>1, <1>1, LenProperties
    <3>3. sessions' = x
      BY <2>4 DEF x
    <3> QED BY <3>1, <3>2, <3>3, <1>1
  <2>6. \A r \in DOMAIN sessions : Len(sessions[r].history) \in Nat
    BY <1>1 DEF Session
  <2>7. \A r \in DOMAIN sessions : Len(sessions[r].history) <= Len(sessions'[r].history)
    BY <2>2, <2>3, <2>5, <2>6
  <2>8. \A r \in DOMAIN sessions : sessions'[r].scenario = sessions[r].scenario
    BY <2>3, <2>5
  <2> QED BY <2>5, <2>7, <2>8 DEF Grown, TypeInv, SessionInv
<1> QED BY <1>2, <1>3

\* A run enters the call it waits for.
LEMMA RunCalls ==
    ASSUME AgentInv, NEW f, NEW fl, NEW t \in Seq(Segments), NEW after, Ran(f, fl, t, after),
           t # <<>>, t[1].op \in Plain1,
           f \in DOMAIN flows => flows[f].status # "asking"
    PROVE  /\ CallInv'
           /\ pendingClientCalls' \subseteq Nat \X Nat /\ nextAgentRequestId' \in Nat
<1> DEFINE seg == t[1]
<1>1. /\ after.status = "asking" <=> seg.op = "ask"
      /\ Put(f, after)
      /\ pendingClientCalls' = IF seg.op = "ask"
                               THEN pendingClientCalls \cup {<<nextAgentRequestId, f>>}
                               ELSE pendingClientCalls
      /\ nextAgentRequestId' = IdAfter(seg)
  <2>1. seg \in Segments
    OBVIOUS
  <2> QED BY <2>1, StatusIs DEF Ran
<1> HIDE DEF seg
<1>2. f \in Nat /\ nextAgentRequestId \in Nat /\ pendingClientCalls \subseteq Nat \X Nat
  BY <1>1, FlowsAre DEF Put, AgentInv, TypeInv
<1>3. CASE seg.op = "ask"
  <2>1. nextAgentRequestId' = nextAgentRequestId + 1
    BY <1>1, <1>3 DEF IdAfter
  <2>2. CallInv'
    BY <1>1, <1>3, <2>1, CallsAsk DEF AgentInv
  <2> QED BY <1>1, <1>2, <1>3, <2>1, <2>2
<1>4. CASE seg.op # "ask"
  <2>1. nextAgentRequestId' \in {nextAgentRequestId, nextAgentRequestId + 1}
    BY <1>1 DEF IdAfter
  <2>2. after.status = "asking" <=> f \in DOMAIN flows /\ flows[f].status = "asking"
    BY <1>1, <1>4
  <2>3. CallInv'
    BY <1>1, <1>4, <2>1, <2>2, CallsStay DEF AgentInv
  <2> QED BY <1>1, <1>2, <1>4, <2>1, <2>3
<1> QED BY <1>3, <1>4

\* A prompt's flow, old or new, runs its code t.
PromptRan(f, fl, t, after) ==
    /\ Ran(f, fl, t, after)
    /\ Leads(fl, t)
    /\ after.scenario \in NamesOf(version)
    /\ ~Has(fl.todo, {"start"}) => after.scenario = fl.scenario
    /\ ~Has(fl.todo, Branching) => t = fl.todo

\* A prompt's flow that runs takes a step of its code.
LEMMA PromptRuns ==
    ASSUME AgentInv, version # 0, NEW fl \in Flow, fl.todo # <<>>, Runs(fl),
           fl.session \in DOMAIN sessions, fl.scenario \in NamesOf(version),
           NEW f, NEW rest, RunOn(rest, f, fl), Place(f, rest)
    PROVE  \E t \in Seq(Segments) : \E after \in Flow : PromptRan(f, fl, t, after)
<1>1. version \in {1, 2} /\ sessions[fl.session].scenario \in NamesOf(version)
  BY DEF AgentInv, TypeInv, SessionInv
<1>2. PICK t : \E sc \in NamesOf(version) :
         /\ Branch(fl) = [fl EXCEPT !.scenario = sc, !.todo = t]
         /\ Leads(fl, t)
         /\ ~Has(fl.todo, {"start"}) => sc = fl.scenario
         /\ ~Has(fl.todo, Branching) => t = fl.todo
  BY <1>1, BranchIs
<1>3. PICK sc \in NamesOf(version) :
         /\ Branch(fl) = [fl EXCEPT !.scenario = sc, !.todo = t]
         /\ Leads(fl, t)
         /\ ~Has(fl.todo, {"start"}) => sc = fl.scenario
         /\ ~Has(fl.todo, Branching) => t = fl.todo
  BY <1>2
<1>4. t \in Seq(Segments) /\ t # <<>> /\ t[1].op \in Plain1 /\ sc \in Names
  BY <1>3 DEF Leads, NamesOf, Names
<1>5. \E after \in Flow : Ran(f, fl, t, after) /\ after.scenario = sc
  <2>1. TypeInv /\ t # <<>> /\ t[1].op \in Plain1
    BY <1>4 DEF AgentInv
  <2>2. Branch(fl) = Branched(fl, sc, t)
    BY <1>3 DEF Branched
  <2> QED BY <2>1, <2>2, <1>4, RunIs
<1> QED BY <1>3, <1>4, <1>5 DEF PromptRan

\* A prompt's flow that has run is in order.
LEMMA PromptRanOK ==
    ASSUME AgentInv, version # 0, NEW fl \in Flow, fl.kind = "prompt",
           fl.session \in DOMAIN sessions,
           NEW f, NEW t \in Seq(Segments), NEW after \in Flow, PromptRan(f, fl, t, after),
           version' = version, faults' = faults
    PROVE  Grown /\ FlowOK(after)'
<1> DEFINE r == Tail(t)
<1>1. /\ t # <<>> /\ t[1] \in Segments /\ t[1].op \in Plain1 /\ ~Has(t, {"start"})
      /\ Runs([fl EXCEPT !.todo = t])
  BY DEF PromptRan, Leads
<1>2. [fl EXCEPT !.todo = t].todo = t
  BY DEF Flow
<1>3. /\ Code(t) /\ ~Has(t, {"entries", "replay"})
      /\ version = 1 => ~Has(t, {"judgeV2", "loop", "sleep"})
      /\ version = 2 => ~Has(t, Owing)
      /\ NoIllegalCall /\ version = 2 => EndsIdle(t)
  BY <1>1, <1>2 DEF Runs
<1>4. /\ r \in Seq(Segments)
      /\ \A ops : Has(r, ops) => Has(t, ops)
      /\ r # <<>> => r[Len(r)] = t[Len(t)] /\ Len(t) > 1
      /\ r = <<>> => Len(t) = 1
      /\ Code(r)
      /\ \A ops : Once(t, ops) /\ t[1].op \in ops => ~Has(r, ops)
  BY <1>1, <1>3, TailIs
<1>5. /\ ~Has(r, {"entries", "replay"}) /\ ~Has(r, {"start"})
      /\ version = 1 => ~Has(r, {"judgeV2", "loop", "sleep"})
      /\ version = 2 => ~Has(r, Owing)
      /\ Has(r, Looking) => Has(t, Looking)
  BY <1>1, <1>3, <1>4
<1> HIDE DEF r
<1>6. NoIllegalCall /\ version = 2 /\ r # <<>> => EndsIdle(r)
  BY <1>3, <1>4 DEF EndsIdle
<1>7. /\ after.todo = r /\ after.session = fl.session /\ after.kind = "prompt"
      /\ after.status = StatusAfter(t[1], r) /\ after.scenario \in NamesOf(version)
  BY DEF PromptRan, Ran, r
<1>8. /\ after.status = "asking" <=> t[1].op = "ask"
      /\ after.status \notin Over => r # <<>>
  <2>1. /\ StatusAfter(t[1], r) = "asking" <=> t[1].op = "ask"
        /\ StatusAfter(t[1], r) = "sleeping" <=> t[1].op = "sleep"
        /\ StatusAfter(t[1], r) = "ready" => r # <<>>
        /\ StatusAfter(t[1], r) \in {"ready", "asking", "sleeping", "done"}
    BY <1>1, StatusIs
  <2>2. r = <<>> => t[1].op \notin {"ask", "sleep"}
    BY <1>1, <1>3, <1>4 DEF Code
  <2> QED BY <2>1, <2>2, <1>7 DEF Over
<1>9. after.status = "asking" /\ Has(r, Looking) => ~Has(r, {"ask"})
  <2>1. Has(t, Looking) => Once(t, {"ask"})
    BY <1>3 DEF Code
  <2>2. Once(t, {"ask"}) /\ t[1].op \in {"ask"} => ~Has(r, {"ask"})
    BY <1>4
  <2> QED BY <2>1, <2>2, <1>5, <1>8
<1>10. Grown
  <2>1. t[1].push \in Roles \cup {"none"}
    BY <1>1 DEF Segments
  <2>2. f \in Nat
    BY FlowsAre DEF PromptRan, Ran, Put, AgentInv
  <2>3. sessions' = IF t[1].push = "none" THEN sessions
                    ELSE [sessions EXCEPT ![fl.session].history = Append(@, <<t[1].push, f>>)]
    BY DEF PromptRan, Ran
  <2> QED BY <2>1, <2>2, <2>3, SessionsGrow DEF AgentInv
<1>11. after.session \in DOMAIN sessions'
  BY <1>7, <1>10 DEF Grown
<1>12. Runs(after)'
  BY <1>4, <1>5, <1>6, <1>7 DEF Runs, NoIllegalCall
<1> QED BY <1>5, <1>7, <1>8, <1>9, <1>10, <1>11, <1>12 DEF FlowOK

\* A replay's flow shows one entry more of the conversation, or it has shown
\* all of it, answers and is done.
ReplayRan(f, fl, after) ==
    LET shown == Len(sessions[fl.session].history) IN
    \E seg \in Segments :
        /\ seg.push = "none"
        /\ \/ /\ seg.op = "replay" /\ seg.what \in Updates
              /\ fl.count < shown
              /\ Ran(f, fl, <<seg, Goto("entries")>>, after)
              /\ after.todo = <<Goto("entries")>> /\ after.status = "ready"
              /\ after.count = fl.count + 1
           \/ /\ seg.op = "reply" /\ seg.what = "ok"
              /\ fl.count >= shown
              /\ Ran(f, fl, <<seg>>, after)
              /\ after.todo = <<>> /\ after.status = "done"
              /\ after.count = fl.count

\* A replay that runs shows an entry or answers.
LEMMA ReplayRuns ==
    ASSUME AgentInv, version # 0, NEW fl \in Flow, fl.kind = "replay",
           fl.todo = <<Goto("entries")>>,
           fl.session \in DOMAIN sessions, fl.scenario \in NamesOf(version),
           NEW f, NEW rest, RunOn(rest, f, fl), Place(f, rest)
    PROVE  \E after \in Flow : ReplayRan(f, fl, after) /\ after.scenario = fl.scenario
<1> DEFINE h == sessions[fl.session].history
           show == Segment("replay", EntryKind(h[fl.count + 1][1]), "none")
           end  == Reply("ok")
           entries == Goto("entries")
<1>1. h \in Seq(Roles \X Nat) /\ Len(h) \in Nat /\ fl.count \in Nat /\ DOMAIN h = 1 .. Len(h)
  <2>1. sessions[fl.session] \in Session
    BY DEF AgentInv, TypeInv
  <2>2. h \in Seq(Roles \X Nat)
    BY <2>1 DEF Session
  <2>3. fl.count \in Nat
    BY DEF Flow
  <2> HIDE DEF h
  <2> QED BY <2>2, <2>3, LenProperties
<1>2. /\ entries \in Segments /\ entries.op = "entries" /\ entries.what = "none"
      /\ end \in Segments /\ end.op = "reply" /\ end.what = "ok" /\ end.push = "none"
  BY DEF Goto, Reply, Segment, Segments, Plain1, Branching
<1>3. fl.count < Len(h) => /\ show \in Segments /\ show.op = "replay" /\ show.push = "none"
                           /\ show.what \in Updates
  <2> SUFFICES ASSUME fl.count < Len(h)
               PROVE  /\ show \in Segments /\ show.op = "replay" /\ show.push = "none"
                      /\ show.what \in Updates
    OBVIOUS
  <2>1. fl.count + 1 \in 1 .. Len(h)
    BY <1>1
  <2>2. h[fl.count + 1] \in Roles \X Nat
    BY <2>1, <1>1, ElementOfSeq
  <2> DEFINE kind == EntryKind(h[fl.count + 1][1])
  <2>3. kind \in Updates
    BY <2>2 DEF EntryKind, Roles, Updates
  <2> HIDE DEF kind
  <2>4. Segment("replay", kind, "none") \in Segments
    BY <2>3 DEF Segment, Segments, Plain1
  <2> QED BY <2>3, <2>4 DEF Segment, kind
<1>4. Branch(fl) = [fl EXCEPT !.todo = IF fl.count < Len(h) THEN <<show, entries>> ELSE <<end>>]
  <2>1. fl.todo[1].op = "entries"
    BY <1>2
  <2> QED BY <2>1 DEF Branch, ReplayLoop
<1> HIDE DEF h, show, end, entries
<1>5. \A t : Branched(fl, fl.scenario, t) = [fl EXCEPT !.todo = t]
  BY DEF Branched, Flow
<1>6. fl.scenario \in Names
  BY DEF Flow
<1>7. CASE fl.count < Len(h)
  <2> DEFINE t == <<show, entries>>
  <2>1. /\ t \in Seq(Segments) /\ t # <<>> /\ t[1] = show /\ Tail(t) = <<entries>>
        /\ t[1].op \in Plain1
    BY <1>2, <1>3, <1>7 DEF Plain1
  <2>2. Branch(fl) = Branched(fl, fl.scenario, t)
    BY <1>4, <1>5, <1>7
  <2> HIDE DEF t
  <2>3. PICK after \in Flow : Ran(f, fl, t, after) /\ after.scenario = fl.scenario
    BY <2>1, <2>2, <1>6, RunIs DEF AgentInv
  <2>4. after.todo = <<entries>> /\ after.status = "ready" /\ after.count = fl.count + 1
    <3>1. StatusAfter(show, <<entries>>) = "ready"
      BY <1>3, <1>7 DEF StatusAfter
    <3> QED BY <2>1, <2>3, <3>1, <1>3, <1>7 DEF Ran
  <2>5. ReplayRan(f, fl, after)
    BY <2>3, <2>4, <1>3, <1>7 DEF ReplayRan, t, entries, h
  <2> QED BY <2>3, <2>5
<1>8. CASE ~(fl.count < Len(h))
  <2> DEFINE t == <<end>>
  <2>1. /\ t \in Seq(Segments) /\ t # <<>> /\ t[1] = end /\ Tail(t) = <<>>
        /\ t[1].op \in Plain1
    BY <1>2 DEF Plain1
  <2>2. Branch(fl) = Branched(fl, fl.scenario, t)
    BY <1>4, <1>5, <1>8
  <2> HIDE DEF t
  <2>3. PICK after \in Flow : Ran(f, fl, t, after) /\ after.scenario = fl.scenario
    BY <2>1, <2>2, <1>6, RunIs DEF AgentInv
  <2>4. after.todo = <<>> /\ after.status = "done" /\ after.count = fl.count
    <3>1. StatusAfter(end, <<>>) = "done"
      BY <1>2 DEF StatusAfter
    <3> QED BY <2>1, <2>3, <3>1, <1>2 DEF Ran
  <2>5. fl.count >= Len(h)
    BY <1>1, <1>8
  <2>6. ReplayRan(f, fl, after)
    BY <2>3, <2>4, <2>5, <1>2 DEF ReplayRan, t, h
  <2> QED BY <2>3, <2>6
<1> QED BY <1>7, <1>8

\* After that the replay has shown no more than there is, and all of it when it is
\* done.
LEMMA ReplayRanOK ==
    ASSUME AgentInv, version # 0, NEW fl \in Flow, fl.kind = "replay",
           fl.session \in DOMAIN sessions, fl.scenario \in NamesOf(version),
           fl.count <= Len(sessions[fl.session].history),
           NEW f, NEW after \in Flow, ReplayRan(f, fl, after), after.scenario = fl.scenario,
           version' = version, faults' = faults
    PROVE  /\ Grown /\ FlowOK(after)' /\ sessions' = sessions
           /\ after.status = "done" => after.count = Len(sessions[fl.session].history)
<1> DEFINE h == sessions[fl.session].history
<1>1. PICK seg \in Segments :
         /\ seg.push = "none"
         /\ \/ /\ seg.op = "replay" /\ seg.what \in Updates
               /\ fl.count < Len(h)
               /\ Ran(f, fl, <<seg, Goto("entries")>>, after)
               /\ after.todo = <<Goto("entries")>> /\ after.status = "ready"
               /\ after.count = fl.count + 1
            \/ /\ seg.op = "reply" /\ seg.what = "ok"
               /\ fl.count >= Len(h)
               /\ Ran(f, fl, <<seg>>, after)
               /\ after.todo = <<>> /\ after.status = "done"
               /\ after.count = fl.count
  BY DEF ReplayRan
<1>2. Len(h) \in Nat /\ fl.count \in Nat
  <2>1. sessions[fl.session] \in Session
    BY DEF AgentInv, TypeInv
  <2>2. h \in Seq(Roles \X Nat)
    BY <2>1 DEF Session
  <2>3. fl.count \in Nat
    BY DEF Flow
  <2> HIDE DEF h
  <2> QED BY <2>2, <2>3, LenProperties
<1>3. sessions' = sessions /\ after.kind = fl.kind /\ after.session = fl.session
  BY <1>1 DEF Ran
<1>4. Grown
  <2>1. f \in Nat
    BY <1>1, FlowsAre DEF Ran, Put, AgentInv
  <2>2. sessions' = IF "none" = "none" THEN sessions
                    ELSE [sessions EXCEPT ![fl.session].history = Append(@, <<"none", f>>)]
    BY <1>3
  <2>3. "none" \in Roles \cup {"none"}
    OBVIOUS
  <2> QED BY <2>1, <2>2, <2>3, SessionsGrow DEF AgentInv
<1> HIDE DEF h
<1>5. /\ after.count <= Len(h)
      /\ after.status = "done" => after.count = Len(h)
      /\ after.status \in {"ready", "done"}
      /\ after.todo \in {<<>>, <<Goto("entries")>>}
      /\ after.status \notin Over => after.todo # <<>>
  <2>1. CASE fl.count < Len(h)
    <3>1. after.status = "ready" /\ after.count = fl.count + 1 /\ after.todo = <<Goto("entries")>>
      BY <1>1, <1>2, <2>1
    <3> QED BY <3>1, <1>2, <2>1
  <2>2. CASE ~(fl.count < Len(h))
    <3>1. after.status = "done" /\ after.count = fl.count /\ after.todo = <<>> /\ fl.count >= Len(h)
      BY <1>1, <1>2, <2>2
    <3>2. fl.count = Len(h)
      BY <3>1, <1>2 DEF h
    <3> QED BY <3>1, <3>2, <1>2 DEF Over
  <2> QED BY <2>1, <2>2
<1>6. Len(sessions'[after.session].history) = Len(h) /\ after.session \in DOMAIN sessions'
  BY <1>3 DEF h
<1>7. FlowOK(after)'
  BY <1>3, <1>5, <1>6, <1>4 DEF FlowOK, Grown
<1> QED BY <1>3, <1>4, <1>5, <1>7 DEF h

-----------------------------------------------------------------------------
(* What a run tells the client.                                            *)

\* A run emits one message, or none when the flow sleeps; it answers the
\* flow's request when the segment replies.
LEMMA EmittedIs ==
    ASSUME NEW seg \in Segments, seg.op \in Plain1, NEW fl
    PROVE  \/ seg.op = "sleep" /\ Emitted(fl, seg) = <<>>
           \/ \E m : /\ Emitted(fl, seg) = <<m>> /\ seg.op # "sleep"
                     /\ m.type = "response" <=> seg.op = "reply"
                     /\ seg.op = "reply" => m.id = fl.request
                     /\ seg.op \in {"say", "ask", "reply", "replay"} => m.kind = seg.what
                     /\ seg.op \in {"bad", "illegal"} => m.kind \notin Stops \cup States
<1>1. CASE seg.op \in {"say", "replay"}
  <2> DEFINE m == Event(seg.what, 0)
  <2>1. Emitted(fl, seg) = <<m>>
    BY <1>1 DEF Emitted
  <2>2. m.type = "event" /\ m.kind = seg.what
    BY DEF Event, Msg
  <2> QED BY <1>1, <2>1, <2>2
<1>2. CASE seg.op = "ask"
  <2> DEFINE m == Event(seg.what, nextAgentRequestId)
  <2>1. Emitted(fl, seg) = <<m>>
    BY <1>2 DEF Emitted
  <2>2. m.type = "event" /\ m.kind = seg.what
    BY DEF Event, Msg
  <2> QED BY <1>2, <2>1, <2>2
<1>3. CASE seg.op = "reply"
  <2> DEFINE m == [Response(fl.request, seg.what) EXCEPT !.valid = seg.what # "no_stop_reason"]
  <2>1. Emitted(fl, seg) = <<m>>
    BY <1>3 DEF Emitted
  <2>2. m.type = "response" /\ m.kind = seg.what /\ m.id = fl.request
    BY DEF Response, Msg
  <2> QED BY <1>3, <2>1, <2>2
<1>4. CASE seg.op = "bad"
  <2> DEFINE m == BadUpdate
  <2>1. Emitted(fl, seg) = <<m>>
    BY <1>4 DEF Emitted
  <2>2. m.type = "event" /\ m.kind = "bad_update"
    BY DEF BadUpdate, Msg
  <2> QED BY <1>4, <2>1, <2>2 DEF Stops, States
<1>5. CASE seg.op = "illegal"
  <2> DEFINE m == Msg("event", "fs/read_text_file", nextAgentRequestId, FALSE)
  <2>1. Emitted(fl, seg) = <<m>>
    BY <1>5 DEF Emitted
  <2>2. m.type = "event" /\ m.kind = "fs/read_text_file"
    BY DEF Msg
  <2> QED BY <1>5, <2>1, <2>2 DEF Stops, States
<1>6. CASE seg.op = "sleep"
  BY <1>6 DEF Emitted
<1> QED BY <1>1, <1>2, <1>3, <1>4, <1>5, <1>6 DEF Plain1

\* Flow f of session s told the client what segment seg says of the turn.
Told(f, s, seg) ==
    /\ \/ ended' = ended
       \/ seg.what \in Stops /\ ended' = [ended EXCEPT ![f] = seg.what]
    /\ \/ lastState' = lastState /\ ~(seg.op = "say" /\ seg.what \in States)
       \/ seg.what \in States /\ lastState' = [lastState EXCEPT ![s] = seg.what]

\* Nothing was told, nobody cancelled or rejected.
Silent == UNCHANGED <<ended, lastState, cancelAsked, cancelHeard, denied>>

\* FlowSays remembers what the segment told.
LEMMA SaysIs ==
    ASSUME TypeInv, NEW f, NEW s, NEW seg \in Segments, seg.op \in Plain1, NEW fl,
           FlowSays(f, s), out' = Emitted(fl, seg)
    PROVE  Told(f, s, seg)
<1> DEFINE said == {out'[i].kind : i \in DOMAIN out'}
           e == IF said \cap Stops = {} THEN ended[f] ELSE CHOOSE k \in said \cap Stops : TRUE
           l == IF said \cap States = {} THEN lastState[s] ELSE CHOOSE k \in said \cap States : TRUE
<1>1. ended' = [ended EXCEPT ![f] = e] /\ lastState' = [lastState EXCEPT ![s] = l]
  BY DEF FlowSays
<1>2. /\ [ended EXCEPT ![f] = ended[f]] = ended
      /\ [lastState EXCEPT ![s] = lastState[s]] = lastState
  BY DEF TypeInv
<1>3. CASE seg.op = "sleep"
  <2>1. out' = <<>>
    BY <1>3, EmittedIs
  <2>2. said = {}
    BY <2>1
  <2> QED BY <1>1, <1>2, <1>3, <2>2 DEF Told
<1>4. CASE seg.op # "sleep"
  <2>1. PICK m : /\ Emitted(fl, seg) = <<m>>
                 /\ seg.op \in {"say", "ask", "reply", "replay"} => m.kind = seg.what
                 /\ seg.op \in {"bad", "illegal"} => m.kind \notin Stops \cup States
    BY <1>4, EmittedIs
  <2>2. said = {m.kind}
    BY <2>1
  <2> HIDE DEF said
  <2>3. CASE seg.op \in {"bad", "illegal"}
    <3>1. e = ended[f] /\ l = lastState[s]
      BY <2>1, <2>2, <2>3
    <3> QED BY <1>1, <1>2, <2>3, <3>1 DEF Told
  <2>4. CASE seg.op \in {"say", "ask", "reply", "replay"}
    <3>1. said = {seg.what}
      BY <2>1, <2>2, <2>4
    <3>2. /\ seg.what \in Stops => e = seg.what
          /\ seg.what \notin Stops => e = ended[f]
          /\ seg.what \in States => l = seg.what
          /\ seg.what \notin States => l = lastState[s]
      BY <3>1
    <3> HIDE DEF e, l
    <3> QED BY <1>1, <1>2, <3>2 DEF Told
  <2> QED BY <1>4, <2>3, <2>4 DEF Plain1
<1> QED BY <1>3, <1>4

-----------------------------------------------------------------------------
(* The steps, as what they do to the flows.                                *)

\* A prompt's flow runs: one that was ready, or, in v1, a new one.
PromptMove(f, fl, t, after) ==
    /\ PromptRan(f, fl, t, after) /\ Moves(f, after)
    /\ fl \in Flow /\ fl.kind = "prompt" /\ t \in Seq(Segments) /\ after \in Flow
    /\ Told(f, fl.session, t[1])
    /\ UNCHANGED <<cancelAsked, cancelHeard, denied>>
    /\ \/ f \in DOMAIN flows /\ fl = flows[f] /\ fl.status = "ready"
       \/ f = Len(flows) + 1 /\ version = 1 /\ fl = PromptFlow(fl.session)

\* A new v2 prompt is answered, its flow waits for its turn.
PromptWaits(f, fl) ==
    /\ Moves(f, fl) /\ Silent
    /\ f = Len(flows) + 1 /\ version = 2 /\ fl = PromptFlow(fl.session)
    /\ out' = <<Response(NextId, "ok")>>

\* A replay, old or new, runs.
ReplayMove(f, fl, after) ==
    /\ ReplayRan(f, fl, after) /\ Moves(f, after) /\ Silent
    /\ fl.kind = "replay" /\ sessions' = sessions
    /\ after.status = "done" => after.count = Len(sessions[fl.session].history)
    /\ \/ f \in DOMAIN flows /\ fl = flows[f] /\ fl.status = "ready"
       \/ f = Len(flows) + 1 /\ fl = ReplayFlow(fl.session)

\* A sleeping flow wakes.
WakeMove(f) ==
    /\ f \in DOMAIN flows /\ flows[f].status = "sleeping"
    /\ Moves(f, [flows[f] EXCEPT !.status = "ready"]) /\ Silent
    /\ out' = <<>>

\* A cancel reaches the flow of the session's latest prompt.
CancelMove(f, s) ==
    /\ f \in DOMAIN flows /\ f = promptContexts[s] /\ s \in SessionIds
    /\ Moves(f, [flows[f] EXCEPT !.cancelled = TRUE])
    /\ cancelAsked' = cancelAsked \cup Running(s)
    /\ cancelHeard' = cancelHeard \cup
          {g \in Running(s) : WillLook(g) /\ g = promptContexts[s]}
    /\ UNCHANGED <<ended, lastState, denied>>
    /\ out' = <<>>

\* The client's answer a to a call reaches the flow that waits for it.
AnswerMove(f, a, fl) ==
    /\ f \in DOMAIN flows /\ flows[f].status = "asking"
    /\ \/ a = "invalid" /\ fl = [flows[f] EXCEPT !.status = "thrown"]
       \/ fl = [flows[f] EXCEPT !.status = "ready", !.answer = a]
    /\ Moves(f, fl)
    /\ denied' = IF WillLook(f) /\ a = "reject" THEN denied \cup {f} ELSE denied
    /\ UNCHANGED <<ended, lastState, cancelAsked, cancelHeard>>
    /\ out' = <<>>

\* The agent is closed: the flows that wait throw.
EndMove ==
    /\ Counts /\ Silent
    /\ flows' = [f \in DOMAIN flows |->
                   IF flows[f].status = "asking"
                   THEN [flows[f] EXCEPT !.status = "thrown"] ELSE flows[f]]
    /\ pendingClientCalls' = {} /\ pendingSlowCalls' = {}
    /\ out' = <<>>
    /\ UNCHANGED <<faults, version, sessions, promptContexts, nextAgentRequestId>>

\* The version is agreed on, before there is anything else.
StartMove ==
    /\ Counts /\ Silent
    /\ version = 0 /\ version' \in {1, 2} /\ done'.initialize >= 1
    /\ flows = <<>> /\ sessions = <<>>
    /\ out' = <<Response(NextId, "ok")>> /\ NextId' = NextId + 1
    /\ UNCHANGED <<faults, sessions, promptContexts, flows, pendingClientCalls,
                   pendingSlowCalls, nextAgentRequestId>>

\* A calm step answers a request it counts, or a slow call it ends.
CalmSays ==
    \/ out' = <<>>
    \/ \E m : /\ out' = <<m>>
              /\ m.type = "response" =>
                   \/ m.id = 0
                   \/ m.id = NextId /\ NextId' = NextId + 1 /\ NextId \notin pendingSlowCalls'
                   \/ m.id \in pendingSlowCalls /\ m.id \notin pendingSlowCalls'

\* A step that counts nothing.
LEMMA Uncounted ==
    ASSUME AgentInv, UNCHANGED <<workload, done>>, CountAnswers,
           out' = <<>> \/ \E m : out' = <<m>>
    PROVE  Counts /\ NextId' = NextId
<1>1. \A k \in Kinds : done[k] \in Nat /\ done[k] <= workload[k]
  BY DEF AgentInv, TypeInv, CountInv
<1>2. NextId \in Nat /\ NextId' = NextId
  <2>1. NextId \in Nat
    BY NextIdIs DEF AgentInv
  <2>2. NextId' = NextId
    BY DEF NextId, Total
  <2> QED BY <2>1, <2>2
<1>3. \A k \in Kinds : done[k] <= done[k]
  BY <1>1
<1> QED BY <1>1, <1>2, <1>3 DEF Counts, AgentInv, TypeInv

\* A flow that ran emitted one message at most.
LEMMA RanSpeaks ==
    ASSUME NEW f, NEW fl, NEW t \in Seq(Segments), t # <<>>, t[1].op \in Plain1, NEW after,
           Ran(f, fl, t, after)
    PROVE  /\ t[1] \in Segments
           /\ out' = Emitted(fl, t[1])
           /\ out' = <<>> \/ \E m : out' = <<m>>
<1>1. t[1] \in Segments
  OBVIOUS
<1> QED BY <1>1, EmittedIs DEF Ran

\* A replay's step is a step of a flow that tells nothing about turns.
LEMMA ReplayRanIs ==
    ASSUME NEW f, NEW fl, NEW after, ReplayRan(f, fl, after)
    PROVE  \E t \in Seq(Segments) :
              /\ t # <<>> /\ t[1].op \in {"replay", "reply"} /\ t[1].op \in Plain1
              /\ t[1].what \notin Stops \cup States
              /\ Ran(f, fl, t, after)
<1>1. PICK seg \in Segments :
         /\ seg.op \in {"replay", "reply"} /\ seg.what \in Updates \cup {"ok"}
         /\ \/ Ran(f, fl, <<seg, Goto("entries")>>, after)
            \/ Ran(f, fl, <<seg>>, after)
  BY DEF ReplayRan
<1>2. Goto("entries") \in Segments
  BY DEF Goto, Segment, Segments, Branching
<1>3. \A w \in Updates \cup {"ok"} : w \notin Stops \cup States
  BY DEF Updates, Stops, States
<1>4. seg.op \in Plain1 /\ seg.what \notin Stops \cup States
  BY <1>1, <1>3 DEF Plain1
<1>5. CASE Ran(f, fl, <<seg>>, after)
  <2> DEFINE t == <<seg>>
  <2>1. t \in Seq(Segments) /\ t # <<>> /\ t[1] = seg
    OBVIOUS
  <2>2. Ran(f, fl, t, after)
    BY <1>5
  <2> HIDE DEF t
  <2> QED BY <1>1, <1>4, <2>1, <2>2
<1>6. CASE Ran(f, fl, <<seg, Goto("entries")>>, after)
  <2> DEFINE t == <<seg, Goto("entries")>>
  <2>1. t \in Seq(Segments) /\ t # <<>> /\ t[1] = seg
    BY <1>2
  <2>2. Ran(f, fl, t, after)
    BY <1>6
  <2> HIDE DEF t
  <2> QED BY <1>1, <1>4, <2>1, <2>2
<1> QED BY <1>1, <1>5, <1>6

\* A flow that continues is a prompt's or a replay's.
LEMMA ContinueIs ==
    ASSUME AgentInv, NEW f \in DOMAIN flows, FlowRuns(f)
    PROVE  /\ AgentInv'
           /\ \/ \E t, after : PromptMove(f, flows[f], t, after)
              \/ \E after : ReplayMove(f, flows[f], after)
<1> DEFINE fl == flows[f]
           rest == SubSeq(flows, 1, f - 1)
<1>1. fl \in Flow /\ FlowOK(fl)
  BY FlowsAre DEF AgentInv, FlowInv
<1>2. /\ fl.status = "ready" /\ RunOn(rest, f, fl) /\ Place(f, rest)
      /\ UNCHANGED <<lifeVars, version, promptContexts, pendingSlowCalls>>
      /\ FlowSays(f, fl.session)
      /\ UNCHANGED <<workload, done>>
  BY DEF FlowRuns, Continue, Run, Place
<1>3. version # 0
  <2>1. version = 0 => DOMAIN flows = {}
    BY DEF AgentInv, CountInv
  <2> QED BY <2>1
<1>4. /\ fl.todo # <<>> /\ fl.session \in DOMAIN sessions /\ fl.scenario \in NamesOf(version)
      /\ faults' = faults /\ CountAnswers
  BY <1>1, <1>2 DEF FlowOK, Over, lifeVars, startVars, FlowSays
<1> HIDE DEF fl, rest
<1>5. CASE fl.kind = "prompt"
  <2>1. Runs(fl)
    BY <1>1, <1>5 DEF FlowOK
  <2>2. PICK t \in Seq(Segments), after \in Flow : PromptRan(f, fl, t, after)
    <3>1. \E t \in Seq(Segments) : \E after \in Flow : PromptRan(f, fl, t, after)
      BY <1>1, <1>2, <1>3, <1>4, <2>1, PromptRuns
    <3> QED BY <3>1
  <2>3. Ran(f, fl, t, after) /\ t # <<>> /\ t[1].op \in Plain1
    BY <2>2 DEF PromptRan, Leads
  <2>4. /\ t[1] \in Segments /\ out' = Emitted(fl, t[1])
        /\ out' = <<>> \/ \E m : out' = <<m>>
    BY <2>3, RanSpeaks
  <2>5. Told(f, fl.session, t[1])
    BY <1>2, <2>3, <2>4, SaysIs DEF AgentInv
  <2>6. Counts
    BY <1>2, <1>4, <2>4, Uncounted
  <2>7. Grown /\ FlowOK(after)'
    BY <1>1, <1>2, <1>3, <1>4, <1>5, <2>2, PromptRanOK
  <2>8. /\ CallInv' /\ pendingClientCalls' \subseteq Nat \X Nat /\ nextAgentRequestId' \in Nat
    <3>1. flows[f].status # "asking"
      BY <1>2 DEF fl
    <3> QED BY <2>3, <3>1, RunCalls
  <2>9. Moves(f, after)
    <3>1. Put(f, after) /\ after.kind = fl.kind /\ after.request = fl.request /\ after.session = fl.session
      BY <2>3 DEF Ran
    <3>2. UNCHANGED <<promptContexts, pendingSlowCalls, cancelAsked, cancelHeard, denied>>
      BY <1>2 DEF FlowSays
    <3>3. DOMAIN flows \subseteq DOMAIN flows'
      BY <3>1, PutDomain DEF AgentInv, TypeInv
    <3>4. \/ ended' = ended
          \/ \E word \in Stops : ended' = [ended EXCEPT ![f] = word]
      BY <2>5 DEF Told
    <3>5. \/ lastState' = lastState
          \/ \E word \in States : lastState' = [lastState EXCEPT ![after.session] = word]
      BY <2>5, <3>1 DEF Told
    <3> QED BY <2>6, <2>7, <3>1, <3>2, <3>3, <3>4, <3>5 DEF Moves, AgentInv, TypeInv, fl
  <2>10. AgentInv'
    BY <2>7, <2>8, <2>9, MovesKeeps
  <2>11. PromptMove(f, fl, t, after)
    BY <1>1, <1>2, <1>5, <2>2, <2>5, <2>9 DEF PromptMove, FlowSays, fl
  <2> QED BY <2>10, <2>11 DEF fl
<1>6. CASE fl.kind = "replay"
  <2>1. fl.todo = <<Goto("entries")>> /\ fl.count <= Len(sessions[fl.session].history)
    BY <1>1, <1>4, <1>6 DEF FlowOK
  <2>2. PICK after \in Flow : ReplayRan(f, fl, after) /\ after.scenario = fl.scenario
    BY <1>1, <1>2, <1>3, <1>4, <1>6, <2>1, ReplayRuns
  <2>3. /\ Grown /\ FlowOK(after)' /\ sessions' = sessions
        /\ after.status = "done" => after.count = Len(sessions[fl.session].history)
    BY <1>1, <1>2, <1>3, <1>4, <1>6, <2>1, <2>2, ReplayRanOK
  <2>4. PICK t \in Seq(Segments) :
           /\ t # <<>> /\ t[1].op \in {"replay", "reply"} /\ t[1].op \in Plain1
           /\ t[1].what \notin Stops \cup States
           /\ Ran(f, fl, t, after)
    BY <2>2, ReplayRanIs
  <2>5. /\ t[1] \in Segments /\ out' = Emitted(fl, t[1])
        /\ out' = <<>> \/ \E m : out' = <<m>>
    BY <2>4, RanSpeaks
  <2>6. Silent
    <3>1. Told(f, fl.session, t[1])
      BY <1>2, <2>4, <2>5, SaysIs DEF AgentInv
    <3>2. UNCHANGED <<cancelAsked, cancelHeard, denied>>
      BY <1>2 DEF FlowSays
    <3> QED BY <2>4, <3>1, <3>2 DEF Told, Silent
  <2>7. Counts
    BY <1>2, <1>4, <2>5, Uncounted
  <2>8. /\ CallInv' /\ pendingClientCalls' \subseteq Nat \X Nat /\ nextAgentRequestId' \in Nat
    <3>1. flows[f].status # "asking"
      BY <1>2 DEF fl
    <3> QED BY <2>4, <3>1, RunCalls
  <2>9. Moves(f, after)
    <3>1. Put(f, after) /\ after.kind = fl.kind /\ after.request = fl.request /\ after.session = fl.session
      BY <2>4 DEF Ran
    <3>2. UNCHANGED <<promptContexts, pendingSlowCalls>>
      BY <1>2
    <3>3. DOMAIN flows \subseteq DOMAIN flows'
      BY <3>1, PutDomain DEF AgentInv, TypeInv
    <3> QED BY <2>3, <2>6, <2>7, <3>1, <3>2, <3>3 DEF Moves, AgentInv, TypeInv, Silent, fl
  <2>10. AgentInv'
    BY <2>3, <2>8, <2>9, MovesKeeps
  <2>11. ReplayMove(f, fl, after)
    BY <1>2, <1>6, <2>2, <2>3, <2>6, <2>9 DEF ReplayMove, fl
  <2> QED BY <2>10, <2>11 DEF fl
<1> QED BY <1>1, <1>5, <1>6 DEF Flow

\* The session's types do not change when its sessions do not.
LEMMA SameGrows ==
    ASSUME AgentInv, UNCHANGED <<faults, version, sessions>>
    PROVE  Grown
<1>1. \A s \in DOMAIN sessions : Len(sessions[s].history) \in Nat
  <2>1. sessions \in Seq(Session)
    BY DEF AgentInv, TypeInv
  <2>2. \A s \in DOMAIN sessions : sessions[s] \in Session
    BY <2>1
  <2> QED BY <2>2 DEF Session
<1>2. \A s \in DOMAIN sessions : Len(sessions[s].history) <= Len(sessions'[s].history)
  BY <1>1
<1> QED BY <1>2 DEF Grown, AgentInv, TypeInv, SessionInv

\* What stays when only f's status, answer or flag changes.
LEMMA TouchKeeps ==
    ASSUME AgentInv, Counts, NEW f \in DOMAIN flows, NEW fl \in Flow, Put(f, fl),
           fl.kind = flows[f].kind, fl.request = flows[f].request,
           fl.session = flows[f].session, FlowOK(fl),
           CallInv', pendingClientCalls' \subseteq Nat \X Nat,
           UNCHANGED <<faults, version, sessions, promptContexts, pendingSlowCalls,
                       nextAgentRequestId, ended, lastState>>,
           cancelAsked' \subseteq DOMAIN flows, cancelHeard' \subseteq DOMAIN flows,
           denied' \subseteq DOMAIN flows
    PROVE  AgentInv' /\ Moves(f, fl)
<1>1. Grown
  BY SameGrows
<1>2. FlowOK(fl)'
  BY <1>1, FlowStays DEF AgentInv
<1>3. DOMAIN flows' = DOMAIN flows
  <2>1. DOMAIN flows' = DOMAIN flows \cup {f}
    BY PutDomain DEF AgentInv, TypeInv
  <2> QED BY <2>1
<1>4. Moves(f, fl)
  BY <1>1, <1>3 DEF Moves
<1>5. AgentInv'
  <2>1. nextAgentRequestId' \in Nat
    BY DEF AgentInv, TypeInv
  <2> QED BY <2>1, <1>2, <1>4, MovesKeeps
<1> QED BY <1>4, <1>5

\* sleep(20) is over: the flow is ready, nothing else changed.
LEMMA WakeIs ==
    ASSUME AgentInv, NEW f \in DOMAIN flows, FlowWakes(f)
    PROVE  AgentInv' /\ WakeMove(f)
<1> DEFINE fl == [flows[f] EXCEPT !.status = "ready"]
<1>1. flows[f] \in Flow /\ FlowOK(flows[f]) /\ flows[f].status = "sleeping"
  BY FlowsAre DEF AgentInv, FlowInv, FlowWakes, Wake
<1>2. /\ fl \in Flow /\ fl.kind = flows[f].kind /\ fl.request = flows[f].request
      /\ fl.session = flows[f].session /\ fl.status = "ready" /\ fl.todo = flows[f].todo
      /\ fl.scenario = flows[f].scenario /\ fl.count = flows[f].count
  BY <1>1 DEF Flow
<1>3. FlowOK(fl)
  <2>1. flows[f].kind = "prompt"
    BY <1>1 DEF FlowOK, Flow
  <2> HIDE DEF fl
  <2> QED BY <1>1, <1>2, <2>1 DEF FlowOK, Runs, Over
<1>4. Put(f, fl)
  <2>1. flows' = [flows EXCEPT ![f] = fl]
    BY DEF FlowWakes, Wake
  <2> HIDE DEF fl
  <2> QED BY <1>2, <2>1, PutChanged DEF AgentInv, TypeInv
<1> HIDE DEF fl
<1>5. CallInv'
  BY <1>1, <1>2, <1>4, CallsStay DEF AgentInv, FlowWakes, Wake
<1>6. /\ UNCHANGED <<faults, version, sessions, promptContexts, pendingClientCalls,
                     pendingSlowCalls, nextAgentRequestId>>
      /\ Silent /\ out' = <<>> /\ CountAnswers /\ UNCHANGED <<workload, done>>
  BY DEF FlowWakes, Wake, lifeVars, startVars, Plain, Untold, Silent
<1>7. Counts
  BY <1>6, Uncounted
<1>8. AgentInv' /\ Moves(f, fl)
  <2>1. /\ cancelAsked' \subseteq DOMAIN flows /\ cancelHeard' \subseteq DOMAIN flows
        /\ denied' \subseteq DOMAIN flows /\ pendingClientCalls' \subseteq Nat \X Nat
        /\ UNCHANGED <<ended, lastState>>
    BY <1>6 DEF AgentInv, TypeInv, Silent
  <2> QED BY <2>1, <1>2, <1>3, <1>4, <1>5, <1>6, <1>7, TouchKeeps
<1> QED BY <1>1, <1>6, <1>8 DEF WakeMove, fl

\* A slow call's timer answers the call.
LEMMA TimerIs ==
    ASSUME AgentInv, NEW id \in pendingSlowCalls, TimerRuns(id)
    PROVE  Calm /\ CalmSays
<1>1. /\ UNCHANGED <<faults, version, sessions, promptContexts, flows, pendingClientCalls,
                     nextAgentRequestId>>
      /\ Silent /\ out' = <<Response(id, "ok")>> /\ CountAnswers /\ UNCHANGED <<workload, done>>
      /\ pendingSlowCalls' = pendingSlowCalls \ {id}
  BY DEF TimerRuns, SlowDone, lifeVars, startVars, flowVars, Plain, Untold, Silent
<1>2. Counts
  BY <1>1, Uncounted
<1>3. Grown
  BY <1>1, SameGrows
<1>4. NextId \notin pendingSlowCalls'
  BY <1>1, <1>2 DEF AgentInv, RequestInv, Counts
<1>5. Calm
  BY <1>1, <1>2, <1>3, <1>4 DEF Calm, AgentInv, TypeInv, Silent
<1>6. CalmSays
  <2>1. Response(id, "ok").id = id
    BY DEF Response, Msg
  <2> QED BY <1>1, <2>1 DEF CalmSays
<1> QED BY <1>5, <1>6

-----------------------------------------------------------------------------
(* The client's steps.                                                     *)

\* A step of the client that counts k and emits one message at most.
LEMMA CountedIs ==
    ASSUME AgentInv, NEW k \in Kinds, Count(k), CountAnswers,
           out' = <<>> \/ \E m : out' = <<m>>
    PROVE  /\ Counts
           /\ NextId' = IF k \in Requests THEN NextId + 1 ELSE NextId
           /\ \A j \in Kinds : done'[j] = IF j = k THEN done[j] + 1 ELSE done[j]
<1>1. /\ workload' = workload
      /\ done' \in [Kinds -> Nat]
      /\ \A j \in Kinds : done'[j] = IF j = k THEN done[j] + 1 ELSE done[j]
      /\ \A j \in Kinds : done'[j] <= workload[j]
      /\ NextId \in Nat
      /\ NextId' = IF k \in Requests THEN NextId + 1 ELSE NextId
  BY Counted DEF AgentInv
<1>2. \A j \in Kinds : done[j] \in Nat
  BY DEF AgentInv, TypeInv
<1>3. \A j \in Kinds : done[j] <= done'[j] /\ done'[j] <= workload[j]
  BY <1>1, <1>2
<1> QED BY <1>1, <1>3 DEF Counts

\* The number of the next request is not in use.
LEMMA NextIdIsNew ==
    ASSUME AgentInv
    PROVE  NextId \in Nat /\ NextId \notin pendingSlowCalls
<1>1. NextId \in Nat
  BY NextIdIs DEF AgentInv
<1> QED BY <1>1 DEF AgentInv, RequestInv

\* A request that is answered and changes nothing.
LEMMA AnsweredIs ==
    ASSUME AgentInv, NEW k \in Requests, Count(k), CountAnswers, Silent, Answered(NextId)
    PROVE  Calm /\ CalmSays
<1>1. PICK r : Emit(<<Response(NextId, r)>>)
  BY DEF Answered
<1>2. /\ out' = <<Response(NextId, r)>>
      /\ UNCHANGED <<faults, version, sessions, promptContexts, flows, pendingClientCalls,
                     pendingSlowCalls, nextAgentRequestId>>
  BY <1>1 DEF Emit, lifeVars, startVars, flowVars
<1>3. k \in Kinds
  BY DEF Kinds
<1>4. Counts /\ NextId' = NextId + 1
  BY <1>2, <1>3, CountedIs
<1>5. Grown
  BY <1>2, SameGrows
<1>6. NextId \notin pendingSlowCalls'
  BY <1>2, NextIdIsNew
<1>7. Calm
  BY <1>2, <1>4, <1>5, <1>6 DEF Calm, Silent, AgentInv, TypeInv
<1>8. Response(NextId, r).id = NextId
  BY DEF Response, Msg
<1> QED BY <1>2, <1>4, <1>6, <1>7, <1>8 DEF CalmSays

\* initialize comes first, and once.
LEMMA InitializeIs ==
    ASSUME AgentInv, SendInitialize
    PROVE  StartMove
<1>1. /\ Count("initialize") /\ Plain /\ version' \in {1, 2}
      /\ out' = <<Response(NextId, "ok")>>
      /\ UNCHANGED <<lifeVars, flowVars, sessions, promptContexts, pendingSlowCalls>>
  BY InitializeStep
<1>2. "initialize" \in Requests /\ "initialize" \in Kinds
  BY DEF Requests, Kinds
<1>3. /\ Counts /\ NextId' = NextId + 1
      /\ done'.initialize = done.initialize + 1
  BY <1>1, <1>2, CountedIs DEF Plain
<1>4. done.initialize = 0
  <2>1. workload.initialize <= 1 /\ workload.initialize \in Nat
    BY <1>2, ClientAssumption DEF AgentInv, TypeInv
  <2>2. done.initialize \in Nat /\ done.initialize < workload.initialize
    BY <1>1, <1>2 DEF AgentInv, TypeInv, Count
  <2> QED BY <2>1, <2>2
<1>5. version = 0 /\ flows = <<>> /\ sessions = <<>>
  BY <1>4 DEF AgentInv, CountInv
<1>6. done'.initialize >= 1
  BY <1>3, <1>4
<1>7. Silent
  BY <1>1 DEF Plain, Untold, Silent
<1> QED BY <1>1, <1>3, <1>5, <1>6, <1>7 DEF StartMove, lifeVars, startVars, flowVars

\* session/new adds a session in front of no one.
LEMMA NewIs ==
    ASSUME AgentInv, SendNew
    PROVE  Calm /\ CalmSays
<1>1. Count("new") /\ Plain /\ "new" \in Requests /\ "new" \in Kinds
  BY NewStep DEF Requests, Kinds
<1>2. CountAnswers /\ Silent
  BY <1>1 DEF Plain, Untold, Silent
<1>3. CASE Answered(NextId)
  BY <1>1, <1>2, <1>3, AnsweredIs
<1>4. CASE /\ version # 0 /\ Len(sessions) < MaxSessions
           /\ sessions' = Append(sessions, [history |-> <<>>, scenario |-> "none"])
           /\ out' = SessionNewResult(NextId)
           /\ UNCHANGED <<lifeVars, flowVars, version, promptContexts, pendingSlowCalls>>
  <2> DEFINE new == [history |-> <<>>, scenario |-> "none"]
  <2>1. UNCHANGED <<faults, version, promptContexts, flows, pendingClientCalls,
                    pendingSlowCalls, nextAgentRequestId>>
    BY <1>4 DEF lifeVars, startVars, flowVars
  <2>2. out' = <<>> \/ \E m : out' = <<m>> /\ m.id = NextId
    <3>1. \A r : Response(NextId, r).id = NextId
      BY DEF Response, Msg
    <3>2. \A k : Msg("response", k, NextId, FALSE).id = NextId
      BY DEF Msg
    <3> QED BY <1>4, <3>1, <3>2 DEF SessionNewResult
  <2>3. Counts /\ NextId' = NextId + 1
    BY <1>1, <1>2, <2>2, CountedIs
  <2>4. new \in Session /\ new.scenario = "none"
    BY DEF Session, Names
  <2> HIDE DEF new
  <2>5. /\ sessions \in Seq(Session) /\ Len(sessions) \in Nat
        /\ DOMAIN sessions = 1 .. Len(sessions)
    BY LenProperties DEF AgentInv, TypeInv
  <2>6. sessions' = Append(sessions, new)
    BY <1>4 DEF new
  <2>7. /\ sessions' \in Seq(Session) /\ Len(sessions') = Len(sessions) + 1
        /\ \A s \in 1 .. Len(sessions) : sessions'[s] = sessions[s]
        /\ sessions'[Len(sessions) + 1] = new
    BY <2>4, <2>5, <2>6, AppendProperties
  <2>8. DOMAIN sessions' = 1 .. Len(sessions) + 1 /\ Len(sessions') <= MaxSessions
    BY <1>4, <2>5, <2>7, LenProperties, AgentAssumption
  <2>9. \A s \in DOMAIN sessions : Len(sessions[s].history) <= Len(sessions'[s].history)
    <3> TAKE s \in DOMAIN sessions
    <3>1. sessions[s] \in Session /\ sessions'[s] = sessions[s]
      BY <2>5, <2>7, ElementOfSeq
    <3>2. Len(sessions[s].history) \in Nat
      BY <3>1 DEF Session
    <3> QED BY <3>1, <3>2
  <2>10. \A s \in DOMAIN sessions' : sessions'[s].scenario \in NamesOf(version)
    <3> TAKE s \in DOMAIN sessions'
    <3>1. s \in DOMAIN sessions \/ s = Len(sessions) + 1
      BY <2>5, <2>8
    <3>2. CASE s \in DOMAIN sessions
      BY <3>2, <2>5, <2>7 DEF AgentInv, SessionInv
    <3>3. CASE s = Len(sessions) + 1
      BY <3>3, <2>4, <2>7 DEF NamesOf
    <3> QED BY <3>1, <3>2, <3>3
  <2>11. Grown
    <3>1. DOMAIN sessions \subseteq DOMAIN sessions'
      BY <2>5, <2>8
    <3> QED BY <1>4, <2>1, <2>7, <2>8, <2>9, <2>10, <3>1 DEF Grown
  <2>12. NextId \notin pendingSlowCalls'
    BY <2>1, NextIdIsNew
  <2>13. Calm
    BY <1>2, <2>1, <2>3, <2>11, <2>12 DEF Calm, Silent, AgentInv, TypeInv
  <2> QED BY <2>2, <2>3, <2>12, <2>13 DEF CalmSays
<1> QED BY <1>3, <1>4, NewStep

\* A scenario is one of the version spoken.
LEMMA ScenarioIs ==
    ASSUME AgentInv, SendScenario
    PROVE  Calm /\ CalmSays
<1>1. Count("scenario") /\ Plain /\ "scenario" \in Requests /\ "scenario" \in Kinds /\ version # 0
  BY ScenarioStep DEF Requests, Kinds
<1>2. CountAnswers /\ Silent
  BY <1>1 DEF Plain, Untold, Silent
<1>3. CASE Answered(NextId)
  BY <1>1, <1>2, <1>3, AnsweredIs
<1>4. ASSUME NEW s \in SomeSession, NEW c \in Scenarios[version], Known(s),
             sessions' = [sessions EXCEPT ![s].scenario = c],
             out' = <<Response(NextId, "ok")>>,
             UNCHANGED <<lifeVars, flowVars, version, promptContexts, pendingSlowCalls>>
      PROVE  Calm /\ CalmSays
  <2> DEFINE new == [sessions[s] EXCEPT !.scenario = c]
  <2>1. UNCHANGED <<faults, version, promptContexts, flows, pendingClientCalls,
                    pendingSlowCalls, nextAgentRequestId>>
    BY <1>4 DEF lifeVars, startVars, flowVars
  <2>2. Counts /\ NextId' = NextId + 1
    BY <1>1, <1>2, <1>4, CountedIs
  <2>3. /\ sessions \in Seq(Session) /\ Len(sessions) \in Nat
        /\ DOMAIN sessions = 1 .. Len(sessions)
        /\ Len(sessions) <= MaxSessions
        /\ \A r \in DOMAIN sessions : sessions[r] \in Session
    <3>1. sessions \in Seq(Session) /\ Len(sessions) <= MaxSessions
      BY DEF AgentInv, TypeInv
    <3>2. DOMAIN sessions = 1 .. Len(sessions) /\ Len(sessions) \in Nat
      BY <3>1, LenProperties
    <3> QED BY <3>1, <3>2, ElementOfSeq
  <2>4. c \in NamesOf(version) /\ c \in Names
    <3>1. version \in {1, 2}
      BY <1>1 DEF AgentInv, TypeInv
    <3> QED BY <3>1, ClientAssumption DEF NamesOf, Names, Scenario1, Scenario2
  <2>5. /\ s \in DOMAIN sessions /\ new \in Session /\ new.scenario = c
        /\ new.history = sessions[s].history
    BY <1>4, <2>3, <2>4 DEF Known, Session
  <2> HIDE DEF new
  <2>6. sessions' = [sessions EXCEPT ![s] = new]
    BY <1>4 DEF new
  <2>7. /\ sessions' \in Seq(Session) /\ Len(sessions') = Len(sessions)
        /\ DOMAIN sessions' = DOMAIN sessions
        /\ \A r \in DOMAIN sessions : sessions'[r] = IF r = s THEN new ELSE sessions[r]
    <3> DEFINE x == [sessions EXCEPT ![s] = new]
    <3>1. /\ x \in Seq(Session) /\ Len(x) = Len(sessions)
          /\ \A r \in 1 .. Len(sessions) : x[r] = IF r = s THEN new ELSE sessions[r]
      BY <2>3, <2>5, ExceptSeq
    <3> HIDE DEF x
    <3>2. DOMAIN x = DOMAIN sessions
      BY <3>1, <2>3, LenProperties
    <3>3. sessions' = x
      BY <2>6 DEF x
    <3> QED BY <3>1, <3>2, <3>3, <2>3
  <2>8. \A r \in DOMAIN sessions : Len(sessions[r].history) <= Len(sessions'[r].history)
    <3> TAKE r \in DOMAIN sessions
    <3>1. sessions'[r].history = sessions[r].history
      BY <2>5, <2>7
    <3>2. Len(sessions[r].history) \in Nat
      BY <2>3 DEF Session
    <3> QED BY <3>1, <3>2
  <2>9. \A r \in DOMAIN sessions' : sessions'[r].scenario \in NamesOf(version)
    BY <2>4, <2>5, <2>7 DEF AgentInv, SessionInv
  <2>10. Grown
    BY <1>1, <2>1, <2>3, <2>7, <2>8, <2>9 DEF Grown
  <2>11. NextId \notin pendingSlowCalls'
    BY <2>1, NextIdIsNew
  <2>12. Calm
    BY <1>2, <2>1, <2>2, <2>10, <2>11 DEF Calm, Silent, AgentInv, TypeInv
  <2>13. Response(NextId, "ok").id = NextId
    BY DEF Response, Msg
  <2> QED BY <1>4, <2>2, <2>11, <2>12, <2>13 DEF CalmSays
<1> QED BY <1>3, <1>4, ScenarioStep

\* A slow call waits without a flow.
LEMMA SlowIs ==
    ASSUME AgentInv, SendSlow
    PROVE  Calm /\ CalmSays
<1>1. /\ Count("slow") /\ CountAnswers /\ Silent /\ "slow" \in Requests /\ "slow" \in Kinds
      /\ pendingSlowCalls' = pendingSlowCalls \cup {NextId}
      /\ out' = <<>>
      /\ UNCHANGED <<faults, version, sessions, promptContexts, flows, pendingClientCalls,
                     nextAgentRequestId>>
  BY SlowStep DEF Requests, Kinds, Plain, Untold, Silent, lifeVars, startVars, flowVars
<1>2. Counts /\ NextId' = NextId + 1
  BY <1>1, CountedIs
<1>3. Grown
  BY <1>1, SameGrows
<1> QED BY <1>1, <1>2, <1>3 DEF Calm, CalmSays, Silent, AgentInv, TypeInv

\* The requests that change nothing.
LEMMA OtherIs ==
    ASSUME AgentInv, SendOther
    PROVE  Calm /\ CalmSays
<1>1. /\ Count("other") /\ CountAnswers /\ Silent /\ "other" \in Requests
      /\ Answered(NextId)
  BY OtherStep DEF Requests, Plain, Untold, Silent
<1> QED BY <1>1, AnsweredIs

\* Garbage changes nothing.
LEMMA GarbageIs ==
    ASSUME AgentInv, SendGarbage
    PROVE  Calm /\ CalmSays
<1>1. /\ Count("garbage") /\ CountAnswers /\ Silent
      /\ "garbage" \notin Requests /\ "garbage" \in Kinds
      /\ out' = <<Response(0, "parse_error")>>
      /\ UNCHANGED <<faults, version, sessions, promptContexts, flows, pendingClientCalls,
                     pendingSlowCalls, nextAgentRequestId>>
  BY GarbageStep DEF Requests, Kinds, Plain, Untold, Silent, Emit, lifeVars, startVars, flowVars
<1>2. Counts /\ NextId' = NextId
  BY <1>1, CountedIs
<1>3. Grown
  BY <1>1, SameGrows
<1>4. NextId \notin pendingSlowCalls'
  BY <1>1, NextIdIsNew
<1>5. Response(0, "parse_error").id = 0
  BY DEF Response, Msg
<1> QED BY <1>1, <1>2, <1>3, <1>4, <1>5 DEF Calm, CalmSays, Silent, AgentInv, TypeInv

\* Cancelling a request ends a slow call or nothing.
LEMMA CancelRequestIs ==
    ASSUME AgentInv, SendCancelRequest
    PROVE  Calm /\ CalmSays
<1>1. /\ Count("cancelRequest") /\ CountAnswers /\ Silent
      /\ "cancelRequest" \notin Requests /\ "cancelRequest" \in Kinds
  BY CancelRequestStep DEF Requests, Kinds, Plain, Untold, Silent
<1>2. PICK id \in 1 .. NextId : CancelRequest(id)
  BY CancelRequestStep
<1>3. /\ pendingSlowCalls' = pendingSlowCalls \ {id}
      /\ out' = IF id \in pendingSlowCalls
                THEN <<Response(id, "request_cancelled")>> ELSE <<>>
      /\ UNCHANGED <<faults, version, sessions, promptContexts, flows, pendingClientCalls,
                     nextAgentRequestId>>
  BY <1>2 DEF CancelRequest, lifeVars, startVars, flowVars
<1>4. Counts /\ NextId' = NextId
  BY <1>1, <1>3, CountedIs
<1>5. Grown
  BY <1>3, SameGrows
<1>6. NextId \notin pendingSlowCalls'
  BY <1>3, NextIdIsNew
<1>7. Response(id, "request_cancelled").id = id
  BY DEF Response, Msg
<1> QED BY <1>1, <1>3, <1>4, <1>5, <1>6, <1>7 DEF Calm, CalmSays, Silent, AgentInv, TypeInv

\* Closing a session leaves its flows alone.
LEMMA CloseIs ==
    ASSUME AgentInv, SendClose
    PROVE  Calm /\ CalmSays
<1>1. Count("close") /\ CountAnswers /\ Silent /\ "close" \in Requests /\ "close" \in Kinds
  BY CloseStep DEF Requests, Kinds, Silent
<1>2. CASE Answered(NextId)
  BY <1>1, <1>2, AnsweredIs
<1>3. ASSUME NEW s \in SomeSession,
             promptContexts' = [t \in 1 .. MaxSessions |-> IF t = s THEN 0 ELSE promptContexts[t]],
             out' = <<Response(NextId, "ok")>>,
             UNCHANGED <<lifeVars, flowVars, version, sessions, pendingSlowCalls>>
      PROVE  Calm /\ CalmSays
  <2>1. UNCHANGED <<faults, version, sessions, flows, pendingClientCalls, pendingSlowCalls,
                    nextAgentRequestId>>
    BY <1>3 DEF lifeVars, startVars, flowVars
  <2>2. Counts /\ NextId' = NextId + 1
    BY <1>1, <1>3, CountedIs
  <2>3. Grown
    BY <2>1, SameGrows
  <2>4. NextId \notin pendingSlowCalls'
    BY <2>1, NextIdIsNew
  <2>5. /\ promptContexts' \in [SessionIds -> Nat]
        /\ \A t \in SessionIds : promptContexts'[t] \in {0, promptContexts[t]}
    BY <1>3 DEF AgentInv, TypeInv, SessionIds
  <2>6. Response(NextId, "ok").id = NextId
    BY DEF Response, Msg
  <2>7. Calm
    BY <1>1, <2>1, <2>2, <2>3, <2>4, <2>5 DEF Calm, Silent, AgentInv, TypeInv
  <2> QED BY <1>3, <2>2, <2>4, <2>6, <2>7 DEF CalmSays
<1> QED BY <1>2, <1>3, CloseStep

\* A new flow of a session the agent knows.
LEMMA PromptFlowIs ==
    ASSUME AgentInv, NEW s \in SomeSession, Known(s)
    PROVE  \E fl \in Flow :
              /\ fl = PromptFlow(s) /\ fl.kind = "prompt" /\ fl.request = NextId
              /\ fl.session = s /\ s \in DOMAIN sessions /\ s \in SessionIds
              /\ fl.scenario = "none" /\ fl.scenario \in NamesOf(version)
              /\ fl.todo = <<Goto("start")>> /\ fl.todo # <<>> /\ fl.status = "ready"
              /\ fl.cancelled = FALSE /\ fl.answer = "none"
              /\ version # 1 => FlowOK(fl)
              /\ Runs(fl)
<1> DEFINE start == Goto("start")
           t == <<start>>
<1>1. /\ start \in Segments /\ start.op = "start" /\ start.what = "none"
  BY DEF Goto, Segment, Segments, Branching
<1> HIDE DEF start
<1>2. /\ t \in Seq(Segments) /\ t # <<>> /\ Len(t) = 1 /\ DOMAIN t = {1} /\ t[1] = start
  BY <1>1
<1> HIDE DEF t
<1>3. \A ops : Has(t, ops) => "start" \in ops
  BY <1>1, <1>2 DEF Has
<1>4. ~Tells(t, Cancels)
  BY <1>1, <1>2 DEF Tells, Cancels
<1>5. /\ Code(t) /\ EndsIdle(t)
      /\ ~Has(t, {"entries", "replay"}) /\ ~Has(t, {"judgeV2", "loop", "sleep"})
      /\ ~Has(t, Owing) /\ ~Has(t, Looking)
  <2>1. ~Has(t, {"entries", "replay"}) /\ ~Has(t, {"judgeV2", "loop", "sleep"})
    BY <1>3
  <2>2. ~Has(t, Owing) /\ ~Has(t, Looking)
    BY <1>3 DEF Owing, Looking
  <2>3. EndsIdle(t)
    BY <1>1, <1>2 DEF EndsIdle, Branching
  <2>4. Code(t)
    BY <1>1, <1>2, <1>4, <2>2 DEF Code, Once
  <2> QED BY <2>1, <2>2, <2>3, <2>4
<1>6. /\ s \in Nat /\ s \in DOMAIN sessions /\ s \in SessionIds
  <2>1. sessions \in Seq(Session)
    BY DEF AgentInv, TypeInv
  <2> QED BY <2>1, AgentAssumption, LenProperties DEF SomeSession, SessionIds, Known
<1>7. NextId \in Nat
  BY NextIdIsNew
<1> DEFINE fl == PromptFlow(s)
<1>8. /\ fl = [kind |-> "prompt", request |-> NextId, session |-> s, scenario |-> "none",
               todo |-> t, status |-> "ready", cancelled |-> FALSE, answer |-> "none", count |-> 0]
  BY DEF PromptFlow, NewFlow, t, start
<1> HIDE DEF fl
<1>9. /\ fl \in Flow /\ fl.kind = "prompt" /\ fl.request = NextId /\ fl.session = s
      /\ fl.scenario = "none" /\ fl.todo = t /\ fl.status = "ready"
      /\ fl.cancelled = FALSE /\ fl.answer = "none"
  BY <1>2, <1>6, <1>7, <1>8 DEF Flow, Names
<1>10. fl.scenario \in NamesOf(version)
  BY <1>9 DEF NamesOf
<1>11. Runs(fl)
  BY <1>5, <1>9 DEF Runs
<1>12. version # 1 => FlowOK(fl)
  BY <1>2, <1>6, <1>9, <1>10, <1>11 DEF FlowOK
<1> QED BY <1>2, <1>6, <1>9, <1>10, <1>11, <1>12 DEF fl, t, start

\* A new replay is a flow that can run.
LEMMA ReplayFlowIs ==
    ASSUME AgentInv, NEW s \in SomeSession, Known(s)
    PROVE  \E fl \in Flow :
              /\ fl = ReplayFlow(s) /\ fl.kind = "replay" /\ fl.request = NextId
              /\ fl.session = s /\ s \in DOMAIN sessions /\ s \in SessionIds
              /\ fl.scenario = "none" /\ fl.scenario \in NamesOf(version)
              /\ fl.todo = <<Goto("entries")>> /\ fl.todo # <<>> /\ fl.status = "ready"
              /\ fl.count <= Len(sessions[s].history)
<1> DEFINE entries == Goto("entries")
           t == <<entries>>
<1>1. entries \in Segments
  BY DEF Goto, Segment, Segments, Branching
<1> HIDE DEF entries
<1>2. t \in Seq(Segments) /\ t # <<>>
  BY <1>1
<1> HIDE DEF t
<1>3. /\ s \in Nat /\ s \in DOMAIN sessions /\ s \in SessionIds
      /\ Len(sessions[s].history) \in Nat
  <2>1. sessions \in Seq(Session)
    BY DEF AgentInv, TypeInv
  <2>2. s \in Nat /\ s \in DOMAIN sessions /\ s \in SessionIds
    BY <2>1, AgentAssumption, LenProperties DEF SomeSession, SessionIds, Known
  <2>3. sessions[s] \in Session
    BY <2>1, <2>2
  <2> QED BY <2>2, <2>3 DEF Session
<1>4. NextId \in Nat
  BY NextIdIsNew
<1> DEFINE fl == ReplayFlow(s)
<1>5. fl = [kind |-> "replay", request |-> NextId, session |-> s, scenario |-> "none",
            todo |-> t, status |-> "ready", cancelled |-> FALSE, answer |-> "none", count |-> 0]
  BY DEF ReplayFlow, NewFlow, t, entries
<1> HIDE DEF fl
<1>6. /\ fl \in Flow /\ fl.kind = "replay" /\ fl.request = NextId /\ fl.session = s
      /\ fl.scenario = "none" /\ fl.todo = t /\ fl.status = "ready" /\ fl.count = 0
  BY <1>2, <1>3, <1>4, <1>5 DEF Flow, Names
<1>7. fl.scenario \in NamesOf(version)
  BY <1>6 DEF NamesOf
<1>8. fl.count <= Len(sessions[s].history)
  BY <1>3, <1>6
<1> QED BY <1>2, <1>3, <1>6, <1>7, <1>8 DEF fl, t, entries

\* A new flow is counted.
LEMMA FlowCounted ==
    ASSUME AgentInv, NEW k \in {"prompt", "replay"}, Count(k), CountAnswers,
           out' = <<>> \/ \E m : out' = <<m>>
    PROVE  /\ Counts /\ NextId' = NextId + 1
           /\ Len(flows) + 1 <= done'.prompt + done'.replay
<1>1. k \in Requests /\ {"prompt", "replay"} \subseteq Kinds
  BY DEF Requests, Kinds
<1>2. /\ Counts /\ NextId' = NextId + 1
      /\ \A j \in Kinds : done'[j] = IF j = k THEN done[j] + 1 ELSE done[j]
  BY <1>1, CountedIs
<1>3. done.prompt \in Nat /\ done.replay \in Nat
  BY <1>1 DEF AgentInv, TypeInv
<1>4. Len(flows) <= done.prompt + done.replay /\ Len(flows) \in Nat
  BY FlowsAre DEF AgentInv, CountInv
<1>5. done'.prompt + done'.replay = done.prompt + done.replay + 1
  BY <1>1, <1>2, <1>3
<1> QED BY <1>2, <1>3, <1>4, <1>5

\* A prompt is refused, or its flow runs or waits.
LEMMA PromptIs ==
    ASSUME AgentInv, SendPrompt
    PROVE  \/ Calm /\ CalmSays
           \/ /\ AgentInv'
              /\ \/ \E f, fl, t, after : PromptMove(f, fl, t, after)
                 \/ \E f, fl : PromptWaits(f, fl)
<1>1. Count("prompt") /\ "prompt" \in Requests
  BY PromptStep DEF Requests
<1>2. CASE Answered(NextId) /\ Plain
  BY <1>1, <1>2, AnsweredIs DEF Plain, Untold, Silent
<1>3. ASSUME NEW s \in SomeSession, Known(s), version # 0,
             promptContexts' = [promptContexts EXCEPT ![s] = Len(flows) + 1],
             UNCHANGED <<lifeVars, version, pendingSlowCalls>>,
             version = 1, RunNew(PromptFlow(s)),
             IF flows' # flows THEN FlowSays(Len(flows) + 1, s) ELSE Plain
      PROVE  AgentInv' /\ \E f, fl, t, after : PromptMove(f, fl, t, after)
  <2> DEFINE f == Len(flows) + 1
  <2>1. PICK fl \in Flow :
           /\ fl = PromptFlow(s) /\ fl.kind = "prompt" /\ fl.request = NextId
           /\ fl.session = s /\ s \in DOMAIN sessions /\ s \in SessionIds
           /\ fl.scenario \in NamesOf(version)
           /\ fl.todo # <<>> /\ Runs(fl)
    BY <1>3, PromptFlowIs
  <2>2. RunOn(flows, f, fl) /\ Place(f, flows)
    BY <1>3, <2>1 DEF RunNew, Place
  <2>3. DOMAIN flows = 1 .. Len(flows) /\ Len(flows) \in Nat /\ f \in Nat /\ f \notin DOMAIN flows
    BY FlowsAre DEF AgentInv
  <2>4. PICK t \in Seq(Segments), after \in Flow : PromptRan(f, fl, t, after)
    <3> HIDE DEF f
    <3>1. \E t \in Seq(Segments) : \E after \in Flow : PromptRan(f, fl, t, after)
      BY <1>3, <2>1, <2>2, PromptRuns
    <3> QED BY <3>1
  <2>5. Ran(f, fl, t, after) /\ t # <<>> /\ t[1].op \in Plain1
    BY <2>4 DEF PromptRan, Leads
  <2>6. /\ t[1] \in Segments /\ out' = Emitted(fl, t[1])
        /\ out' = <<>> \/ \E m : out' = <<m>>
    <3> HIDE DEF f
    <3> QED BY <2>5, RanSpeaks
  <2>7. Put(f, after) /\ after.kind = "prompt" /\ after.request = NextId /\ after.session = s
    BY <2>1, <2>5 DEF Ran
  <2>8. Len(flows') = Len(flows) + 1 /\ DOMAIN flows \subseteq DOMAIN flows'
    <3>1. Len(flows') = Len(flows) + 1
      BY <2>3, <2>7 DEF Put
    <3>2. DOMAIN flows' = DOMAIN flows \cup {f}
      BY <2>7, PutDomain DEF AgentInv, TypeInv
    <3> QED BY <3>1, <3>2
  <2>9. FlowSays(f, s)
    <3>1. flows' # flows
      BY <2>3, <2>8
    <3> QED BY <1>3, <3>1
  <2>10. Told(f, fl.session, t[1])
    <3> HIDE DEF f
    <3> QED BY <2>1, <2>5, <2>6, <2>9, SaysIs DEF AgentInv
  <2>11. CountAnswers /\ UNCHANGED <<cancelAsked, cancelHeard, denied>>
    BY <2>9 DEF FlowSays
  <2>12. /\ Counts /\ NextId' = NextId + 1
         /\ Len(flows) + 1 <= done'.prompt + done'.replay
    BY <1>1, <2>6, <2>11, FlowCounted
  <2>13. faults' = faults
    BY <1>3 DEF lifeVars, startVars
  <2>14. Grown /\ FlowOK(after)'
    <3> HIDE DEF f
    <3> QED BY <1>3, <2>1, <2>4, <2>13, PromptRanOK
  <2>15. /\ CallInv' /\ pendingClientCalls' \subseteq Nat \X Nat /\ nextAgentRequestId' \in Nat
    <3>1. f \in DOMAIN flows => flows[f].status # "asking"
      BY <2>3
    <3> HIDE DEF f
    <3> QED BY <2>5, <3>1, RunCalls
  <2> HIDE DEF f
  <2>16. Moves(f, after)
    <3>1. \/ ended' = ended
          \/ \E word \in Stops : ended' = [ended EXCEPT ![f] = word]
      BY <2>10 DEF Told
    <3>2. \/ lastState' = lastState
          \/ \E word \in States : lastState' = [lastState EXCEPT ![after.session] = word]
      BY <2>1, <2>7, <2>10 DEF Told
    <3>3. promptContexts' = [promptContexts EXCEPT ![after.session] = f]
      BY <1>3, <2>7 DEF f
    <3>4. Len(flows') <= done'.prompt + done'.replay
      BY <2>8, <2>12
    <3>5. /\ cancelAsked' \subseteq DOMAIN flows' /\ cancelHeard' \subseteq DOMAIN flows'
          /\ denied' \subseteq DOMAIN flows'
      BY <2>8, <2>11 DEF AgentInv, TypeInv
    <3>6. pendingSlowCalls' = pendingSlowCalls
      BY <1>3
    <3> QED BY <1>3, <2>1, <2>3, <2>7, <2>12, <2>14, <3>1, <3>2, <3>3, <3>4, <3>5, <3>6 DEF Moves
  <2>17. AgentInv'
    BY <2>14, <2>15, <2>16, MovesKeeps
  <2>18. PromptMove(f, fl, t, after)
    <3>1. f = Len(flows) + 1 /\ version = 1 /\ fl = PromptFlow(fl.session)
      BY <1>3, <2>1 DEF f
    <3> QED BY <2>1, <2>4, <2>10, <2>11, <2>16, <3>1 DEF PromptMove
  <2> QED BY <2>17, <2>18
<1>4. ASSUME NEW s \in SomeSession, Known(s), version # 0,
             promptContexts' = [promptContexts EXCEPT ![s] = Len(flows) + 1],
             UNCHANGED <<lifeVars, version, pendingSlowCalls>>,
             version # 1,
             flows' = Append(flows, PromptFlow(s)),
             out' = <<Response(NextId, "ok")>>,
             UNCHANGED <<sessions, pendingClientCalls, nextAgentRequestId>>,
             IF flows' # flows THEN FlowSays(Len(flows) + 1, s) ELSE Plain
      PROVE  AgentInv' /\ \E f, fl : PromptWaits(f, fl)
  <2> DEFINE f == Len(flows) + 1
  <2>1. PICK fl \in Flow :
           /\ fl = PromptFlow(s) /\ fl.kind = "prompt" /\ fl.request = NextId
           /\ fl.session = s /\ s \in DOMAIN sessions /\ s \in SessionIds
           /\ fl.status = "ready"
           /\ version # 1 => FlowOK(fl)
    BY <1>4, PromptFlowIs
  <2>2. DOMAIN flows = 1 .. Len(flows) /\ Len(flows) \in Nat /\ f \in Nat /\ f \notin DOMAIN flows
    BY FlowsAre DEF AgentInv
  <2>3. Put(f, fl)
    BY <1>4, <2>1, PutLast DEF AgentInv, TypeInv
  <2>4. Len(flows') = Len(flows) + 1 /\ DOMAIN flows \subseteq DOMAIN flows'
    <3>1. Len(flows') = Len(flows) + 1
      BY <2>2, <2>3 DEF Put
    <3>2. DOMAIN flows' = DOMAIN flows \cup {f}
      BY <2>3, PutDomain DEF AgentInv, TypeInv
    <3> QED BY <3>1, <3>2
  <2>5. FlowSays(f, s)
    <3>1. flows' # flows
      BY <2>2, <2>4
    <3> QED BY <1>4, <3>1
  <2>6. CountAnswers /\ Silent
    <3> DEFINE said == {out'[i].kind : i \in DOMAIN out'}
    <3>1. Response(NextId, "ok").kind = "ok"
      BY DEF Response, Msg
    <3>2. said = {"ok"}
      BY <1>4, <3>1
    <3>3. said \cap Stops = {} /\ said \cap States = {}
      BY <3>2 DEF Stops, States
    <3>4. ended' = [ended EXCEPT ![f] = ended[f]] /\ lastState' = [lastState EXCEPT ![s] = lastState[s]]
      BY <2>5, <3>3 DEF FlowSays
    <3>5. ended' = ended /\ lastState' = lastState
      BY <3>4 DEF AgentInv, TypeInv
    <3> QED BY <2>5, <3>5 DEF FlowSays, Silent
  <2>7. /\ Counts /\ NextId' = NextId + 1
        /\ Len(flows) + 1 <= done'.prompt + done'.replay
    BY <1>1, <1>4, <2>6, FlowCounted
  <2>8. faults' = faults
    BY <1>4 DEF lifeVars, startVars
  <2>9. Grown
    BY <1>4, <2>8, SameGrows
  <2>10. FlowOK(fl)'
    BY <1>4, <2>1, <2>9, FlowStays DEF AgentInv
  <2> HIDE DEF f
  <2>11. CallInv'
    <3>1. fl.status = "asking" <=> f \in DOMAIN flows /\ flows[f].status = "asking"
      BY <2>1, <2>2
    <3> QED BY <1>4, <2>3, <3>1, CallsStay DEF AgentInv
  <2>12. pendingClientCalls' \subseteq Nat \X Nat /\ nextAgentRequestId' \in Nat
    BY <1>4 DEF AgentInv, TypeInv
  <2>13. Moves(f, fl)
    <3>1. promptContexts' = [promptContexts EXCEPT ![fl.session] = f]
      BY <1>4, <2>1 DEF f
    <3>2. Len(flows') <= done'.prompt + done'.replay
      BY <2>4, <2>7
    <3>3. /\ cancelAsked' \subseteq DOMAIN flows' /\ cancelHeard' \subseteq DOMAIN flows'
          /\ denied' \subseteq DOMAIN flows'
      BY <2>4, <2>6 DEF AgentInv, TypeInv, Silent
    <3> QED BY <1>4, <2>1, <2>2, <2>3, <2>6, <2>7, <2>9, <3>1, <3>2, <3>3 DEF Moves, Silent
  <2>14. AgentInv'
    BY <2>10, <2>11, <2>12, <2>13, MovesKeeps
  <2>15. PromptWaits(f, fl)
    <3>1. f = Len(flows) + 1 /\ version = 2 /\ fl = PromptFlow(fl.session)
      BY <1>4, <2>1 DEF f, AgentInv, TypeInv
    <3> QED BY <1>4, <2>6, <2>13, <3>1 DEF PromptWaits
  <2> QED BY <2>14, <2>15
<1> QED BY <1>2, <1>3, <1>4, PromptStep

\* A replay is refused, or runs.
LEMMA ReplayIs ==
    ASSUME AgentInv, SendReplay
    PROVE  \/ Calm /\ CalmSays
           \/ AgentInv' /\ \E f, fl, after : ReplayMove(f, fl, after)
<1>1. Count("replay") /\ "replay" \in Requests /\ CountAnswers /\ Silent
  BY ReplayStep DEF Requests, Plain, Untold, Silent
<1>2. CASE Answered(NextId)
  BY <1>1, <1>2, AnsweredIs
<1>3. ASSUME NEW s \in SomeSession, Known(s), version # 0, RunNew(ReplayFlow(s)),
             UNCHANGED <<lifeVars, version, promptContexts, pendingSlowCalls>>
      PROVE  AgentInv' /\ \E f, fl, after : ReplayMove(f, fl, after)
  <2> DEFINE f == Len(flows) + 1
  <2>1. PICK fl \in Flow :
           /\ fl = ReplayFlow(s) /\ fl.kind = "replay" /\ fl.request = NextId
           /\ fl.session = s /\ s \in DOMAIN sessions /\ s \in SessionIds
           /\ fl.scenario \in NamesOf(version)
           /\ fl.todo = <<Goto("entries")>>
           /\ fl.count <= Len(sessions[s].history)
    BY <1>3, ReplayFlowIs
  <2>2. RunOn(flows, f, fl) /\ Place(f, flows)
    BY <1>3, <2>1 DEF RunNew, Place
  <2>3. DOMAIN flows = 1 .. Len(flows) /\ Len(flows) \in Nat /\ f \in Nat /\ f \notin DOMAIN flows
    BY FlowsAre DEF AgentInv
  <2> HIDE DEF f
  <2>4. PICK after \in Flow : ReplayRan(f, fl, after) /\ after.scenario = fl.scenario
    BY <1>3, <2>1, <2>2, ReplayRuns
  <2>5. faults' = faults
    BY <1>3 DEF lifeVars, startVars
  <2>6. /\ Grown /\ FlowOK(after)' /\ sessions' = sessions
        /\ after.status = "done" => after.count = Len(sessions[fl.session].history)
    BY <1>3, <2>1, <2>4, <2>5, ReplayRanOK
  <2>7. PICK t \in Seq(Segments) :
           /\ t # <<>> /\ t[1].op \in {"replay", "reply"} /\ t[1].op \in Plain1
           /\ Ran(f, fl, t, after)
    BY <2>4, ReplayRanIs
  <2>8. out' = <<>> \/ \E m : out' = <<m>>
    BY <2>7, RanSpeaks
  <2>9. /\ Counts /\ NextId' = NextId + 1
        /\ Len(flows) + 1 <= done'.prompt + done'.replay
    BY <1>1, <2>8, FlowCounted
  <2>10. /\ CallInv' /\ pendingClientCalls' \subseteq Nat \X Nat /\ nextAgentRequestId' \in Nat
    <3>1. f \in DOMAIN flows => flows[f].status # "asking"
      BY <2>3
    <3> QED BY <2>7, <3>1, RunCalls
  <2>11. Put(f, after) /\ after.kind = "replay" /\ after.request = NextId /\ after.session = s
    BY <2>1, <2>7 DEF Ran
  <2>12. Len(flows') = Len(flows) + 1 /\ DOMAIN flows \subseteq DOMAIN flows'
    <3>1. Len(flows') = Len(flows) + 1
      BY <2>3, <2>11 DEF Put
    <3>2. DOMAIN flows' = DOMAIN flows \cup {f}
      BY <2>11, PutDomain DEF AgentInv, TypeInv
    <3> QED BY <3>1, <3>2
  <2>13. Moves(f, after)
    <3>1. Len(flows') <= done'.prompt + done'.replay
      BY <2>9, <2>12
    <3>2. /\ cancelAsked' \subseteq DOMAIN flows' /\ cancelHeard' \subseteq DOMAIN flows'
          /\ denied' \subseteq DOMAIN flows'
      BY <1>1, <2>12 DEF AgentInv, TypeInv, Silent
    <3>3. UNCHANGED <<promptContexts, pendingSlowCalls, ended, lastState>>
      BY <1>1, <1>3 DEF Silent
    <3> QED BY <1>3, <2>3, <2>6, <2>9, <2>11, <3>1, <3>2, <3>3 DEF Moves
  <2>14. AgentInv'
    BY <2>6, <2>10, <2>13, MovesKeeps
  <2>15. ReplayMove(f, fl, after)
    <3>1. f = Len(flows) + 1 /\ fl = ReplayFlow(fl.session)
      BY <2>1 DEF f
    <3> QED BY <1>1, <2>1, <2>4, <2>6, <2>13, <3>1 DEF ReplayMove
  <2> QED BY <2>14, <2>15
<1> QED BY <1>2, <1>3, ReplayStep

\* A cancel marks the latest prompt of its session or nothing.
LEMMA CancelIs ==
    ASSUME AgentInv, SendCancel
    PROVE  \/ Calm /\ CalmSays
           \/ AgentInv' /\ \E f, s : CancelMove(f, s)
<1>1. PICK s \in SomeSession :
         /\ Count("cancel") /\ CountAnswers
         /\ cancelAsked' = cancelAsked \cup Running(s)
         /\ cancelHeard' = cancelHeard \cup
               {f \in Running(s) : WillLook(f) /\ f = promptContexts[s]}
         /\ UNCHANGED <<ended, lastState, closeAsked, denied>>
         /\ (version # 0 /\ SessionCancel(s)) \/ (version = 0 /\ Emit(<<>>))
  BY CancelStep
<1>2. /\ UNCHANGED <<faults, version, sessions, promptContexts, pendingClientCalls,
                     pendingSlowCalls, nextAgentRequestId>>
      /\ out' = <<>>
  BY <1>1 DEF SessionCancel, Emit, lifeVars, startVars, flowVars
<1>3. "cancel" \notin Requests /\ "cancel" \in Kinds
  BY DEF Requests, Kinds
<1>4. Counts /\ NextId' = NextId
  BY <1>1, <1>2, <1>3, CountedIs
<1>5. Grown
  BY <1>2, SameGrows
<1>6. /\ s \in SessionIds /\ s \in Nat \ {0} /\ Running(s) \subseteq DOMAIN flows
      /\ DOMAIN sessions = 1 .. Len(sessions)
  BY AgentAssumption DEF SomeSession, SessionIds, Running, AgentInv, TypeInv
<1>7. ASSUME flows' = flows, Running(s) = {} \/ promptContexts[s] = 0
      PROVE  Calm /\ CalmSays
  <2>1. 0 \notin DOMAIN flows
    BY FlowsAre DEF AgentInv
  <2>2. {f \in Running(s) : WillLook(f) /\ f = promptContexts[s]} = {}
    BY <1>6, <1>7, <2>1
  <2>3. UNCHANGED <<ended, lastState, cancelHeard, denied>>
    BY <1>1, <2>2
  <2>4. cancelAsked \subseteq cancelAsked' /\ cancelAsked' \subseteq DOMAIN flows
    BY <1>1, <1>6 DEF AgentInv, TypeInv
  <2>5. NextId \notin pendingSlowCalls'
    BY <1>2, NextIdIsNew
  <2> QED BY <1>2, <1>4, <1>5, <1>7, <2>3, <2>4, <2>5 DEF Calm, CalmSays, AgentInv, TypeInv
<1>8. CASE version = 0
  <2>1. flows' = flows /\ DOMAIN flows = {}
    BY <1>1, <1>8 DEF Emit, flowVars, AgentInv, CountInv
  <2>2. Running(s) = {}
    BY <1>6, <2>1
  <2> QED BY <1>7, <2>1, <2>2
<1>9. CASE version # 0 /\ ~Known(s)
  <2>1. flows' = flows
    BY <1>1, <1>9 DEF SessionCancel
  <2>2. Running(s) = {}
    <3>1. \A f \in DOMAIN flows : flows[f].session \in DOMAIN sessions
      BY DEF AgentInv, FlowInv, FlowOK
    <3> QED BY <1>6, <1>9, <3>1 DEF Running, Known
  <2> QED BY <1>7, <2>1, <2>2
<1>10. CASE version # 0 /\ Known(s) /\ promptContexts[s] = 0
  <2>1. flows' = flows
    BY <1>1, <1>10 DEF SessionCancel
  <2> QED BY <1>7, <1>10, <2>1
<1>11. CASE version # 0 /\ Known(s) /\ promptContexts[s] # 0
  <2>1. PICK f \in DOMAIN flows : f = promptContexts[s]
    BY <1>6, <1>11 DEF AgentInv, SessionInv
  <2> DEFINE fl == [flows[f] EXCEPT !.cancelled = TRUE]
  <2>2. flows' = [flows EXCEPT ![f] = fl]
    BY <1>1, <1>11, <2>1 DEF SessionCancel
  <2>3. flows[f] \in Flow /\ FlowOK(flows[f])
    BY FlowsAre DEF AgentInv, FlowInv
  <2>4. /\ fl \in Flow /\ fl.kind = flows[f].kind /\ fl.request = flows[f].request
        /\ fl.session = flows[f].session /\ fl.status = flows[f].status
        /\ fl.todo = flows[f].todo /\ fl.scenario = flows[f].scenario
        /\ fl.count = flows[f].count
    BY <2>3 DEF Flow
  <2> HIDE DEF fl
  <2>5. FlowOK(fl)
    BY <2>3, <2>4 DEF FlowOK, Runs
  <2>6. Put(f, fl)
    BY <2>2, <2>4, PutChanged DEF AgentInv, TypeInv
  <2>7. CallInv'
    BY <1>2, <2>4, <2>6, CallsStay DEF AgentInv
  <2>8. /\ pendingClientCalls' \subseteq Nat \X Nat
        /\ cancelAsked' \subseteq DOMAIN flows /\ cancelHeard' \subseteq DOMAIN flows
        /\ denied' \subseteq DOMAIN flows
    BY <1>1, <1>2, <1>6 DEF AgentInv, TypeInv
  <2>9. AgentInv' /\ Moves(f, fl)
    <3>1. UNCHANGED <<faults, version, sessions, promptContexts, pendingSlowCalls,
                      nextAgentRequestId, ended, lastState>>
      BY <1>1, <1>2
    <3> QED BY <1>4, <2>4, <2>5, <2>6, <2>7, <2>8, <3>1, TouchKeeps
  <2>10. CancelMove(f, s)
    BY <1>1, <1>2, <1>6, <2>1, <2>9 DEF CancelMove, fl
  <2> QED BY <2>9, <2>10
<1> QED BY <1>8, <1>9, <1>10, <1>11

\* An answer moves the one flow that waits for it, or nobody: the call is not in
\* the table any more.
LEMMA AnswerIs ==
    ASSUME AgentInv, SendAnswer
    PROVE  \/ Calm /\ CalmSays
           \/ AgentInv' /\ \E f, a, fl : AnswerMove(f, a, fl)
<1>1. PICK call \in 1 .. nextAgentRequestId - 1 : \E a \in PermissionAnswers \cup OtherAnswers :
         /\ UNCHANGED <<workload, done, ended, lastState, cancelAsked, cancelHeard>>
         /\ CountAnswers /\ out' = <<>>
         /\ UNCHANGED <<startVars, agentClosed, version, sessions, promptContexts,
                        pendingSlowCalls, nextAgentRequestId>>
         /\ denied' = IF (\E f \in OwnersOf(call) : WillLook(f)) /\ a = "reject"
                      THEN denied \cup OwnersOf(call) ELSE denied
         /\ pendingClientCalls' = {p \in pendingClientCalls : p[1] # call}
         /\ \/ /\ a = "invalid"
               /\ flows' = [f \in DOMAIN flows |->
                              IF f \in OwnersOf(call)
                              THEN [flows[f] EXCEPT !.status = "thrown"] ELSE flows[f]]
            \/ /\ a # "invalid"
               /\ flows' = [f \in DOMAIN flows |->
                              IF f \in OwnersOf(call)
                              THEN [flows[f] EXCEPT !.status = "ready", !.answer = a]
                              ELSE flows[f]]
  BY AnswerStep
<1>2. PICK a \in PermissionAnswers \cup OtherAnswers :
         /\ UNCHANGED <<workload, done, ended, lastState, cancelAsked, cancelHeard>>
         /\ CountAnswers /\ out' = <<>>
         /\ UNCHANGED <<startVars, agentClosed, version, sessions, promptContexts,
                        pendingSlowCalls, nextAgentRequestId>>
         /\ denied' = IF (\E f \in OwnersOf(call) : WillLook(f)) /\ a = "reject"
                      THEN denied \cup OwnersOf(call) ELSE denied
         /\ pendingClientCalls' = {p \in pendingClientCalls : p[1] # call}
         /\ \/ /\ a = "invalid"
               /\ flows' = [f \in DOMAIN flows |->
                              IF f \in OwnersOf(call)
                              THEN [flows[f] EXCEPT !.status = "thrown"] ELSE flows[f]]
            \/ /\ a # "invalid"
               /\ flows' = [f \in DOMAIN flows |->
                              IF f \in OwnersOf(call)
                              THEN [flows[f] EXCEPT !.status = "ready", !.answer = a]
                              ELSE flows[f]]
  BY <1>1
<1>3. UNCHANGED <<faults, version, sessions, promptContexts, pendingSlowCalls,
                  nextAgentRequestId, ended, lastState, cancelAsked, cancelHeard>>
  BY <1>2 DEF startVars
<1>4. Counts /\ NextId' = NextId
  BY <1>2, Uncounted
<1>5. /\ {p[2] : p \in pendingClientCalls} = {f \in DOMAIN flows : flows[f].status = "asking"}
      /\ \A p, q \in pendingClientCalls : p[1] = q[1] <=> p[2] = q[2]
      /\ pendingClientCalls \subseteq Nat \X Nat
  BY DEF AgentInv, TypeInv, CallInv, CallsHaveOwners
<1>6. CASE OwnersOf(call) = {}
  <2>1. \A p \in pendingClientCalls : p[1] # call
    BY <1>6 DEF OwnersOf
  <2>2. pendingClientCalls' = pendingClientCalls /\ denied' = denied
    BY <1>2, <1>6, <2>1
  <2>3. flows' = flows
    <3>1. flows = [f \in DOMAIN flows |-> flows[f]]
      BY DEF AgentInv, TypeInv
    <3> QED BY <1>2, <1>6, <3>1
  <2>4. Grown
    BY <1>3, SameGrows
  <2>5. NextId \notin pendingSlowCalls'
    BY <1>3, NextIdIsNew
  <2> QED BY <1>2, <1>3, <1>4, <2>2, <2>3, <2>4, <2>5 DEF Calm, CalmSays, AgentInv, TypeInv
<1>7. CASE OwnersOf(call) # {}
  <2>1. PICK f : f \in OwnersOf(call)
    BY <1>7
  <2>2. PICK p \in pendingClientCalls : p[1] = call /\ p[2] = f
    BY <2>1 DEF OwnersOf
  <2>3. p = <<call, f>>
    BY <2>2, <1>5
  <2>4. OwnersOf(call) = {f}
    BY <2>2, <1>5 DEF OwnersOf
  <2>5. f \in DOMAIN flows /\ flows[f].status = "asking"
    BY <2>2, <1>5
  <2>6. PICK fl : /\ \/ a = "invalid" /\ fl = [flows[f] EXCEPT !.status = "thrown"]
                     \/ fl = [flows[f] EXCEPT !.status = "ready", !.answer = a]
                  /\ flows' = [g \in DOMAIN flows |-> IF g = f THEN fl ELSE flows[g]]
    <3>1. CASE a = "invalid"
      <4> DEFINE fl == [flows[f] EXCEPT !.status = "thrown"]
      <4>1. flows' = [g \in DOMAIN flows |-> IF g = f THEN fl ELSE flows[g]]
        BY <1>2, <2>4, <3>1
      <4> QED BY <3>1, <4>1
    <3>2. CASE a # "invalid"
      <4> DEFINE fl == [flows[f] EXCEPT !.status = "ready", !.answer = a]
      <4>1. flows' = [g \in DOMAIN flows |-> IF g = f THEN fl ELSE flows[g]]
        BY <1>2, <2>4, <3>2
      <4> QED BY <4>1
    <3> QED BY <3>1, <3>2
  <2>7. flows[f] \in Flow /\ FlowOK(flows[f])
    BY <2>5, FlowsAre DEF AgentInv, FlowInv
  <2>8. /\ fl \in Flow /\ fl.kind = flows[f].kind /\ fl.request = flows[f].request
        /\ fl.session = flows[f].session /\ fl.status \in {"thrown", "ready"}
        /\ fl.todo = flows[f].todo /\ fl.scenario = flows[f].scenario
    BY <2>6, <2>7 DEF Flow
  <2>9. FlowOK(fl)
    <3>1. flows[f].kind = "prompt"
      BY <2>5, <2>7 DEF FlowOK, Flow
    <3> QED BY <2>5, <2>7, <2>8, <3>1 DEF FlowOK, Runs, Over
  <2>10. Put(f, fl)
    BY <2>5, <2>6, <2>8, PutChanged DEF AgentInv, TypeInv
  <2>11. CallInv'
    <3>1. <<call, f>> \in pendingClientCalls /\ fl.status # "asking"
      BY <2>2, <2>3, <2>8
    <3> QED BY <1>2, <1>3, <2>5, <2>10, <3>1, CallsSettled DEF AgentInv
  <2>12. denied' = IF WillLook(f) /\ a = "reject" THEN denied \cup {f} ELSE denied
    BY <1>2, <2>4
  <2>13. AgentInv' /\ Moves(f, fl)
    <3>1. /\ pendingClientCalls' \subseteq Nat \X Nat
          /\ cancelAsked' \subseteq DOMAIN flows /\ cancelHeard' \subseteq DOMAIN flows
          /\ denied' \subseteq DOMAIN flows
      BY <1>2, <1>3, <2>5, <2>12 DEF AgentInv, TypeInv
    <3> QED BY <1>3, <1>4, <2>5, <2>8, <2>9, <2>10, <2>11, <3>1, TouchKeeps
  <2>14. AnswerMove(f, a, fl)
    BY <1>2, <1>3, <2>5, <2>6, <2>12, <2>13 DEF AnswerMove
  <2> QED BY <2>13, <2>14
<1> QED BY <1>6, <1>7

\* close() makes the flows that wait throw, and only them.
LEMMA EndIs ==
    ASSUME AgentInv, EndAgent
    PROVE  EndMove
<1>1. /\ Count("end") /\ CountAnswers /\ Silent /\ "end" \in Kinds
      /\ out' = <<>> /\ pendingClientCalls' = {} /\ pendingSlowCalls' = {}
      /\ UNCHANGED <<faults, version, sessions, promptContexts, nextAgentRequestId>>
      /\ flows' = [f \in DOMAIN flows |->
                     IF f \in {p[2] : p \in pendingClientCalls}
                     THEN [flows[f] EXCEPT !.status = "thrown"] ELSE flows[f]]
  BY DEF EndAgent, AgentClose, Throw, Plain, Untold, Silent, startVars, Kinds
<1>2. Counts
  BY <1>1, CountedIs
<1>3. {p[2] : p \in pendingClientCalls} = {f \in DOMAIN flows : flows[f].status = "asking"}
  BY DEF AgentInv, CallInv, CallsHaveOwners
<1>4. flows' = [f \in DOMAIN flows |->
                  IF flows[f].status = "asking"
                  THEN [flows[f] EXCEPT !.status = "thrown"] ELSE flows[f]]
  BY <1>1, <1>3
<1> QED BY <1>1, <1>2, <1>4 DEF EndMove

\* What one flow becomes when the agent is closed.
LEMMA Thrown ==
    ASSUME AgentInv, EndMove, NEW f \in DOMAIN flows
    PROVE  /\ f \in DOMAIN flows' /\ flows'[f] \in Flow
           /\ flows'[f] = IF flows[f].status = "asking"
                          THEN [flows[f] EXCEPT !.status = "thrown"] ELSE flows[f]
           /\ flows'[f].kind = flows[f].kind /\ flows'[f].request = flows[f].request
           /\ flows'[f].session = flows[f].session /\ flows'[f].todo = flows[f].todo
           /\ flows'[f].scenario = flows[f].scenario /\ flows'[f].answer = flows[f].answer
           /\ flows'[f].cancelled = flows[f].cancelled /\ flows'[f].count = flows[f].count
           /\ flows'[f].status = IF flows[f].status = "asking" THEN "thrown" ELSE flows[f].status
<1>1. flows[f] \in Flow
  BY FlowsAre DEF AgentInv
<1>2. flows'[f] = IF flows[f].status = "asking"
                  THEN [flows[f] EXCEPT !.status = "thrown"] ELSE flows[f]
  BY DEF EndMove
<1>3. DOMAIN flows' = DOMAIN flows
  BY DEF EndMove
<1> QED BY <1>1, <1>2, <1>3 DEF Flow

\* Closing the agent keeps the invariant: nobody waits, and the table is empty.
LEMMA EndKeeps ==
    ASSUME AgentInv, EndMove
    PROVE  AgentInv'
<1>1. /\ DOMAIN flows = 1 .. Len(flows) /\ Len(flows) \in Nat
      /\ DOMAIN flows' = DOMAIN flows
  BY FlowsAre DEF AgentInv, EndMove
<1>2. Grown /\ Counts
  BY SameGrows DEF EndMove
<1>3. flows' \in Seq(Flow) /\ Len(flows') = Len(flows)
  <2>1. flows' \in [1 .. Len(flows) -> Flow]
    BY <1>1, Thrown DEF EndMove
  <2>2. flows' \in Seq(Flow)
    BY <2>1, <1>1, SeqDef
  <2> QED BY <2>2, <1>1, LenProperties
<1>4. TypeInv'
  <2>1. /\ workload' \in Workloads /\ done' \in [Kinds -> Nat]
        /\ answers' \in [1 .. MaxId -> Nat]
    BY <1>2, CountTypes DEF AgentInv
  <2> QED BY <2>1, <1>1, <1>3 DEF TypeInv, AgentInv, EndMove, Silent
<1>5. CountInv'
  <2>1. {"initialize", "prompt", "replay"} \subseteq Kinds
    BY DEF Kinds, Requests
  <2>2. /\ done.initialize \in Nat /\ done'.initialize \in Nat /\ done.initialize <= done'.initialize
        /\ done.prompt \in Nat /\ done'.prompt \in Nat /\ done.prompt <= done'.prompt
        /\ done.replay \in Nat /\ done'.replay \in Nat /\ done.replay <= done'.replay
    BY <2>1, <1>2 DEF AgentInv, TypeInv, Counts
  <2>3. Len(flows') <= done'.prompt + done'.replay
    BY <2>2, <1>1, <1>3 DEF AgentInv, CountInv
  <2>4. version' # 0 => done'.initialize >= 1
    BY <2>2 DEF AgentInv, CountInv, EndMove
  <2>5. \A k \in Kinds : done'[k] <= workload'[k]
    BY <1>2 DEF Counts
  <2>6. version' = 0 => /\ sessions' = <<>> /\ flows' = <<>>
                        /\ \A s \in SessionIds : lastState'[s] = "none"
    <3> SUFFICES ASSUME version' = 0
                 PROVE  /\ sessions' = <<>> /\ flows' = <<>>
                        /\ \A s \in SessionIds : lastState'[s] = "none"
      OBVIOUS
    <3>1. /\ sessions = <<>> /\ flows = <<>>
          /\ \A s \in SessionIds : lastState[s] = "none"
      BY DEF AgentInv, CountInv, EndMove
    <3>2. flows' = <<>>
      BY <3>1, <1>3
    <3> QED BY <3>1, <3>2 DEF EndMove, Silent
  <2> QED BY <2>3, <2>4, <2>5, <2>6 DEF CountInv
<1>6. SessionInv'
  <2>1. \A f \in DOMAIN flows : /\ f \in DOMAIN flows' /\ flows'[f].kind = flows[f].kind
                                /\ flows'[f].session = flows[f].session
    BY Thrown
  <2> QED BY <2>1 DEF AgentInv, SessionInv, EndMove
<1>7. FlowInv'
  <2> SUFFICES ASSUME NEW f \in DOMAIN flows' PROVE FlowOK(flows[f])'
    BY DEF FlowInv
  <2>1. f \in DOMAIN flows
    BY <1>1
  <2>2. flows[f] \in Flow /\ FlowOK(flows[f])
    BY <2>1, FlowsAre DEF AgentInv, FlowInv
  <2>3. PICK fl \in Flow : fl = flows'[f]
    BY <2>1, Thrown
  <2>4. FlowOK(fl)
    <3>1. /\ fl.kind = flows[f].kind /\ fl.session = flows[f].session /\ fl.todo = flows[f].todo
          /\ fl.scenario = flows[f].scenario /\ fl.count = flows[f].count
          /\ fl.status = IF flows[f].status = "asking" THEN "thrown" ELSE flows[f].status
      BY <2>1, <2>3, Thrown
    <3>2. flows[f].kind = "replay" => flows[f].status # "asking"
      BY <2>2 DEF FlowOK
    <3> QED BY <2>2, <3>1, <3>2 DEF FlowOK, Runs, Over
  <2>5. FlowOK(fl)'
    BY <1>2, <2>4, FlowStays DEF AgentInv
  <2> QED BY <2>3, <2>5 DEF FlowOK, Runs, NoIllegalCall
<1>8. CallInv'
  <2>1. {f \in DOMAIN flows' : flows'[f].status = "asking"} = {}
    BY <1>1, Thrown
  <2>2. {p[2] : p \in pendingClientCalls'} = {}
    BY DEF EndMove
  <2> QED BY <2>1, <2>2 DEF CallInv, CallsHaveOwners, EndMove
<1>9. RequestInv'
  <2>1. NextId \in Nat /\ NextId' \in {NextId, NextId + 1}
    BY <1>2 DEF Counts
  <2>2. \A f \in DOMAIN flows' : /\ f \in DOMAIN flows /\ flows'[f].request = flows[f].request
                                 /\ flows[f].request \in Nat /\ flows[f].request < NextId
    BY <1>1, Thrown, FlowsAre DEF AgentInv, RequestInv, Flow
  <2>3. \A f \in DOMAIN flows' : flows'[f].request < NextId'
    BY <2>1, <2>2
  <2>4. \A f, g \in DOMAIN flows' : flows'[f].request = flows'[g].request => f = g
    BY <2>2 DEF AgentInv, RequestInv
  <2> QED BY <2>3, <2>4 DEF RequestInv, EndMove
<1> QED BY <1>4, <1>5, <1>6, <1>7, <1>8, <1>9 DEF AgentInv

\* Agreeing on a version keeps the invariant: there is nothing before it.
LEMMA StartKeeps ==
    ASSUME AgentInv, StartMove
    PROVE  AgentInv'
<1>1. /\ Counts /\ Silent /\ version' \in {1, 2} /\ done'.initialize >= 1
      /\ sessions = <<>> /\ flows = <<>>
      /\ UNCHANGED <<faults, sessions, promptContexts, flows, pendingClientCalls,
                     pendingSlowCalls, nextAgentRequestId>>
      /\ NextId' = NextId + 1
  BY DEF StartMove
<1>2. TypeInv'
  <2>1. /\ workload' \in Workloads /\ done' \in [Kinds -> Nat]
        /\ answers' \in [1 .. MaxId -> Nat]
    BY <1>1, CountTypes DEF AgentInv
  <2> QED BY <2>1, <1>1 DEF TypeInv, AgentInv, Silent
<1>3. CountInv'
  <2>1. {"prompt", "replay"} \subseteq Kinds
    BY DEF Kinds, Requests
  <2>2. done'.prompt \in Nat /\ done'.replay \in Nat
    BY <2>1, <1>1 DEF Counts
  <2>3. Len(flows') <= done'.prompt + done'.replay
    BY <2>2, <1>1
  <2> QED BY <2>3, <1>1 DEF CountInv, Counts
<1>4. SessionInv' /\ FlowInv' /\ CallInv'
  <2>1. DOMAIN sessions = {} /\ DOMAIN flows = {}
    BY <1>1
  <2>2. \A s \in SessionIds : promptContexts[s] = 0
    BY <2>1 DEF AgentInv, SessionInv
  <2>3. SessionInv'
    BY <1>1, <2>1, <2>2 DEF SessionInv
  <2>4. FlowInv'
    BY <1>1, <2>1 DEF FlowInv
  <2>5. CallInv'
    BY <1>1 DEF AgentInv, CallInv, CallsHaveOwners
  <2> QED BY <2>3, <2>4, <2>5
<1>5. RequestInv'
  <2>1. NextId \in Nat /\ NextId' \in Nat /\ DOMAIN flows' = {}
    BY <1>1 DEF Counts
  <2>2. \A id \in pendingSlowCalls : id \in Nat /\ id < NextId
    BY DEF AgentInv, RequestInv, TypeInv
  <2>3. \A id \in pendingSlowCalls : id < NextId'
    BY <1>1, <2>1, <2>2
  <2> QED BY <1>1, <2>1, <2>3 DEF RequestInv
<1> QED BY <1>2, <1>3, <1>4, <1>5 DEF AgentInv

-----------------------------------------------------------------------------
(* The invariant holds.                                                    *)

\* A step is one of these.
Step ==
    \/ Calm /\ CalmSays
    \/ \E f, fl, t, after : PromptMove(f, fl, t, after)
    \/ \E f, fl : PromptWaits(f, fl)
    \/ \E f, fl, after : ReplayMove(f, fl, after)
    \/ \E f : WakeMove(f)
    \/ \E f, s : CancelMove(f, s)
    \/ \E f, a, fl : AnswerMove(f, a, fl)
    \/ EndMove
    \/ StartMove

\* Every step is one of these and keeps the invariant.
LEMMA StepIs ==
    ASSUME AgentInv, Next
    PROVE  AgentInv' /\ Step
<1>1. CASE SendInitialize
  BY <1>1, InitializeIs, StartKeeps DEF Step
<1>2. CASE SendNew
  BY <1>2, NewIs, CalmKeeps DEF Step
<1>3. CASE SendScenario
  BY <1>3, ScenarioIs, CalmKeeps DEF Step
<1>4. CASE SendPrompt
  BY <1>4, PromptIs, CalmKeeps DEF Step
<1>5. CASE SendReplay
  BY <1>5, ReplayIs, CalmKeeps DEF Step
<1>6. CASE SendSlow
  BY <1>6, SlowIs, CalmKeeps DEF Step
<1>7. CASE SendOther
  BY <1>7, OtherIs, CalmKeeps DEF Step
<1>8. CASE SendGarbage
  BY <1>8, GarbageIs, CalmKeeps DEF Step
<1>9. CASE SendCancelRequest
  BY <1>9, CancelRequestIs, CalmKeeps DEF Step
<1>10. CASE SendClose
  BY <1>10, CloseIs, CalmKeeps DEF Step
<1>11. CASE SendCancel
  BY <1>11, CancelIs, CalmKeeps DEF Step
<1>12. CASE SendAnswer
  BY <1>12, AnswerIs, CalmKeeps DEF Step
<1>13. CASE EndAgent
  BY <1>13, EndIs, EndKeeps DEF Step
<1>14. ASSUME NEW f \in DOMAIN flows, FlowRuns(f)
       PROVE  AgentInv' /\ Step
  BY <1>14, ContinueIs DEF Step
<1>15. ASSUME NEW f \in DOMAIN flows, FlowWakes(f)
       PROVE  AgentInv' /\ Step
  BY <1>15, WakeIs DEF Step
<1>16. ASSUME NEW id \in pendingSlowCalls, TimerRuns(id)
       PROVE  AgentInv' /\ Step
  BY <1>16, TimerIs, CalmKeeps DEF Step
<1>17. CASE ClientStep
  BY <1>17, <1>1, <1>2, <1>3, <1>4, <1>5, <1>6, <1>7, <1>8, <1>9, <1>10, <1>11, <1>12, <1>13
     DEF ClientStep
<1> QED BY <1>14, <1>15, <1>16, <1>17 DEF Next

\* The invariant holds at the start.
LEMMA StartsRight == Init => AgentInv
<1> SUFFICES ASSUME Init PROVE AgentInv
  OBVIOUS
<1>1. /\ version = 0 /\ sessions = <<>> /\ flows = <<>>
      /\ promptContexts = [s \in 1 .. MaxSessions |-> 0]
      /\ pendingClientCalls = {} /\ pendingSlowCalls = {}
      /\ nextAgentRequestId = 1
      /\ workload \in Workloads
      /\ done = [k \in DOMAIN workload |-> 0]
      /\ answers = [id \in 1 .. MaxId |-> 0]
      /\ ended = [f \in Flows |-> "not"]
      /\ lastState = [s \in SessionIds |-> "none"]
      /\ cancelAsked = {} /\ cancelHeard = {} /\ denied = {}
  BY DEF Init, AgentInit
<1>2. workload \in [Kinds -> Nat]
  BY <1>1, ClientAssumption
<1>3. done = [k \in Kinds |-> 0]
  BY <1>1, <1>2
<1>4. TypeInv
  <2>1. sessions \in Seq(Session) /\ Len(sessions) <= MaxSessions
    BY <1>1, AgentAssumption
  <2>2. flows \in Seq(Flow) /\ DOMAIN flows = {}
    BY <1>1
  <2>3. promptContexts \in [SessionIds -> Nat]
    BY <1>1 DEF SessionIds
  <2> QED BY <1>1, <1>3, <2>1, <2>2, <2>3 DEF TypeInv
<1>5. CountInv
  <2>1. {"prompt", "replay"} \subseteq Kinds
    BY DEF Kinds, Requests
  <2>2. Len(flows) <= done.prompt + done.replay
    BY <1>1, <1>3, <2>1
  <2> QED BY <1>1, <1>2, <1>3, <2>2 DEF CountInv
<1>6. SessionInv /\ FlowInv /\ CallInv /\ RequestInv
  <2>1. DOMAIN sessions = {} /\ DOMAIN flows = {}
    BY <1>1
  <2>2. CallsHaveOwners
    BY <1>1, <2>1 DEF CallsHaveOwners
  <2>3. SessionInv
    BY <1>1, <2>1 DEF SessionInv, SessionIds
  <2> QED BY <1>1, <2>1, <2>2, <2>3 DEF FlowInv, CallInv, RequestInv
<1> QED BY <1>4, <1>5, <1>6 DEF AgentInv

\* A step that changes nothing keeps the invariant.
LEMMA StutterKeeps ==
    ASSUME AgentInv, UNCHANGED vars
    PROVE  AgentInv'
<1>1. /\ UNCHANGED <<faults, version, sessions, promptContexts, flows, pendingClientCalls,
                     pendingSlowCalls, nextAgentRequestId>>
      /\ UNCHANGED <<workload, done, answers, ended, lastState, cancelAsked, cancelHeard, denied>>
  BY DEF vars, agentVars, history
<1>2. TypeInv' /\ CountInv' /\ SessionInv'
  BY <1>1 DEF AgentInv, TypeInv, CountInv, SessionInv
<1>3. FlowInv'
  BY <1>1 DEF AgentInv, FlowInv, FlowOK, Runs, NoIllegalCall
<1>4. CallInv' /\ RequestInv'
  BY <1>1 DEF AgentInv, CallInv, CallsHaveOwners, RequestInv, NextId
<1> QED BY <1>2, <1>3, <1>4 DEF AgentInv

\* The invariant: the types, the counts of the client, the sessions' contexts, the
\* code of every flow, the calls and their owners, the requests and what is behind
\* them.
THEOREM AgentInvariant == Spec => []AgentInv
<1>1. AgentInv /\ [Next]_vars => AgentInv'
  BY StepIs, StutterKeeps
<1> QED BY StartsRight, <1>1, PTL DEF Spec

\* The variables have their types, the sessions are no more than they may be,
\* and what the properties remember is about flows there are.
THEOREM AgentTypes == Spec => []TypeInv
<1>1. AgentInv => TypeInv
  BY DEF AgentInv
<1> QED BY AgentInvariant, <1>1, PTL

\* A flow waits for exactly one call of the table and every call of the table
\* has its flow (requestClient, handleResponse and close of reference-agent.ts):
\* an answer wakes the code that asked and no other, however late it is and in
\* whatever order answers come.
THEOREM CallsAreOwned == Spec => []CallsHaveOwners
<1>1. AgentInv => CallsHaveOwners
  BY DEF AgentInv, CallInv
<1> QED BY AgentInvariant, <1>1, PTL

\* A replay that is answered has shown the whole conversation, with the entries
\* a running prompt added meanwhile: the loop over session.history reads the
\* live array.
THEOREM ReplaysAreComplete == Spec => ReplayIsComplete
<1> DEFINE Ended(f) == /\ flows[f].kind = "replay"
                       /\ flows[f].status # "done"
                       /\ flows'[f].status = "done"
           Whole(f) == flows'[f].count = Len(sessions'[flows[f].session].history)
<1>1. ASSUME AgentInv, Next, NEW f \in DOMAIN flows, Ended(f)
      PROVE  Whole(f)
  <2>1. Step /\ TypeInv
    BY <1>1, StepIs DEF AgentInv
  <2>2. ASSUME NEW g, NEW fl, Moves(g, fl)
        PROVE  /\ flows'[g] = fl
               /\ g # f => flows'[f] = flows[f]
               /\ g = f => fl.kind = "replay"
    <3>1. Put(g, fl) /\ flows \in Seq(Flow)
      BY <2>1, <2>2 DEF Moves, TypeInv
    <3>2. /\ flows'[g] = fl
          /\ \A h \in DOMAIN flows : h # g => flows'[h] = flows[h]
      BY <3>1, PutDomain
    <3>3. g = f => fl.kind = "replay"
      BY <1>1, <2>2 DEF Moves
    <3> QED BY <1>1, <3>2, <3>3
  <2>3. \A g \in DOMAIN flows : flows[g] \in Flow
    BY <2>1, FlowsAre
  <2>4. CASE Calm \/ StartMove
    BY <1>1, <2>4 DEF Calm, StartMove
  <2>5. CASE \E g, fl, t, after : PromptMove(g, fl, t, after)
    <3>1. PICK g, fl, t, after : PromptMove(g, fl, t, after)
      BY <2>5
    <3>2. Moves(g, after) /\ after.kind = "prompt"
      BY <3>1 DEF PromptMove, PromptRan, Ran
    <3> QED BY <1>1, <2>2, <3>2
  <2>6. CASE \E g, fl : PromptWaits(g, fl)
    <3>1. PICK g, fl : PromptWaits(g, fl)
      BY <2>6
    <3>2. Moves(g, fl) /\ fl.kind = "prompt"
      BY <3>1 DEF PromptWaits, PromptFlow, NewFlow
    <3> QED BY <1>1, <2>2, <3>2
  <2>7. CASE \E g, fl, after : ReplayMove(g, fl, after)
    <3>1. PICK g, fl, after : ReplayMove(g, fl, after)
      BY <2>7
    <3>2. /\ Moves(g, after) /\ sessions' = sessions
          /\ after.status = "done" => after.count = Len(sessions[fl.session].history)
          /\ g \in DOMAIN flows => fl = flows[g]
      <4>1. Len(flows) + 1 \notin DOMAIN flows
        BY <2>1, FlowsAre
      <4> QED BY <3>1, <4>1 DEF ReplayMove
    <3>3. g = f
      BY <1>1, <2>2, <3>2
    <3> QED BY <1>1, <2>2, <3>2, <3>3
  <2>8. CASE \E g : WakeMove(g)
    <3>1. PICK g : WakeMove(g)
      BY <2>8
    <3>2. /\ Moves(g, [flows[g] EXCEPT !.status = "ready"])
          /\ [flows[g] EXCEPT !.status = "ready"].status = "ready"
      BY <2>3, <3>1 DEF WakeMove, Flow
    <3> QED BY <1>1, <2>2, <3>2
  <2>9. CASE \E g, s : CancelMove(g, s)
    <3>1. PICK g, s : CancelMove(g, s)
      BY <2>9
    <3>2. /\ Moves(g, [flows[g] EXCEPT !.cancelled = TRUE])
          /\ [flows[g] EXCEPT !.cancelled = TRUE].status = flows[g].status
      BY <2>3, <3>1 DEF CancelMove, Flow
    <3> QED BY <1>1, <2>2, <3>2
  <2>10. CASE \E g, a, fl : AnswerMove(g, a, fl)
    <3>1. PICK g, a, fl : AnswerMove(g, a, fl)
      BY <2>10
    <3>2. Moves(g, fl) /\ fl.status \in {"thrown", "ready"}
      BY <2>3, <3>1 DEF AnswerMove, Flow
    <3> QED BY <1>1, <2>2, <3>2
  <2>11. CASE EndMove
    BY <1>1, <2>11, Thrown
  <2> QED BY <2>1, <2>4, <2>5, <2>6, <2>7, <2>8, <2>9, <2>10, <2>11 DEF Step
<1>2. ASSUME AgentInv, [Next]_vars
      PROVE  [\A f \in DOMAIN flows : Ended(f) => Whole(f)]_vars
  BY <1>1, <1>2
<1>3. AgentInv /\ [Next]_vars => [\A f \in DOMAIN flows : Ended(f) => Whole(f)]_vars
  BY <1>2
<1>4. [][\A f \in DOMAIN flows : Ended(f) => Whole(f)]_vars <=> ReplayIsComplete
  BY DEF ReplayIsComplete
<1> QED BY AgentInvariant, <1>3, <1>4, PTL DEF Spec

-----------------------------------------------------------------------------
(* What a step leaves alone.                                               *)

\* A step that moves f leaves the other flows as they are.
LEMMA Others ==
    ASSUME AgentInv, NEW f, NEW fl, Moves(f, fl)
    PROVE  /\ DOMAIN flows' = DOMAIN flows \cup {f} /\ flows'[f] = fl
           /\ \A g \in DOMAIN flows' : g # f => g \in DOMAIN flows /\ flows'[g] = flows[g]
           /\ \A g \in DOMAIN flows : g # f => g \in DOMAIN flows' /\ flows'[g] = flows[g]
<1>1. Put(f, fl) /\ flows \in Seq(Flow)
  BY DEF Moves, AgentInv, TypeInv
<1>2. /\ DOMAIN flows' = DOMAIN flows \cup {f} /\ flows'[f] = fl
      /\ \A g \in DOMAIN flows : g # f => flows'[g] = flows[g]
  BY <1>1, PutDomain
<1> QED BY <1>2

\* Flow f is touched: its code stays.
Touched(f, fl) ==
    /\ f \in DOMAIN flows /\ Moves(f, fl) /\ out' = <<>>
    /\ fl \in Flow
    /\ fl.kind = flows[f].kind /\ fl.request = flows[f].request
    /\ fl.session = flows[f].session /\ fl.todo = flows[f].todo
    /\ fl.scenario = flows[f].scenario

\* Waking touches a flow.
LEMMA WakeTouches ==
    ASSUME AgentInv, NEW f, WakeMove(f)
    PROVE  \E fl : /\ Touched(f, fl) /\ fl.status = "ready"
                   /\ flows[f].status = "sleeping"
                   /\ fl.cancelled = flows[f].cancelled /\ fl.answer = flows[f].answer
<1> DEFINE fl == [flows[f] EXCEPT !.status = "ready"]
<1>1. flows[f] \in Flow
  BY FlowsAre DEF AgentInv, WakeMove
<1>2. /\ fl \in Flow /\ fl.kind = flows[f].kind /\ fl.request = flows[f].request
      /\ fl.session = flows[f].session /\ fl.todo = flows[f].todo
      /\ fl.scenario = flows[f].scenario /\ fl.status = "ready"
      /\ fl.cancelled = flows[f].cancelled /\ fl.answer = flows[f].answer
  BY <1>1 DEF Flow
<1>3. f \in DOMAIN flows /\ Moves(f, fl) /\ out' = <<>> /\ flows[f].status = "sleeping"
  BY DEF WakeMove
<1> HIDE DEF fl
<1> QED BY <1>2, <1>3 DEF Touched

\* A cancel touches a flow and raises its flag.
LEMMA CancelTouches ==
    ASSUME AgentInv, NEW f, NEW s, CancelMove(f, s)
    PROVE  \E fl : /\ Touched(f, fl) /\ fl.status = flows[f].status
                   /\ fl.cancelled = TRUE /\ fl.answer = flows[f].answer
<1> DEFINE fl == [flows[f] EXCEPT !.cancelled = TRUE]
<1>1. flows[f] \in Flow
  BY FlowsAre DEF AgentInv, CancelMove
<1>2. /\ fl \in Flow /\ fl.kind = flows[f].kind /\ fl.request = flows[f].request
      /\ fl.session = flows[f].session /\ fl.todo = flows[f].todo
      /\ fl.scenario = flows[f].scenario /\ fl.status = flows[f].status
      /\ fl.cancelled = TRUE /\ fl.answer = flows[f].answer
  BY <1>1 DEF Flow
<1>3. f \in DOMAIN flows /\ Moves(f, fl) /\ out' = <<>>
  BY DEF CancelMove
<1> HIDE DEF fl
<1> QED BY <1>2, <1>3 DEF Touched

\* An answer touches the flow that waited for it.
LEMMA AnswerTouches ==
    ASSUME AgentInv, NEW f, NEW a, NEW fl, AnswerMove(f, a, fl)
    PROVE  /\ Touched(f, fl) /\ fl.status \in {"thrown", "ready"}
           /\ flows[f].status = "asking" /\ fl.cancelled = flows[f].cancelled
           /\ a # "invalid" => fl.answer = a
<1>1. flows[f] \in Flow
  BY FlowsAre DEF AgentInv, AnswerMove
<1>2. f \in DOMAIN flows /\ Moves(f, fl) /\ out' = <<>> /\ flows[f].status = "asking"
  BY DEF AnswerMove
<1>3. fl \in Flow
  BY <1>2 DEF Moves, Put
<1>4. CASE a = "invalid" /\ fl = [flows[f] EXCEPT !.status = "thrown"]
  BY <1>1, <1>2, <1>3, <1>4 DEF Flow, Touched
<1>5. CASE fl = [flows[f] EXCEPT !.status = "ready", !.answer = a]
  BY <1>1, <1>2, <1>3, <1>5 DEF Flow, Touched
<1> QED BY <1>4, <1>5 DEF AnswerMove

-----------------------------------------------------------------------------
(* One answer for a request.                                               *)

\* The request has not been answered: it is still to come, or its timer or its
\* flow is to answer it.
MayAnswer(id) ==
    \/ id >= NextId
    \/ id \in pendingSlowCalls
    \/ \E f \in DOMAIN flows : flows[f].request = id /\ Has(flows[f].todo, Owing)

AnswerInv ==
    \A id \in DOMAIN answers : /\ answers[id] <= 1
                               /\ MayAnswer(id) => answers[id] = 0

\* Nothing becomes unanswered again, and an answer is for a request that was
\* unanswered and no longer is.
Settles ==
    /\ Counts
    /\ \A id \in Nat : MayAnswer(id)' => MayAnswer(id)
    /\ \/ out' = <<>>
       \/ \E m : /\ out' = <<m>>
                 /\ m.type = "response" =>
                      m.id = 0 \/ (m.id \in Nat /\ MayAnswer(m.id) /\ ~MayAnswer(m.id)')

\* A step that settles keeps the count of answers at one.
LEMMA SettlesKeeps ==
    ASSUME AgentInv, AnswerInv, Settles
    PROVE  AnswerInv'
<1>1. /\ DOMAIN answers = 1 .. MaxId /\ \A id \in DOMAIN answers : answers[id] \in Nat
      /\ \A id \in DOMAIN answers : id \in Nat /\ id # 0
  <2>1. answers \in [1 .. MaxId -> Nat]
    BY DEF AgentInv, TypeInv
  <2>2. \A id \in 1 .. MaxId : id \in Nat /\ id # 0
    OBVIOUS
  <2> QED BY <2>1, <2>2
<1>2. CountAnswers
  BY DEF Settles, Counts
<1>3. CASE answers' = answers
  BY <1>1, <1>3 DEF AnswerInv, Settles
<1>4. ASSUME NEW m, out' = <<m>>, m.type = "response",
             m.id = 0 \/ (m.id \in Nat /\ MayAnswer(m.id) /\ ~MayAnswer(m.id)')
      PROVE  AnswerInv'
  <2>1. answers' = [id \in DOMAIN answers |->
                       IF m.id = id THEN answers[id] + 1 ELSE answers[id]]
    BY <1>2, <1>4, Tally DEF AgentInv
  <2>2. DOMAIN answers' = DOMAIN answers
    BY <2>1
  <2> SUFFICES ASSUME NEW id \in DOMAIN answers
               PROVE  answers'[id] <= 1 /\ (MayAnswer(id)' => answers'[id] = 0)
    BY <2>2 DEF AnswerInv
  <2>3. CASE m.id = id
    <3>1. MayAnswer(id) /\ ~MayAnswer(id)'
      BY <1>1, <1>4, <2>3
    <3>2. answers[id] = 0
      BY <3>1 DEF AnswerInv
    <3>3. answers'[id] = 1
      BY <2>1, <2>3, <3>2
    <3> QED BY <3>1, <3>3
  <2>4. CASE m.id # id
    <3>1. answers'[id] = answers[id]
      BY <2>1, <2>4
    <3> QED BY <1>1, <3>1 DEF AnswerInv, Settles
  <2> QED BY <2>3, <2>4
<1>5. out' = <<>> => answers' = answers
  BY <1>2, Tally DEF AgentInv
<1>6. \A m : out' = <<m>> /\ m.type # "response" => answers' = answers
  BY <1>2, Tally DEF AgentInv
<1> QED BY <1>3, <1>4, <1>5, <1>6 DEF Settles

\* A step without a flow answers its own request, or a slow call it removes.
LEMMA CalmSettles ==
    ASSUME AgentInv, Calm, CalmSays
    PROVE  Settles
<1>1. /\ Counts /\ flows' = flows
      /\ NextId \in Nat /\ NextId' \in {NextId, NextId + 1}
      /\ pendingSlowCalls' \subseteq pendingSlowCalls \cup {NextId}
      /\ \A f \in DOMAIN flows : /\ flows[f].request \in Nat /\ flows[f].request < NextId
                                 /\ flows[f].request \notin pendingSlowCalls
      /\ \A id \in pendingSlowCalls : id \in Nat /\ id < NextId
  BY FlowsAre DEF Calm, Counts, AgentInv, TypeInv, RequestInv, Flow
<1>2. ASSUME NEW id \in Nat, MayAnswer(id)' PROVE MayAnswer(id)
  <2>1. CASE id >= NextId'
    <3>1. id >= NextId
      BY <1>1, <1>2, <2>1
    <3> QED BY <3>1 DEF MayAnswer
  <2>2. CASE id \in pendingSlowCalls'
    <3>1. id \in pendingSlowCalls \/ id >= NextId
      BY <1>1, <2>2
    <3> QED BY <3>1 DEF MayAnswer
  <2>3. CASE \E f \in DOMAIN flows' : flows'[f].request = id /\ Has(flows'[f].todo, Owing)
    BY <1>1, <2>3 DEF MayAnswer
  <2> QED BY <1>2, <2>1, <2>2, <2>3 DEF MayAnswer
<1>3. ASSUME NEW m, out' = <<m>>, m.id = NextId, NextId' = NextId + 1,
             NextId \notin pendingSlowCalls'
      PROVE  m.id \in Nat /\ MayAnswer(m.id) /\ ~MayAnswer(m.id)'
  <2>1. m.id \in Nat /\ m.id >= NextId /\ ~(m.id >= NextId')
    BY <1>1, <1>3
  <2>2. \A f \in DOMAIN flows : flows[f].request # m.id
    BY <1>1, <1>3
  <2> QED BY <1>1, <1>3, <2>1, <2>2 DEF MayAnswer
<1>4. ASSUME NEW m, out' = <<m>>, m.id \in pendingSlowCalls, m.id \notin pendingSlowCalls'
      PROVE  m.id \in Nat /\ MayAnswer(m.id) /\ ~MayAnswer(m.id)'
  <2>1. m.id \in Nat /\ ~(m.id >= NextId')
    BY <1>1, <1>4
  <2>2. \A f \in DOMAIN flows : flows[f].request # m.id
    BY <1>1, <1>4
  <2> QED BY <1>1, <1>4, <2>1, <2>2 DEF MayAnswer
<1>5. \/ out' = <<>>
      \/ \E m : /\ out' = <<m>>
                /\ m.type = "response" =>
                     m.id = 0 \/ (m.id \in Nat /\ MayAnswer(m.id) /\ ~MayAnswer(m.id)')
  <2>1. CASE out' = <<>>
    BY <2>1
  <2>2. ASSUME NEW m, out' = <<m>>,
               m.type = "response" =>
                 \/ m.id = 0
                 \/ m.id = NextId /\ NextId' = NextId + 1 /\ NextId \notin pendingSlowCalls'
                 \/ m.id \in pendingSlowCalls /\ m.id \notin pendingSlowCalls'
        PROVE  m.type = "response" =>
                 m.id = 0 \/ (m.id \in Nat /\ MayAnswer(m.id) /\ ~MayAnswer(m.id)')
    BY <2>2, <1>3, <1>4
  <2> QED BY <2>1, <2>2 DEF CalmSays
<1> QED BY <1>1, <1>2, <1>5 DEF Settles

\* A step after which no flow owes what it did not owe.
LEMMA NoneOwes ==
    ASSUME AgentInv, Counts, pendingSlowCalls' \subseteq pendingSlowCalls,
           \A f \in DOMAIN flows' : Has(flows'[f].todo, Owing) =>
              \/ flows'[f].request = NextId
              \/ \E g \in DOMAIN flows : /\ flows[g].request = flows'[f].request
                                         /\ Has(flows[g].todo, Owing),
           NEW id \in Nat, MayAnswer(id)'
    PROVE  MayAnswer(id)
<1>1. NextId \in Nat /\ NextId' \in {NextId, NextId + 1}
  BY DEF Counts
<1>2. CASE id >= NextId'
  <2>1. id >= NextId
    BY <1>1, <1>2
  <2> QED BY <2>1 DEF MayAnswer
<1>3. CASE id \in pendingSlowCalls'
  BY <1>3 DEF MayAnswer
<1>4. CASE \E f \in DOMAIN flows' : flows'[f].request = id /\ Has(flows'[f].todo, Owing)
  <2>1. PICK f \in DOMAIN flows' : flows'[f].request = id /\ Has(flows'[f].todo, Owing)
    BY <1>4
  <2>2. CASE flows'[f].request = NextId
    <3>1. id >= NextId
      BY <1>1, <2>1, <2>2
    <3> QED BY <3>1 DEF MayAnswer
  <2>3. CASE \E g \in DOMAIN flows : /\ flows[g].request = flows'[f].request
                                     /\ Has(flows[g].todo, Owing)
    BY <2>1, <2>3 DEF MayAnswer
  <2> QED BY <2>1, <2>2, <2>3
<1> QED BY <1>2, <1>3, <1>4 DEF MayAnswer

\* A flow that answers its request runs code that owed it, and owes it no more.
LEMMA RanSettles ==
    ASSUME AgentInv, AgentInv', NEW f, NEW fl \in Flow, NEW t \in Seq(Segments), NEW after,
           Moves(f, after), Ran(f, fl, t, after), t # <<>>, t[1].op \in Plain1,
           Once(t, Owing),
           f \in DOMAIN flows /\ Has(t, Owing) => Has(flows[f].todo, Owing)
    PROVE  Settles
<1> DEFINE r == Tail(t)
<1>1. /\ DOMAIN flows' = DOMAIN flows \cup {f} /\ flows'[f] = after
      /\ \A g \in DOMAIN flows' : g # f => g \in DOMAIN flows /\ flows'[g] = flows[g]
  BY Others
<1>2. /\ after.todo = r /\ after.request = fl.request
      /\ f \in DOMAIN flows => flows[f].request = fl.request
      /\ f \notin DOMAIN flows => fl.request = NextId
  BY DEF Ran, Moves
<1>3. Has(r, Owing) => Has(t, Owing)
  BY TailIs
<1> HIDE DEF r
<1>4. Counts /\ pendingSlowCalls' = pendingSlowCalls
  BY DEF Moves
<1>5. ASSUME NEW id \in Nat, MayAnswer(id)' PROVE MayAnswer(id)
  <2>1. ASSUME NEW g \in DOMAIN flows', Has(flows'[g].todo, Owing)
        PROVE  \/ flows'[g].request = NextId
               \/ \E h \in DOMAIN flows : /\ flows[h].request = flows'[g].request
                                          /\ Has(flows[h].todo, Owing)
    <3>1. CASE g # f
      BY <1>1, <2>1, <3>1
    <3>2. CASE g = f
      BY <1>1, <1>2, <1>3, <2>1, <3>2
    <3> QED BY <3>1, <3>2
  <2> QED BY <1>4, <1>5, <2>1, NoneOwes
<1>6. t[1] \in Segments /\ out' = Emitted(fl, t[1])
  BY RanSpeaks
<1>7. ASSUME t[1].op = "reply"
      PROVE  fl.request \in Nat /\ MayAnswer(fl.request) /\ ~MayAnswer(fl.request)'
  <2>1. fl.request \in Nat
    BY DEF Flow
  <2>2. 1 \in DOMAIN t /\ Has(t, Owing)
    <3>1. 1 \in DOMAIN t
      BY LenProperties, EmptySeq
    <3> QED BY <3>1, <1>7 DEF Has, Owing
  <2>3. MayAnswer(fl.request)
    <3>1. CASE f \in DOMAIN flows
      BY <1>2, <2>2, <3>1 DEF MayAnswer
    <3>2. CASE f \notin DOMAIN flows
      <4>1. NextId >= NextId
        BY <1>4 DEF Counts
      <4> QED BY <1>2, <3>2, <4>1 DEF MayAnswer
    <3> QED BY <3>1, <3>2
  <2>4. ~Has(r, Owing)
    <3>1. t[1].op \in Owing
      BY <1>7 DEF Owing
    <3> QED BY <3>1, TailIs DEF r
  <2>5. ~MayAnswer(fl.request)'
    <3>1. /\ \A g \in DOMAIN flows' : flows'[g].request = fl.request => g = f
          /\ fl.request < NextId' /\ fl.request \notin pendingSlowCalls'
      <4>1. f \in DOMAIN flows' /\ flows'[f].request = fl.request
        BY <1>1, <1>2
      <4> QED BY <4>1 DEF AgentInv, RequestInv
    <3>2. NextId' \in Nat
      BY <1>4 DEF Counts
    <3>3. ~(fl.request >= NextId')
      BY <2>1, <3>1, <3>2
    <3> QED BY <1>1, <1>2, <2>4, <3>1, <3>3 DEF MayAnswer
  <2> QED BY <2>1, <2>3, <2>5
<1>8. \/ out' = <<>>
      \/ \E m : /\ out' = <<m>>
                /\ m.type = "response" =>
                     m.id = 0 \/ (m.id \in Nat /\ MayAnswer(m.id) /\ ~MayAnswer(m.id)')
  <2>1. CASE Emitted(fl, t[1]) = <<>>
    BY <1>6, <2>1
  <2>2. ASSUME NEW m, Emitted(fl, t[1]) = <<m>>,
               m.type = "response" <=> t[1].op = "reply",
               t[1].op = "reply" => m.id = fl.request
        PROVE  m.type = "response" =>
                 m.id = 0 \/ (m.id \in Nat /\ MayAnswer(m.id) /\ ~MayAnswer(m.id)')
    <3>1. CASE t[1].op = "reply"
      <4>1. m.id = fl.request
        BY <2>2, <3>1
      <4> QED BY <1>7, <3>1, <4>1
    <3>2. CASE t[1].op # "reply"
      BY <2>2, <3>2
    <3> QED BY <3>1, <3>2
  <2>3. \/ Emitted(fl, t[1]) = <<>>
        \/ \E m : /\ Emitted(fl, t[1]) = <<m>>
                  /\ m.type = "response" <=> t[1].op = "reply"
                  /\ t[1].op = "reply" => m.id = fl.request
    BY <1>6, EmittedIs
  <2> QED BY <1>6, <2>1, <2>2, <2>3
<1> QED BY <1>4, <1>5, <1>8 DEF Settles

\* Touching a flow answers nothing.
LEMMA TouchedSettles ==
    ASSUME AgentInv, NEW f, NEW fl, Touched(f, fl)
    PROVE  Settles
<1>1. /\ DOMAIN flows' = DOMAIN flows \cup {f} /\ flows'[f] = fl
      /\ \A g \in DOMAIN flows' : g # f => g \in DOMAIN flows /\ flows'[g] = flows[g]
  BY Others DEF Touched
<1>2. \A g \in DOMAIN flows' : /\ g \in DOMAIN flows /\ flows'[g].request = flows[g].request
                               /\ flows'[g].todo = flows[g].todo
  BY <1>1 DEF Touched
<1>3. Counts /\ pendingSlowCalls' = pendingSlowCalls /\ out' = <<>>
  BY DEF Touched, Moves
<1>4. \A id \in Nat : MayAnswer(id)' => MayAnswer(id)
  <2>1. \A g \in DOMAIN flows' : Has(flows'[g].todo, Owing) =>
           \E h \in DOMAIN flows : /\ flows[h].request = flows'[g].request
                                   /\ Has(flows[h].todo, Owing)
    BY <1>2
  <2> QED BY <1>3, <2>1, NoneOwes
<1> QED BY <1>3, <1>4 DEF Settles

\* Closing the agent answers nothing.
LEMMA EndSettles ==
    ASSUME AgentInv, EndMove
    PROVE  Settles
<1>1. \A g \in DOMAIN flows' : /\ g \in DOMAIN flows /\ flows'[g].request = flows[g].request
                               /\ flows'[g].todo = flows[g].todo
  <2>1. DOMAIN flows' = DOMAIN flows
    BY DEF EndMove
  <2> QED BY <2>1, Thrown
<1>2. Counts /\ pendingSlowCalls' \subseteq pendingSlowCalls /\ out' = <<>>
  BY DEF EndMove
<1>3. \A id \in Nat : MayAnswer(id)' => MayAnswer(id)
  <2>1. \A g \in DOMAIN flows' : Has(flows'[g].todo, Owing) =>
           \E h \in DOMAIN flows : /\ flows[h].request = flows'[g].request
                                   /\ Has(flows[h].todo, Owing)
    BY <1>1
  <2> QED BY <1>2, <2>1, NoneOwes
<1> QED BY <1>2, <1>3 DEF Settles

\* The answer of the step's own request.
LEMMA OwnSettles ==
    ASSUME AgentInv, Counts, NextId' = NextId + 1, pendingSlowCalls' = pendingSlowCalls,
           out' = <<Response(NextId, "ok")>>,
           \A f \in DOMAIN flows' : Has(flows'[f].todo, Owing) =>
              f \in DOMAIN flows /\ flows'[f] = flows[f]
    PROVE  Settles
<1>1. NextId \in Nat /\ NextId \notin pendingSlowCalls
  BY NextIdIsNew
<1>2. \A f \in DOMAIN flows' : Has(flows'[f].todo, Owing) =>
           \E g \in DOMAIN flows : /\ flows[g].request = flows'[f].request
                                   /\ Has(flows[g].todo, Owing)
  OBVIOUS
<1>3. \A id \in Nat : MayAnswer(id)' => MayAnswer(id)
  BY <1>2, NoneOwes
<1>4. MayAnswer(NextId)
  BY <1>1 DEF MayAnswer
<1>5. ASSUME NEW id, id = NextId PROVE ~MayAnswer(id)'
  <2>1. ~(id >= NextId')
    BY <1>1, <1>5
  <2>2. \A f \in DOMAIN flows : flows[f].request < NextId /\ flows[f].request \in Nat
    BY FlowsAre DEF AgentInv, RequestInv, Flow
  <2>3. \A f \in DOMAIN flows' : ~(flows'[f].request = id /\ Has(flows'[f].todo, Owing))
    BY <1>1, <1>5, <2>2
  <2> QED BY <1>1, <1>5, <2>1, <2>3 DEF MayAnswer
<1>6. Response(NextId, "ok").id = NextId
  BY DEF Response, Msg
<1>7. PICK m : out' = <<m>> /\ m.id = NextId
  BY <1>6
<1>8. m.id \in Nat /\ MayAnswer(m.id) /\ ~MayAnswer(m.id)'
  <2>1. MayAnswer(m.id)
    BY <1>4, <1>7
  <2>2. ~MayAnswer(m.id)'
    BY <1>5, <1>7
  <2> QED BY <1>1, <1>7, <2>1, <2>2
<1> QED BY <1>3, <1>7, <1>8 DEF Settles

\* A v1 turn answers its request when its code does, once.
LEMMA PromptSettles ==
    ASSUME AgentInv, AgentInv', NEW f, NEW fl, NEW t, NEW after, PromptMove(f, fl, t, after)
    PROVE  Settles
<1>1. /\ fl \in Flow /\ t \in Seq(Segments) /\ Moves(f, after) /\ Ran(f, fl, t, after)
      /\ Leads(fl, t)
  BY DEF PromptMove, PromptRan
<1>2. t # <<>> /\ t[1].op \in Plain1
  BY <1>1 DEF Leads
<1>3. Once(t, Owing)
  <2>1. [fl EXCEPT !.todo = t].todo = t
    BY <1>1 DEF Flow
  <2> QED BY <1>1, <2>1 DEF Leads, Runs, Code
<1>4. f \in DOMAIN flows /\ Has(t, Owing) => Has(flows[f].todo, Owing)
  <2> SUFFICES ASSUME f \in DOMAIN flows, Has(t, Owing) PROVE Has(flows[f].todo, Owing)
    OBVIOUS
  <2>1. fl = flows[f]
    <3>1. Len(flows) + 1 \notin DOMAIN flows
      BY FlowsAre DEF AgentInv
    <3> QED BY <3>1 DEF PromptMove
  <2>2. FlowOK(fl) /\ fl.kind = "prompt"
    BY <2>1 DEF AgentInv, FlowInv, PromptMove
  <2>3. version = 1 => ~Has(fl.todo, {"start"})
    BY <2>2 DEF FlowOK
  <2> QED BY <1>1, <2>1, <2>3 DEF Leads
<1> QED BY <1>1, <1>2, <1>3, <1>4, RanSettles

\* A replay answers its request at its end, once.
LEMMA ReplaySettles ==
    ASSUME AgentInv, AgentInv', NEW f, NEW fl, NEW after, ReplayMove(f, fl, after)
    PROVE  Settles
<1>1. /\ Moves(f, after) /\ ReplayRan(f, fl, after) /\ fl.kind = "replay"
      /\ \/ f \in DOMAIN flows /\ fl = flows[f] /\ fl.status = "ready"
         \/ f = Len(flows) + 1 /\ fl = ReplayFlow(fl.session)
  BY DEF ReplayMove
<1> DEFINE entries == Goto("entries")
<1>2. entries \in Segments /\ entries.op = "entries"
  BY DEF Goto, Segment, Segments, Branching
<1>3. PICK seg \in Segments :
         \/ seg.op = "replay" /\ Ran(f, fl, <<seg, entries>>, after)
         \/ seg.op = "reply" /\ Ran(f, fl, <<seg>>, after)
  BY <1>1 DEF ReplayRan
<1>4. fl \in Flow
  <2>1. CASE f \in DOMAIN flows /\ fl = flows[f]
    BY <2>1, FlowsAre DEF AgentInv
  <2>2. CASE f = Len(flows) + 1 /\ fl = ReplayFlow(fl.session)
    <3>1. f \notin DOMAIN flows
      BY <2>2, FlowsAre DEF AgentInv
    <3>2. version # 0 /\ after.session = fl.session /\ after \in Flow
      BY <1>1, <1>3, <3>1 DEF Moves, Ran, Put
    <3>3. fl.session \in Nat
      BY <3>2 DEF Flow
    <3> HIDE DEF entries
    <3>4. <<entries>> \in Seq(Segments)
      BY <1>2
    <3>5. NextId \in Nat
      BY NextIdIsNew
    <3>6. ReplayFlow(fl.session) \in Flow
      BY <3>3, <3>4, <3>5 DEF ReplayFlow, NewFlow, Flow, Names, entries
    <3> QED BY <2>2, <3>6
  <2> QED BY <1>1, <2>1, <2>2
<1>5. f \in DOMAIN flows => Has(flows[f].todo, Owing)
  <2> SUFFICES ASSUME f \in DOMAIN flows PROVE Has(flows[f].todo, Owing)
    OBVIOUS
  <2>1. fl = flows[f] /\ fl.status = "ready"
    <3>1. Len(flows) + 1 \notin DOMAIN flows
      BY FlowsAre DEF AgentInv
    <3> QED BY <1>1, <3>1
  <2>2. fl.todo = <<entries>>
    BY <1>1, <2>1 DEF AgentInv, FlowInv, FlowOK, Over
  <2> HIDE DEF entries
  <2>3. 1 \in DOMAIN <<entries>> /\ <<entries>>[1].op \in Owing
    BY <1>2 DEF Owing
  <2> QED BY <2>1, <2>2, <2>3 DEF Has
<1> HIDE DEF entries
<1>6. CASE seg.op = "replay" /\ Ran(f, fl, <<seg, entries>>, after)
  <2> DEFINE t == <<seg, entries>>
  <2>1. /\ t \in Seq(Segments) /\ t # <<>> /\ t[1] = seg /\ t[2] = entries /\ DOMAIN t = {1, 2}
        /\ Ran(f, fl, t, after)
    BY <1>2, <1>6
  <2> HIDE DEF t
  <2>2. Once(t, Owing) /\ t[1].op \in Plain1
    BY <1>2, <1>6, <2>1 DEF Once, Owing, Plain1
  <2> QED BY <1>1, <1>4, <1>5, <2>1, <2>2, RanSettles
<1>7. CASE seg.op = "reply" /\ Ran(f, fl, <<seg>>, after)
  <2> DEFINE t == <<seg>>
  <2>1. /\ t \in Seq(Segments) /\ t # <<>> /\ t[1] = seg /\ DOMAIN t = {1}
        /\ Ran(f, fl, t, after)
    BY <1>7
  <2> HIDE DEF t
  <2>2. Once(t, Owing) /\ t[1].op \in Plain1
    BY <1>7, <2>1 DEF Once, Plain1
  <2> QED BY <1>1, <1>4, <1>5, <2>1, <2>2, RanSettles
<1> QED BY <1>3, <1>6, <1>7

\* Every step settles.
LEMMA StepSettles ==
    ASSUME AgentInv, Next
    PROVE  AgentInv' /\ Settles
<1>1. AgentInv' /\ Step
  BY StepIs
<1>2. CASE Calm /\ CalmSays
  BY <1>1, <1>2, CalmSettles
<1>3. CASE \E f, fl, t, after : PromptMove(f, fl, t, after)
  BY <1>1, <1>3, PromptSettles
<1>4. CASE \E f, fl : PromptWaits(f, fl)
  <2>1. PICK f, fl : PromptWaits(f, fl)
    BY <1>4
  <2>2. /\ Moves(f, fl) /\ f = Len(flows) + 1 /\ fl = PromptFlow(fl.session)
        /\ out' = <<Response(NextId, "ok")>>
    BY <2>1 DEF PromptWaits
  <2>3. f \notin DOMAIN flows
    BY <2>2, FlowsAre DEF AgentInv
  <2>4. Counts /\ NextId' = NextId + 1 /\ pendingSlowCalls' = pendingSlowCalls
    BY <2>2, <2>3 DEF Moves
  <2>5. ~Has(fl.todo, Owing)
    <3>1. fl.todo = <<Goto("start")>> /\ Goto("start").op = "start"
      BY <2>2 DEF PromptFlow, NewFlow, Goto, Segment
    <3> QED BY <3>1 DEF Has, Owing
  <2>6. ASSUME NEW g \in DOMAIN flows', Has(flows'[g].todo, Owing)
        PROVE  g \in DOMAIN flows /\ flows'[g] = flows[g]
    BY <2>2, <2>5, <2>6, Others
  <2> QED BY <1>1, <2>2, <2>4, <2>6, OwnSettles
<1>5. CASE \E f, fl, after : ReplayMove(f, fl, after)
  BY <1>1, <1>5, ReplaySettles
<1>6. CASE \E f : WakeMove(f)
  BY <1>1, <1>6, WakeTouches, TouchedSettles
<1>7. CASE \E f, s : CancelMove(f, s)
  BY <1>1, <1>7, CancelTouches, TouchedSettles
<1>8. CASE \E f, a, fl : AnswerMove(f, a, fl)
  BY <1>1, <1>8, AnswerTouches, TouchedSettles
<1>9. CASE EndMove
  BY <1>1, <1>9, EndSettles
<1>10. CASE StartMove
  <2>1. /\ Counts /\ NextId' = NextId + 1 /\ pendingSlowCalls' = pendingSlowCalls
        /\ out' = <<Response(NextId, "ok")>> /\ flows' = <<>>
    BY <1>10 DEF StartMove
  <2>2. DOMAIN flows' = {}
    BY <2>1
  <2> QED BY <1>1, <2>1, <2>2, OwnSettles
<1> QED BY <1>1, <1>2, <1>3, <1>4, <1>5, <1>6, <1>7, <1>8, <1>9, <1>10 DEF Step

\* No request is answered twice, whatever timers, cancellations, second
\* prompts, replays and late answers do at the same time.
THEOREM RequestsAreAnsweredOnce == Spec => []AnsweredOnce
<1>1. Init => AnswerInv
  <2> SUFFICES ASSUME Init PROVE AnswerInv
    OBVIOUS
  <2>1. answers = [id \in 1 .. MaxId |-> 0]
    BY DEF Init
  <2> QED BY <2>1 DEF AnswerInv
<1>2. AgentInv /\ AnswerInv /\ [Next]_vars => AnswerInv'
  <2> SUFFICES ASSUME AgentInv, AnswerInv, [Next]_vars PROVE AnswerInv'
    OBVIOUS
  <2>1. CASE Next
    BY <2>1, StepSettles, SettlesKeeps
  <2>2. CASE UNCHANGED vars
    <3>1. UNCHANGED <<answers, done, pendingSlowCalls, flows>>
      BY <2>2 DEF vars, agentVars, history
    <3> QED BY <3>1 DEF AnswerInv, MayAnswer, NextId
  <2> QED BY <2>1, <2>2
<1>3. AnswerInv => AnsweredOnce
  BY DEF AnswerInv, AnsweredOnce
<1> QED BY AgentInvariant, <1>1, <1>2, <1>3, PTL DEF Spec

-----------------------------------------------------------------------------
(* How turns end.                                                          *)

\* Flow f as fl: a flag that is up was put up by a cancel; the word cancelled,
\* said or to be said, has a cancel or an excuse behind it and is the last of
\* the turn; a flow whose cancel was in time neither ended otherwise nor will,
\* nor did one that has yet to look.
TurnOf(f, fl) ==
    /\ fl.kind = "replay" => ended[f] = "not" /\ f \notin cancelHeard
    /\ fl.kind = "prompt" =>
         /\ fl.cancelled => f \in cancelAsked \/ fl.status \in Over
         /\ Tells(fl.todo, Cancels) \/ ended[f] \in Cancels =>
               /\ f \in cancelAsked \/ Excused(fl)
               /\ ~Has(fl.todo, {"ask"} \cup Branching)
               /\ fl.status # "asking"
         /\ f \in cancelHeard =>
               /\ fl.cancelled /\ ended[f] \notin EndTurns
               /\ ~Tells(fl.todo, EndTurns) /\ ~Has(fl.todo, {"start"})
         /\ Has(fl.todo, Looking \cup {"start"}) => ended[f] \notin EndTurns
         /\ Has(fl.todo, {"start"}) => fl.scenario = "none"

TurnInv ==
    /\ \A f \in DOMAIN flows : TurnOf(f, flows[f])
    /\ \A f \in Flows \ DOMAIN flows : ended[f] = "not"

\* The flows of a workload are among the ones that are remembered.
LEMMA FlowsKnown ==
    ASSUME AgentInv
    PROVE  DOMAIN flows \subseteq Flows
<1>1. workload \in Workloads /\ workload \in [Kinds -> Nat] /\ {"prompt", "replay"} \subseteq Kinds
  BY ClientAssumption DEF AgentInv, TypeInv, Kinds, Requests
<1>2. /\ done.prompt \in Nat /\ done.replay \in Nat
      /\ workload.prompt \in Nat /\ workload.replay \in Nat
      /\ done.prompt <= workload.prompt /\ done.replay <= workload.replay
  BY <1>1 DEF AgentInv, TypeInv, CountInv
<1>3. DOMAIN flows = 1 .. Len(flows) /\ Len(flows) \in Nat
  BY FlowsAre DEF AgentInv
<1>4. Len(flows) <= workload.prompt + workload.replay
  BY <1>2, <1>3 DEF AgentInv, CountInv
<1> QED BY <1>1, <1>3, <1>4, FlowsAreFew

\* A turn that runs is still in order.
LEMMA TurnRuns ==
    ASSUME AgentInv, NEW f \in Flows, NEW fl \in Flow, NEW t \in Seq(Segments), NEW after,
           fl.kind = "prompt", fl.status = "ready", TurnOf(f, fl), Code(fl.todo),
           PromptRan(f, fl, t, after), Told(f, fl.session, t[1]),
           UNCHANGED <<cancelAsked, cancelHeard>>
    PROVE  TurnOf(f, after)'
<1> DEFINE r == Tail(t)
<1>1. /\ t # <<>> /\ t[1].op \in Plain1 /\ Code(t) /\ ~Has(t, {"start"})
      /\ Has(t, Looking) => Has(fl.todo, Looking \cup {"start"})
      /\ Tells(t, Cancels) => Tells(fl.todo, Cancels) \/ fl.cancelled \/ Excused(fl)
      /\ (fl.cancelled /\ ~Tells(fl.todo, EndTurns) /\ ~Has(fl.todo, {"start"})) =>
            ~Tells(t, EndTurns)
  <2>1. [fl EXCEPT !.todo = t].todo = t
    BY DEF Flow
  <2> QED BY <2>1 DEF PromptRan, Leads, Runs
<1>2. /\ after.kind = "prompt" /\ after.cancelled = fl.cancelled /\ after.answer = fl.answer
      /\ after.todo = r /\ after.status = StatusAfter(t[1], r)
      /\ ~Has(fl.todo, {"start"}) => after.scenario = fl.scenario
      /\ ~Has(fl.todo, Branching) => t = fl.todo
  BY DEF PromptRan, Ran
<1>3. /\ \A ops : Has(r, ops) => Has(t, ops)
      /\ \A whats : Tells(r, whats) => Tells(t, whats)
  BY <1>1, TailIs
<1> HIDE DEF r
<1>4. 1 \in DOMAIN t /\ t[1] \in Segments
  BY <1>1, LenProperties, EmptySeq
<1>5. /\ \A ops : t[1].op \in ops => Has(t, ops)
      /\ \A whats : t[1].what \in whats => Tells(t, whats)
  BY <1>4 DEF Has, Tells
<1>6. ended' = ended \/ ended' = [ended EXCEPT ![f] = t[1].what]
  BY DEF Told
<1>7. ended'[f] = ended[f] \/ ended'[f] = t[1].what
  BY <1>6 DEF AgentInv, TypeInv
<1>8. after.status = "asking" => t[1].op = "ask"
  BY <1>1, <1>2, <1>4, StatusIs
<1>9. fl.cancelled => f \in cancelAsked
  BY DEF TurnOf, Over
<1>10. Tells(r, Cancels) \/ ended'[f] \in Cancels =>
          /\ f \in cancelAsked \/ Excused(after)
          /\ ~Has(r, {"ask"} \cup Branching)
          /\ after.status # "asking"
  <2> SUFFICES ASSUME Tells(r, Cancels) \/ ended'[f] \in Cancels
               PROVE  /\ f \in cancelAsked \/ Excused(after)
                      /\ ~Has(t, {"ask"} \cup Branching)
    <3>1. ~Has(t, {"ask"} \cup Branching) => t[1].op # "ask"
      BY <1>5
    <3> QED BY <1>3, <1>8, <3>1
  <2>1. Tells(t, Cancels) \/ ended[f] \in Cancels
    BY <1>3, <1>5, <1>7
  <2>2. CASE ended[f] \in Cancels
    <3>1. /\ f \in cancelAsked \/ Excused(fl)
          /\ ~Has(fl.todo, {"ask"} \cup Branching)
      BY <2>2 DEF TurnOf
    <3>2. ~Has(fl.todo, Branching) /\ ~Has(fl.todo, {"start"})
      BY <3>1 DEF Has, Branching
    <3> QED BY <1>2, <3>1, <3>2 DEF Excused
  <2>3. CASE Tells(t, Cancels)
    <3>1. ~Has(t, {"ask"} \cup Branching)
      BY <1>1, <2>3 DEF Code
    <3>2. f \in cancelAsked \/ Excused(fl)
      BY <1>1, <1>9, <2>3 DEF TurnOf
    <3>3. f \in cancelAsked \/ Excused(after)
      <4>1. CASE Has(fl.todo, {"start"})
        <5>1. fl.scenario = "none"
          BY <4>1 DEF TurnOf
        <5> QED BY <1>2, <3>2, <5>1 DEF Excused
      <4>2. CASE ~Has(fl.todo, {"start"})
        BY <1>2, <3>2, <4>2 DEF Excused
      <4> QED BY <4>1, <4>2
    <3> QED BY <3>1, <3>3
  <2> QED BY <2>1, <2>2, <2>3
<1>11. f \in cancelHeard =>
          /\ after.cancelled /\ ended'[f] \notin EndTurns
          /\ ~Tells(r, EndTurns) /\ ~Has(r, {"start"})
  <2> SUFFICES ASSUME f \in cancelHeard
               PROVE  /\ after.cancelled /\ ended'[f] \notin EndTurns
                      /\ ~Tells(r, EndTurns) /\ ~Has(r, {"start"})
    OBVIOUS
  <2>1. /\ fl.cancelled /\ ended[f] \notin EndTurns
        /\ ~Tells(fl.todo, EndTurns) /\ ~Has(fl.todo, {"start"})
    BY DEF TurnOf
  <2>2. ~Tells(t, EndTurns)
    BY <1>1, <2>1
  <2> QED BY <1>1, <1>2, <1>3, <1>5, <1>7, <2>1, <2>2
<1>12. Has(r, Looking \cup {"start"}) => ended'[f] \notin EndTurns
  <2> SUFFICES ASSUME Has(r, Looking \cup {"start"}) PROVE ended'[f] \notin EndTurns
    OBVIOUS
  <2>1. Has(t, Looking \cup {"start"})
    BY <1>3
  <2>2. Has(t, Looking)
    BY <1>1, <2>1 DEF Has
  <2>3. ~Tells(t, EndTurns)
    BY <1>1, <2>2 DEF Code
  <2>4. ended[f] \notin EndTurns
    BY <1>1, <2>2 DEF TurnOf
  <2> QED BY <1>5, <1>7, <2>3, <2>4
<1>13. ~Has(r, {"start"})
  BY <1>1, <1>3
<1> QED BY <1>2, <1>9, <1>10, <1>11, <1>12, <1>13 DEF TurnOf

\* A new turn has nothing behind it.
LEMMA TurnStarts ==
    ASSUME AgentInv, TurnInv, NEW f, f = Len(flows) + 1, f \in Flows,
           NEW fl \in Flow,
           \/ fl = PromptFlow(fl.session)
           \/ fl = ReplayFlow(fl.session)
    PROVE  TurnOf(f, fl) /\ fl.status = "ready" /\ Code(fl.todo)
<1>1. f \notin DOMAIN flows
  BY FlowsAre DEF AgentInv
<1>2. ended[f] = "not" /\ f \notin cancelAsked /\ f \notin cancelHeard
  BY <1>1 DEF TurnInv, AgentInv, TypeInv
<1>3. ended[f] \notin EndTurns /\ ended[f] \notin Cancels
  BY <1>2 DEF EndTurns, Cancels
<1>4. PICK first \in Segments : /\ fl.todo = <<first>> /\ first.op \in {"start", "entries"}
                                /\ first.what = "none"
  <2>1. /\ Goto("start") \in Segments /\ Goto("start").op = "start" /\ Goto("start").what = "none"
        /\ Goto("entries") \in Segments /\ Goto("entries").op = "entries"
        /\ Goto("entries").what = "none"
    BY DEF Goto, Segment, Segments, Branching
  <2>2. CASE fl = PromptFlow(fl.session)
    <3>1. fl.todo = <<Goto("start")>>
      BY <2>2 DEF PromptFlow, NewFlow
    <3> QED BY <2>1, <3>1
  <2>3. CASE fl = ReplayFlow(fl.session)
    <3>1. fl.todo = <<Goto("entries")>>
      BY <2>3 DEF ReplayFlow, NewFlow
    <3> QED BY <2>1, <3>1
  <2> QED BY <2>2, <2>3
<1>5. fl.status = "ready" /\ fl.cancelled = FALSE /\ fl.scenario = "none"
  BY DEF PromptFlow, ReplayFlow, NewFlow
<1>6. Len(fl.todo) = 1 /\ DOMAIN fl.todo = {1} /\ fl.todo[1] = first
  BY <1>4
<1>7. ~Tells(fl.todo, Cancels)
  BY <1>4, <1>6 DEF Tells, Cancels
<1>8. Code(fl.todo)
  <2>1. ~Has(fl.todo, Looking) /\ Once(fl.todo, Owing)
    BY <1>4, <1>6 DEF Has, Looking, Once
  <2> QED BY <1>4, <1>6, <1>7, <2>1 DEF Code
<1> QED BY <1>2, <1>3, <1>5, <1>7, <1>8 DEF TurnOf

\* A turn that is not told of stays in order.
LEMMA TurnStays ==
    ASSUME NEW f, NEW fl, TurnOf(f, fl), ended'[f] = ended[f],
           cancelAsked \subseteq cancelAsked', f \in cancelHeard' => f \in cancelHeard
    PROVE  TurnOf(f, fl)'
BY DEF TurnOf

\* It is enough to look at the turn that moves.
LEMMA TurnMoves ==
    ASSUME AgentInv, AgentInv', TurnInv, NEW f, NEW fl, Moves(f, fl), TurnOf(f, fl)',
           cancelAsked \subseteq cancelAsked',
           \A g \in DOMAIN flows : g # f /\ g \in cancelHeard' => g \in cancelHeard
    PROVE  TurnInv'
<1>1. /\ DOMAIN flows' = DOMAIN flows \cup {f} /\ flows'[f] = fl
      /\ \A g \in DOMAIN flows' : g # f => g \in DOMAIN flows /\ flows'[g] = flows[g]
  BY Others
<1>2. \A g \in Flows : g # f => ended'[g] = ended[g]
  BY DEF Moves, AgentInv, TypeInv
<1>3. DOMAIN flows \subseteq Flows
  BY FlowsKnown
<1>4. ASSUME NEW g \in DOMAIN flows', g # f PROVE TurnOf(g, flows[g])'
  <2>1. PICK x : x = flows[g]
    OBVIOUS
  <2>2. g \in DOMAIN flows /\ flows'[g] = x /\ TurnOf(g, x)
    BY <1>1, <1>4, <2>1 DEF TurnInv
  <2>3. TurnOf(g, x)'
    BY <1>2, <1>3, <1>4, <2>2, TurnStays
  <2> QED BY <2>2, <2>3 DEF TurnOf
<1>5. TurnOf(f, flows[f])'
  BY <1>1 DEF TurnOf
<1>6. \A g \in Flows \ DOMAIN flows' : ended'[g] = "not"
  BY <1>1, <1>2 DEF TurnInv
<1> QED BY <1>4, <1>5, <1>6 DEF TurnInv

\* A prompt's flow that runs keeps the turns in order.
LEMMA PromptTurns ==
    ASSUME AgentInv, AgentInv', TurnInv, NEW f, NEW fl, NEW t, NEW after,
           PromptMove(f, fl, t, after)
    PROVE  TurnInv'
<1>1. /\ fl \in Flow /\ t \in Seq(Segments) /\ Moves(f, after) /\ fl.kind = "prompt"
      /\ PromptRan(f, fl, t, after) /\ Told(f, fl.session, t[1])
      /\ UNCHANGED <<cancelAsked, cancelHeard>>
  BY DEF PromptMove
<1>2. f \in Flows
  <2>1. DOMAIN flows' \subseteq Flows
    <3>1. AgentInv' => (DOMAIN flows \subseteq Flows)'
      BY FlowsKnown, PTL
    <3> QED BY <3>1
  <2> QED BY <1>1, <2>1, Others
<1>3. TurnOf(f, fl) /\ fl.status = "ready" /\ Code(fl.todo)
  <2>1. CASE f \in DOMAIN flows /\ fl = flows[f] /\ fl.status = "ready"
    BY <1>1, <2>1 DEF TurnInv, AgentInv, FlowInv, FlowOK, Runs
  <2>2. CASE f = Len(flows) + 1 /\ fl = PromptFlow(fl.session)
    BY <1>1, <1>2, <2>2, TurnStarts
  <2> QED BY <2>1, <2>2 DEF PromptMove
<1>4. TurnOf(f, after)'
  BY <1>1, <1>2, <1>3, TurnRuns
<1> QED BY <1>1, <1>4, TurnMoves

\* A new v2 prompt that waits keeps the turns in order.
LEMMA WaitingTurns ==
    ASSUME AgentInv, AgentInv', TurnInv, NEW f, NEW fl, PromptWaits(f, fl)
    PROVE  TurnInv'
<1>1. Moves(f, fl) /\ Silent /\ f = Len(flows) + 1 /\ fl = PromptFlow(fl.session)
  BY DEF PromptWaits
<1>2. f \in Flows /\ fl \in Flow
  <2>1. AgentInv' => (DOMAIN flows \subseteq Flows)'
    BY FlowsKnown, PTL
  <2> QED BY <1>1, <2>1, Others DEF Moves, Put
<1>3. TurnOf(f, fl)
  BY <1>1, <1>2, TurnStarts
<1>4. TurnOf(f, fl)'
  BY <1>1, <1>3, TurnStays DEF Silent
<1> QED BY <1>1, <1>4, TurnMoves DEF Silent

\* A replay is not a turn.
LEMMA ReplayTurns ==
    ASSUME AgentInv, AgentInv', TurnInv, NEW f, NEW fl, NEW after, ReplayMove(f, fl, after)
    PROVE  TurnInv'
<1>1. /\ Moves(f, after) /\ Silent /\ fl.kind = "replay" /\ after.kind = "replay"
      /\ \/ f \in DOMAIN flows /\ fl = flows[f]
         \/ f = Len(flows) + 1 /\ fl = ReplayFlow(fl.session)
  BY DEF ReplayMove, ReplayRan, Ran
<1>2. f \in Flows
  <2>1. AgentInv' => (DOMAIN flows \subseteq Flows)'
    BY FlowsKnown, PTL
  <2> QED BY <1>1, <2>1, Others
<1>3. ended[f] = "not" /\ f \notin cancelHeard
  <2>1. CASE f \in DOMAIN flows /\ fl = flows[f]
    BY <1>1, <2>1 DEF TurnInv, TurnOf
  <2>2. CASE f = Len(flows) + 1
    <3>1. f \notin DOMAIN flows
      BY <2>2, FlowsAre DEF AgentInv
    <3> QED BY <1>2, <3>1 DEF TurnInv, AgentInv, TypeInv
  <2> QED BY <1>1, <2>1, <2>2
<1>4. TurnOf(f, after)'
  BY <1>1, <1>3 DEF TurnOf, Silent
<1> QED BY <1>1, <1>4, TurnMoves DEF Silent

\* Waking keeps the turns in order.
LEMMA WakeTurns ==
    ASSUME AgentInv, AgentInv', TurnInv, NEW f, WakeMove(f)
    PROVE  TurnInv'
<1>1. PICK fl : /\ Touched(f, fl) /\ fl.status = "ready"
                /\ flows[f].status = "sleeping"
                /\ fl.cancelled = flows[f].cancelled /\ fl.answer = flows[f].answer
  BY WakeTouches
<1>2. Silent /\ TurnOf(f, flows[f])
  BY DEF WakeMove, TurnInv
<1>3. TurnOf(f, fl)
  BY <1>1, <1>2 DEF TurnOf, Touched, Excused, Over
<1>4. TurnOf(f, fl)'
  BY <1>2, <1>3, TurnStays DEF Silent
<1> QED BY <1>1, <1>2, <1>4, TurnMoves DEF Silent, Touched

\* An answer keeps the turns in order: a failed permission is an excuse.
LEMMA AnswerTurns ==
    ASSUME AgentInv, AgentInv', TurnInv, NEW f, NEW a, NEW fl, AnswerMove(f, a, fl)
    PROVE  TurnInv'
<1>1. /\ Touched(f, fl) /\ fl.status \in {"thrown", "ready"}
      /\ flows[f].status = "asking" /\ fl.cancelled = flows[f].cancelled
  BY AnswerTouches
<1>2. /\ UNCHANGED <<ended, cancelAsked, cancelHeard>>
      /\ TurnOf(f, flows[f])
  BY DEF AnswerMove, TurnInv
<1>3. TurnOf(f, fl)
  BY <1>1, <1>2 DEF TurnOf, Touched, Over
<1>4. TurnOf(f, fl)'
  BY <1>2, <1>3, TurnStays
<1> QED BY <1>1, <1>2, <1>4, TurnMoves DEF Touched

\* A cancel that reaches a flow which has yet to look comes before its end.
LEMMA CancelTurns ==
    ASSUME AgentInv, AgentInv', TurnInv, NEW f, NEW s, CancelMove(f, s)
    PROVE  TurnInv'
<1>1. PICK fl : /\ Touched(f, fl) /\ fl.status = flows[f].status
                /\ fl.cancelled = TRUE /\ fl.answer = flows[f].answer
  BY CancelTouches
<1>2. /\ f \in DOMAIN flows /\ f = promptContexts[s] /\ s \in SessionIds
      /\ cancelAsked' = cancelAsked \cup Running(s)
      /\ cancelHeard' = cancelHeard \cup
            {g \in Running(s) : WillLook(g) /\ g = promptContexts[s]}
      /\ ended' = ended
      /\ TurnOf(f, flows[f])
  BY DEF CancelMove, TurnInv
<1>3. flows[f].kind = "prompt" /\ flows[f].session = s
  <2>1. promptContexts[s] # 0
    BY <1>2, FlowsAre DEF AgentInv
  <2> QED BY <1>2, <2>1 DEF AgentInv, SessionInv
<1>4. Code(flows[f].todo)
  BY <1>2, <1>3 DEF AgentInv, FlowInv, FlowOK, Runs
<1>5. flows[f].status \notin Over => f \in cancelAsked'
  BY <1>2, <1>3 DEF Running, Over
<1>6. f \in cancelHeard' /\ f \notin cancelHeard => Has(flows[f].todo, Looking)
  BY <1>2 DEF WillLook, Has, Looking
<1>7. Has(flows[f].todo, Looking) =>
         /\ ended[f] \notin EndTurns
         /\ ~Tells(flows[f].todo, EndTurns) /\ ~Has(flows[f].todo, {"start"})
  <2> SUFFICES ASSUME Has(flows[f].todo, Looking)
               PROVE  /\ ended[f] \notin EndTurns
                      /\ ~Tells(flows[f].todo, EndTurns) /\ ~Has(flows[f].todo, {"start"})
    OBVIOUS
  <2>1. ended[f] \notin EndTurns
    BY <1>2, <1>3 DEF TurnOf, Has
  <2>2. ~Tells(flows[f].todo, EndTurns)
    BY <1>4 DEF Code
  <2>3. ~Has(flows[f].todo, {"start"})
    <3> SUFFICES ASSUME Has(flows[f].todo, {"start"}) PROVE FALSE
      OBVIOUS
    <3>1. Len(flows[f].todo) = 1 /\ flows[f].todo \in Seq(Segments)
      BY <1>2, <1>4, FlowsAre DEF Code, AgentInv, Flow
    <3>2. DOMAIN flows[f].todo = {1}
      BY <3>1, LenProperties
    <3> QED BY <3>2 DEF Has, Looking
  <2> QED BY <2>1, <2>2, <2>3
<1>8. fl.kind = "prompt" /\ fl.todo = flows[f].todo /\ fl.scenario = flows[f].scenario
  BY <1>1, <1>3 DEF Touched
<1>9. TurnOf(f, fl)'
  <2>1. Tells(fl.todo, Cancels) \/ ended[f] \in Cancels =>
           /\ f \in cancelAsked' \/ Excused(fl)
           /\ ~Has(fl.todo, {"ask"} \cup Branching)
           /\ fl.status # "asking"
    BY <1>1, <1>2, <1>3, <1>8 DEF TurnOf, Excused
  <2>2. f \in cancelHeard' =>
           /\ fl.cancelled /\ ended[f] \notin EndTurns
           /\ ~Tells(fl.todo, EndTurns) /\ ~Has(fl.todo, {"start"})
    BY <1>1, <1>2, <1>3, <1>6, <1>7, <1>8 DEF TurnOf
  <2>3. /\ Has(fl.todo, Looking \cup {"start"}) => ended[f] \notin EndTurns
        /\ Has(fl.todo, {"start"}) => fl.scenario = "none"
    BY <1>2, <1>3, <1>8 DEF TurnOf
  <2> QED BY <1>1, <1>2, <1>5, <1>8, <2>1, <2>2, <2>3 DEF TurnOf
<1>10. Moves(f, fl)
  BY <1>1 DEF Touched
<1> QED BY <1>2, <1>9, <1>10, TurnMoves

\* Closing the agent ends no turn as anything.
LEMMA EndTurnsAll ==
    ASSUME AgentInv, TurnInv, EndMove
    PROVE  TurnInv'
<1>1. DOMAIN flows' = DOMAIN flows /\ Silent
  BY DEF EndMove
<1>2. ASSUME NEW f \in DOMAIN flows PROVE TurnOf(f, flows[f])'
  <2>1. PICK fl : fl = flows'[f]
    OBVIOUS
  <2>2. /\ fl.kind = flows[f].kind /\ fl.todo = flows[f].todo
        /\ fl.scenario = flows[f].scenario /\ fl.answer = flows[f].answer
        /\ fl.cancelled = flows[f].cancelled
        /\ fl.status = IF flows[f].status = "asking" THEN "thrown" ELSE flows[f].status
    BY <2>1, Thrown
  <2>3. TurnOf(f, flows[f])
    BY DEF TurnInv
  <2>4. TurnOf(f, fl)
    BY <2>2, <2>3 DEF TurnOf, Excused, Over
  <2>5. TurnOf(f, fl)'
    BY <1>1, <2>4, TurnStays DEF Silent
  <2> QED BY <2>1, <2>5 DEF TurnOf
<1> QED BY <1>1, <1>2 DEF TurnInv, Silent

\* Every step keeps the turns in order.
LEMMA TurnsKeep ==
    ASSUME AgentInv, TurnInv, Next
    PROVE  TurnInv'
<1>1. AgentInv' /\ Step
  BY StepIs
<1>2. CASE Calm \/ StartMove
  <2>1. /\ flows' = flows /\ UNCHANGED <<ended, cancelHeard>>
        /\ cancelAsked \subseteq cancelAsked'
    BY <1>2 DEF Calm, StartMove, Silent
  <2>2. ASSUME NEW f \in DOMAIN flows PROVE TurnOf(f, flows[f])'
    <3>1. PICK fl : fl = flows[f]
      OBVIOUS
    <3>2. TurnOf(f, fl)
      BY <3>1 DEF TurnInv
    <3>3. TurnOf(f, fl)'
      BY <2>1, <3>2, TurnStays
    <3> QED BY <2>1, <3>1, <3>3 DEF TurnOf
  <2> QED BY <2>1, <2>2 DEF TurnInv
<1>3. CASE \E f, fl, t, after : PromptMove(f, fl, t, after)
  BY <1>1, <1>3, PromptTurns
<1>4. CASE \E f, fl : PromptWaits(f, fl)
  BY <1>1, <1>4, WaitingTurns
<1>5. CASE \E f, fl, after : ReplayMove(f, fl, after)
  BY <1>1, <1>5, ReplayTurns
<1>6. CASE \E f : WakeMove(f)
  BY <1>1, <1>6, WakeTurns
<1>7. CASE \E f, s : CancelMove(f, s)
  BY <1>1, <1>7, CancelTurns
<1>8. CASE \E f, a, fl : AnswerMove(f, a, fl)
  BY <1>1, <1>8, AnswerTurns
<1>9. CASE EndMove
  BY <1>9, EndTurnsAll
<1> QED BY <1>1, <1>2, <1>3, <1>4, <1>5, <1>6, <1>7, <1>8, <1>9 DEF Step

\* The turns are in order.
LEMMA TurnInvariant == Spec => []TurnInv
<1>1. Init => TurnInv
  <2> SUFFICES ASSUME Init PROVE TurnInv
    OBVIOUS
  <2>1. DOMAIN flows = {} /\ ended = [f \in Flows |-> "not"]
    BY DEF Init, AgentInit
  <2> QED BY <2>1 DEF TurnInv
<1>2. AgentInv /\ TurnInv /\ [Next]_vars => TurnInv'
  <2> SUFFICES ASSUME AgentInv, TurnInv, [Next]_vars PROVE TurnInv'
    OBVIOUS
  <2>1. CASE Next
    BY <2>1, TurnsKeep
  <2>2. CASE UNCHANGED vars
    <3>1. UNCHANGED <<flows, ended, cancelAsked, cancelHeard>>
      BY <2>2 DEF vars, agentVars, history
    <3> QED BY <3>1 DEF TurnInv, TurnOf
  <2> QED BY <2>1, <2>2
<1> QED BY AgentInvariant, <1>1, <1>2, PTL DEF Spec

\* A cancel that the turn can still see ends it as cancelled: the flag is set
\* before the code looks, and nothing between says that the turn is over.
THEOREM CancelsAreHeeded == Spec => []CancelIsHeeded
<1>1. AgentInv /\ TurnInv => CancelIsHeeded
  <2> SUFFICES ASSUME AgentInv, TurnInv, NEW f \in cancelHeard
               PROVE  ended[f] \notin {"end_turn", "idle_end_turn"}
    BY DEF CancelIsHeeded
  <2>1. f \in DOMAIN flows /\ TurnOf(f, flows[f])
    BY DEF AgentInv, TypeInv, TurnInv
  <2>2. flows[f].kind \in {"prompt", "replay"}
    BY <2>1, FlowsAre DEF AgentInv, Flow
  <2> QED BY <2>1, <2>2 DEF TurnOf, EndTurns
<1> QED BY AgentInvariant, TurnInvariant, <1>1, PTL

\* No turn ends as cancelled without a cancel of its own: neither one for an
\* earlier prompt of the session nor one for another session; a failed or
\* cancelled permission and the scenario that is made to be cancelled excuse it.
THEOREM CancelsAreAsked == Spec => []NoStrayCancel
<1>1. AgentInv /\ TurnInv => NoStrayCancel
  <2> SUFFICES ASSUME AgentInv, TurnInv, NEW f \in DOMAIN flows,
                      ended[f] \in {"cancelled", "idle_cancelled"}
               PROVE  f \in cancelAsked \/ Excused(flows[f])
    BY DEF NoStrayCancel, Excused
  <2>1. TurnOf(f, flows[f])
    BY DEF TurnInv
  <2>2. flows[f].kind \in {"prompt", "replay"}
    BY FlowsAre DEF AgentInv, Flow
  <2> QED BY <2>1, <2>2 DEF TurnOf, Cancels
<1> QED BY AgentInvariant, TurnInvariant, <1>1, PTL

-----------------------------------------------------------------------------
(* After a rejection.                                                      *)

\* Flow fl, whose permission was rejected: it asks for nothing and is not going
\* to, and if it has yet to look, it will see the rejection.
DeniedOf(fl) ==
    version = 1 => /\ fl.status # "asking"
                   /\ ~Has(fl.todo, {"ask"})
                   /\ Has(fl.todo, Looking) => fl.answer = "reject"

DeniedInv == \A f \in denied : DeniedOf(flows[f])

\* It is enough to look at the flow that moves, if it was rejected.
LEMMA DeniedMoves ==
    ASSUME AgentInv, AgentInv', DeniedInv, NEW f, NEW fl, Moves(f, fl),
           \A g \in denied' : g = f \/ g \in denied,
           f \in denied' => DeniedOf(fl)'
    PROVE  DeniedInv'
<1>1. /\ flows'[f] = fl
      /\ \A g \in DOMAIN flows' : g # f => g \in DOMAIN flows /\ flows'[g] = flows[g]
  BY Others
<1>2. version' = version /\ denied' \subseteq DOMAIN flows'
  BY DEF Moves, Grown
<1>3. ASSUME NEW g \in denied' PROVE DeniedOf(flows[g])'
  <2>1. CASE g = f
    BY <1>1, <1>3, <2>1 DEF DeniedOf
  <2>2. CASE g # f
    <3>1. flows'[g] = flows[g] /\ DeniedOf(flows[g])
      BY <1>1, <1>2, <1>3, <2>2 DEF DeniedInv
    <3> QED BY <1>2, <3>1 DEF DeniedOf
  <2> QED BY <2>1, <2>2
<1> QED BY <1>3 DEF DeniedInv

\* The code that comes after the look at a rejection asks for nothing.
LEMMA DeniedRuns ==
    ASSUME AgentInv, AgentInv', DeniedInv, NEW f, NEW fl, NEW t, NEW after,
           PromptMove(f, fl, t, after)
    PROVE  DeniedInv'
<1>1. /\ fl \in Flow /\ t \in Seq(Segments) /\ Moves(f, after) /\ Ran(f, fl, t, after)
      /\ Leads(fl, t) /\ denied' = denied /\ fl.kind = "prompt"
  BY DEF PromptMove, PromptRan
<1>2. version' = version
  BY <1>1 DEF Moves, Grown
<1>3. ASSUME f \in denied', version = 1
      PROVE  /\ after.status # "asking" /\ ~Has(after.todo, {"ask"})
             /\ Has(after.todo, Looking) => after.answer = "reject"
  <2>1. f \in DOMAIN flows /\ fl = flows[f]
    <3>1. f \in DOMAIN flows /\ Len(flows) + 1 \notin DOMAIN flows
      BY <1>1, <1>3, FlowsAre DEF AgentInv, TypeInv
    <3> QED BY <3>1 DEF PromptMove
  <2>2. DeniedOf(fl) /\ FlowOK(fl)
    BY <1>1, <1>3, <2>1 DEF DeniedInv, AgentInv, FlowInv
  <2>3. /\ ~Has(fl.todo, {"start"}) /\ ~Has(fl.todo, {"ask"})
        /\ Has(fl.todo, Looking) => fl.answer = "reject"
    BY <1>1, <1>3, <2>2 DEF DeniedOf, FlowOK
  <2>4. ~Has(fl.todo, {"ask", "start"})
    BY <2>3 DEF Has
  <2>5. ~Has(t, {"ask"})
    BY <1>1, <1>3, <2>3, <2>4 DEF Leads
  <2>6. Has(t, Looking) => Has(fl.todo, Looking)
    <3>1. Has(t, Looking) => Has(fl.todo, Looking \cup {"start"})
      BY <1>1 DEF Leads
    <3> QED BY <2>3, <3>1 DEF Has
  <2>7. /\ t # <<>> /\ t[1].op \in Plain1
        /\ \A ops : Has(Tail(t), ops) => Has(t, ops)
    BY <1>1, TailIs DEF Leads
  <2>8. 1 \in DOMAIN t /\ t[1] \in Segments
    BY <1>1, <2>7, LenProperties, EmptySeq
  <2>9. t[1].op # "ask"
    BY <2>5, <2>8 DEF Has
  <2>10. after.todo = Tail(t) /\ after.answer = fl.answer /\ after.status # "asking"
    <3>1. after.status = StatusAfter(t[1], Tail(t))
      BY <1>1 DEF Ran
    <3> QED BY <1>1, <2>7, <2>8, <2>9, <3>1, StatusIs DEF Ran
  <2> QED BY <2>3, <2>5, <2>6, <2>7, <2>10
<1>4. f \in denied' => DeniedOf(after)'
  BY <1>2, <1>3 DEF DeniedOf
<1> QED BY <1>1, <1>4, DeniedMoves

\* The answer that rejects is the one the flow will see when it looks, and it
\* was the only question before that.
LEMMA DeniedAnswered ==
    ASSUME AgentInv, AgentInv', DeniedInv, NEW f, NEW a, NEW fl, AnswerMove(f, a, fl)
    PROVE  DeniedInv'
<1>1. /\ Touched(f, fl) /\ fl.status \in {"thrown", "ready"}
      /\ flows[f].status = "asking" /\ (a # "invalid" => fl.answer = a)
  BY AnswerTouches
<1>2. /\ f \in DOMAIN flows /\ Moves(f, fl) /\ fl.todo = flows[f].todo
      /\ denied' = IF WillLook(f) /\ a = "reject" THEN denied \cup {f} ELSE denied
  BY <1>1 DEF Touched, AnswerMove
<1>3. version' = version
  BY <1>2 DEF Moves, Grown
<1>4. ASSUME f \in denied', version = 1
      PROVE  /\ fl.status # "asking" /\ ~Has(fl.todo, {"ask"})
             /\ Has(fl.todo, Looking) => fl.answer = "reject"
  <2>1. f \notin denied
    BY <1>1, <1>4 DEF DeniedInv, DeniedOf
  <2>2. WillLook(f) /\ a = "reject"
    BY <1>2, <1>4, <2>1
  <2>3. Has(flows[f].todo, Looking)
    BY <2>2 DEF WillLook, Has, Looking
  <2>4. FlowOK(flows[f]) /\ flows[f].kind \in {"prompt", "replay"}
    BY <1>2, FlowsAre DEF AgentInv, FlowInv, Flow
  <2>5. ~Has(flows[f].todo, {"ask"})
    <3>1. flows[f].kind = "prompt"
      BY <1>1, <2>4 DEF FlowOK
    <3> QED BY <1>1, <2>3, <2>4, <3>1 DEF FlowOK
  <2> QED BY <1>1, <1>2, <2>2, <2>5
<1>5. f \in denied' => DeniedOf(fl)'
  BY <1>3, <1>4 DEF DeniedOf
<1>6. \A g \in denied' : g = f \/ g \in denied
  BY <1>2
<1> QED BY <1>2, <1>5, <1>6, DeniedMoves

\* A flow that is touched, and keeps its status and its answer or wakes, stays
\* as rejected as it was.
LEMMA DeniedTouched ==
    ASSUME AgentInv, AgentInv', DeniedInv, NEW f, NEW fl, Touched(f, fl),
           fl.status = flows[f].status \/ fl.status = "ready",
           fl.answer = flows[f].answer, denied' = denied
    PROVE  DeniedInv'
<1>1. Moves(f, fl) /\ f \in DOMAIN flows /\ fl.todo = flows[f].todo
  BY DEF Touched
<1>2. version' = version
  BY <1>1 DEF Moves, Grown
<1>3. f \in denied' => DeniedOf(fl)'
  BY <1>1, <1>2 DEF DeniedInv, DeniedOf
<1> QED BY <1>1, <1>3, DeniedMoves

\* Every step keeps the rejected turns as they are to be.
LEMMA DeniedKeeps ==
    ASSUME AgentInv, DeniedInv, Next
    PROVE  DeniedInv'
<1>1. AgentInv' /\ Step
  BY StepIs
<1>2. CASE Calm
  BY <1>2 DEF Calm, Grown, DeniedInv, DeniedOf
<1>3. CASE StartMove
  <2>1. denied = {} /\ denied' = denied
    BY <1>3 DEF StartMove, Silent, AgentInv, TypeInv
  <2> QED BY <2>1 DEF DeniedInv
<1>4. CASE \E f, fl, t, after : PromptMove(f, fl, t, after)
  BY <1>1, <1>4, DeniedRuns
<1>5. ASSUME NEW f, NEW fl, PromptWaits(f, fl) PROVE DeniedInv'
  <2>1. Moves(f, fl) /\ denied' = denied /\ f \notin denied
    BY <1>5, FlowsAre DEF PromptWaits, Silent, AgentInv, TypeInv
  <2> QED BY <1>1, <2>1, DeniedMoves
<1>6. ASSUME NEW f, NEW fl, NEW after, ReplayMove(f, fl, after) PROVE DeniedInv'
  <2>1. /\ Moves(f, after) /\ denied' = denied
        /\ after.todo \in {<<>>, <<Goto("entries")>>} /\ after.status \in {"ready", "done"}
    <3>1. FlowOK(after)' /\ after.kind = "replay"
      <4>1. f \in DOMAIN flows' /\ flows'[f] = after
        BY <1>6, Others DEF ReplayMove
      <4>2. FlowInv' /\ after.kind = "replay"
        BY <1>1, <1>6 DEF AgentInv, ReplayMove, ReplayRan, Ran
      <4> QED BY <4>1, <4>2 DEF FlowInv, FlowOK
    <3> QED BY <1>6, <3>1 DEF FlowOK, ReplayMove, Silent
  <2>2. ~Has(after.todo, {"ask"}) /\ ~Has(after.todo, Looking)
    BY <2>1 DEF Has, Looking, Goto, Segment
  <2>3. DeniedOf(after)'
    BY <2>1, <2>2 DEF DeniedOf
  <2> QED BY <1>1, <2>1, <2>3, DeniedMoves
<1>7. ASSUME NEW f, WakeMove(f) PROVE DeniedInv'
  BY <1>1, <1>7, WakeTouches, DeniedTouched DEF WakeMove, Silent
<1>8. ASSUME NEW f, NEW s, CancelMove(f, s) PROVE DeniedInv'
  BY <1>1, <1>8, CancelTouches, DeniedTouched DEF CancelMove
<1>9. CASE \E f, a, fl : AnswerMove(f, a, fl)
  BY <1>1, <1>9, DeniedAnswered
<1>10. CASE EndMove
  <2>1. denied' = denied /\ version' = version /\ denied \subseteq DOMAIN flows
    BY <1>10 DEF EndMove, Silent, AgentInv, TypeInv
  <2> QED BY <1>10, <2>1, Thrown DEF DeniedInv, DeniedOf
<1> QED BY <1>1, <1>2, <1>3, <1>4, <1>5, <1>6, <1>7, <1>8, <1>9, <1>10 DEF Step

\* A v1 turn whose permission was rejected asks the client for nothing more: no
\* file, no terminal, no elicitation, whatever is answered late or cancelled
\* afterwards (afterPermissionV1 of reference-agent.ts).
THEOREM RejectionsAreFinal == Spec => []RejectedAsksNothing
<1>1. Init => DeniedInv
  BY DEF Init, DeniedInv
<1>2. AgentInv /\ DeniedInv /\ [Next]_vars => DeniedInv'
  <2> SUFFICES ASSUME AgentInv, DeniedInv, [Next]_vars PROVE DeniedInv'
    OBVIOUS
  <2>1. CASE UNCHANGED vars
    BY <2>1 DEF vars, agentVars, history, DeniedInv, DeniedOf
  <2> QED BY <2>1, DeniedKeeps
<1>3. DeniedInv => RejectedAsksNothing
  BY DEF DeniedInv, DeniedOf, RejectedAsksNothing
<1> QED BY AgentInvariant, <1>1, <1>2, <1>3, PTL DEF Spec

-----------------------------------------------------------------------------
(* Idle at the end.                                                        *)

\* A turn of session s that is not done.
Unfinished(s) == \E f \in DOMAIN flows : /\ flows[f].kind = "prompt"
                                         /\ flows[f].session = s
                                         /\ flows[f].status # "done"

\* What was last told of a session is that it is idle, or a turn of it has more
\* to tell.
IdleInv ==
    /\ faults \in FaultSets
    /\ version = 2 /\ NoIllegalCall =>
         \A s \in SessionIds : lastState[s] \in {"none"} \cup Idles \/ Unfinished(s)

\* A flow that moves without a word, and is not done by that, changes nothing.
LEMMA IdleMoves ==
    ASSUME AgentInv, IdleInv, NEW f, NEW fl, Moves(f, fl), lastState' = lastState,
           f \in DOMAIN flows /\ fl.kind = "prompt" /\ flows[f].status # "done" =>
              fl.status # "done"
    PROVE  IdleInv'
<1>1. /\ flows'[f] = fl /\ f \in DOMAIN flows'
      /\ \A g \in DOMAIN flows : g # f => g \in DOMAIN flows' /\ flows'[g] = flows[g]
      /\ f \in DOMAIN flows => fl.kind = flows[f].kind /\ fl.session = flows[f].session
  <2>1. f \in DOMAIN flows => fl.kind = flows[f].kind /\ fl.session = flows[f].session
    BY DEF Moves
  <2>2. /\ DOMAIN flows' = DOMAIN flows \cup {f} /\ flows'[f] = fl
        /\ \A g \in DOMAIN flows : g # f => g \in DOMAIN flows' /\ flows'[g] = flows[g]
    BY Others
  <2> QED BY <2>1, <2>2
<1>2. version' = version /\ faults' = faults
  BY DEF Moves, Grown
<1>3. ASSUME NEW s, Unfinished(s) PROVE Unfinished(s)'
  <2>1. PICK g \in DOMAIN flows : /\ flows[g].kind = "prompt" /\ flows[g].session = s
                                  /\ flows[g].status # "done"
    BY <1>3 DEF Unfinished
  <2>2. /\ g \in DOMAIN flows' /\ flows'[g].kind = "prompt" /\ flows'[g].session = s
        /\ flows'[g].status # "done"
    BY <1>1, <2>1
  <2> QED BY <2>2 DEF Unfinished
<1> QED BY <1>2, <1>3 DEF IdleInv, NoIllegalCall

\* A v2 turn that is done said last that the session is idle.
LEMMA IdleRuns ==
    ASSUME AgentInv, IdleInv, NEW f, NEW fl, NEW t, NEW after, PromptMove(f, fl, t, after)
    PROVE  IdleInv'
<1>1. /\ fl \in Flow /\ t \in Seq(Segments) /\ Moves(f, after) /\ Ran(f, fl, t, after)
      /\ Leads(fl, t) /\ fl.kind = "prompt" /\ Told(f, fl.session, t[1])
  BY DEF PromptMove, PromptRan
<1>2. version' = version /\ faults' = faults /\ lastState \in [SessionIds -> States \cup {"none"}]
  BY <1>1 DEF Moves, Grown, AgentInv, TypeInv
<1>3. /\ flows'[f] = after /\ f \in DOMAIN flows'
      /\ \A g \in DOMAIN flows : g # f => g \in DOMAIN flows' /\ flows'[g] = flows[g]
  BY <1>1, Others
<1>4. after.kind = "prompt" /\ after.session = fl.session
  BY <1>1 DEF Ran
<1> SUFFICES ASSUME version = 2, NoIllegalCall, NEW s \in SessionIds,
                    ~Unfinished(s)'
             PROVE  lastState'[s] \in {"none"} \cup Idles
  BY <1>2 DEF IdleInv, NoIllegalCall
<1>5. f \in DOMAIN flows /\ fl = flows[f]
  BY DEF PromptMove
<1>6. CASE s = fl.session
  <2>1. after.status = "done"
    BY <1>3, <1>4, <1>6 DEF Unfinished
  <2>2. /\ t # <<>> /\ t[1].op \in Plain1 /\ EndsIdle(t)
    <3>1. [fl EXCEPT !.todo = t].todo = t
      BY <1>1 DEF Flow
    <3> QED BY <1>1, <3>1 DEF Leads, Runs
  <2>3. t[1] \in Segments
    BY <1>1, <2>2, LenProperties, EmptySeq
  <2>4. Tail(t) = <<>>
    BY <1>1, <2>1, <2>2, <2>3, StatusIs DEF Ran
  <2>5. Len(t) = 1
    BY <1>1, <2>2, <2>4, TailIs
  <2>6. t[1].op = "say" /\ t[1].what \in Idles
    BY <2>2, <2>5 DEF EndsIdle, Plain1, Branching, Looking
  <2>7. lastState' = [lastState EXCEPT ![s] = t[1].what]
    BY <1>1, <1>6, <2>6 DEF Told, Idles, States
  <2> QED BY <1>2, <2>6, <2>7
<1>7. CASE s # fl.session
  <2>1. lastState'[s] = lastState[s]
    BY <1>1, <1>2, <1>7 DEF Told
  <2>2. ~Unfinished(s)
    <3> SUFFICES ASSUME Unfinished(s) PROVE FALSE
      OBVIOUS
    <3>1. PICK g \in DOMAIN flows : /\ flows[g].kind = "prompt" /\ flows[g].session = s
                                    /\ flows[g].status # "done"
      BY DEF Unfinished
    <3>2. g \in DOMAIN flows' /\ flows'[g] = flows[g]
      BY <1>3, <1>5, <1>7, <3>1
    <3> QED BY <3>1, <3>2 DEF Unfinished
  <2> QED BY <2>1, <2>2 DEF IdleInv
<1> QED BY <1>6, <1>7

\* Every step keeps a session idle or with a turn that has more to tell.
LEMMA IdleKeeps ==
    ASSUME AgentInv, IdleInv, Next
    PROVE  IdleInv'
<1>1. AgentInv' /\ Step
  BY StepIs
<1>2. CASE Calm
  BY <1>2 DEF Calm, Grown, IdleInv, NoIllegalCall, Unfinished
<1>3. CASE StartMove
  <2>1. \A s \in SessionIds : lastState'[s] = "none"
    BY <1>3 DEF StartMove, Silent, AgentInv, CountInv
  <2> QED BY <1>3, <2>1 DEF StartMove, IdleInv
<1>4. CASE \E f, fl, t, after : PromptMove(f, fl, t, after)
  BY <1>4, IdleRuns
<1>5. ASSUME NEW f, NEW fl, PromptWaits(f, fl) PROVE IdleInv'
  <2>1. Moves(f, fl) /\ lastState' = lastState /\ f \notin DOMAIN flows
    BY <1>5, FlowsAre DEF PromptWaits, Silent, AgentInv
  <2> QED BY <2>1, IdleMoves
<1>6. ASSUME NEW f, NEW fl, NEW after, ReplayMove(f, fl, after) PROVE IdleInv'
  <2>1. Moves(f, after) /\ lastState' = lastState /\ after.kind = "replay"
    BY <1>6 DEF ReplayMove, ReplayRan, Ran, Silent
  <2> QED BY <2>1, IdleMoves
<1>7. ASSUME NEW f, WakeMove(f) PROVE IdleInv'
  <2>1. PICK fl : Touched(f, fl) /\ fl.status = "ready"
    BY <1>7, WakeTouches
  <2>2. Moves(f, fl) /\ lastState' = lastState
    BY <1>7, <2>1 DEF Touched, WakeMove, Silent
  <2> QED BY <2>1, <2>2, IdleMoves
<1>8. ASSUME NEW f, NEW s, CancelMove(f, s) PROVE IdleInv'
  <2>1. PICK fl : Touched(f, fl) /\ fl.status = flows[f].status
    BY <1>8, CancelTouches
  <2>2. Moves(f, fl) /\ lastState' = lastState
    BY <1>8, <2>1 DEF Touched, CancelMove
  <2> QED BY <2>1, <2>2, IdleMoves
<1>9. ASSUME NEW f, NEW a, NEW fl, AnswerMove(f, a, fl) PROVE IdleInv'
  <2>1. fl.status \in {"thrown", "ready"}
    BY <1>9, AnswerTouches
  <2>2. Moves(f, fl) /\ lastState' = lastState
    BY <1>9 DEF AnswerMove
  <2> QED BY <2>1, <2>2, IdleMoves
<1>10. CASE EndMove
  <2>1. version' = version /\ faults' = faults /\ lastState' = lastState
    BY <1>10 DEF EndMove, Silent
  <2>2. ASSUME NEW s, Unfinished(s) PROVE Unfinished(s)'
    <3>1. PICK g \in DOMAIN flows : /\ flows[g].kind = "prompt" /\ flows[g].session = s
                                    /\ flows[g].status # "done"
      BY <2>2 DEF Unfinished
    <3>2. /\ g \in DOMAIN flows' /\ flows'[g].kind = "prompt" /\ flows'[g].session = s
          /\ flows'[g].status # "done"
      BY <1>10, <3>1, Thrown
    <3> QED BY <3>2 DEF Unfinished
  <2> QED BY <2>1, <2>2 DEF IdleInv, NoIllegalCall
<1> QED BY <1>1, <1>2, <1>3, <1>4, <1>5, <1>6, <1>7, <1>8, <1>9, <1>10 DEF Step

\* When no v2 turn of a session runs any more, the last state its client was
\* shown is idle, however turns overlapped or were cancelled; unless the agent
\* was started to break the protocol with a call that v2 does not know, after
\* which the turn stops where it is.
THEOREM IdleComesLast ==
    ASSUME \A F \in FaultSets : "illegal-v2-fs-read-text-file" \notin F
    PROVE  Spec => []IdleIsTold
<1>1. Init => IdleInv
  BY DEF Init, AgentInit, IdleInv
<1>2. AgentInv /\ IdleInv /\ [Next]_vars => IdleInv'
  <2> SUFFICES ASSUME AgentInv, IdleInv, [Next]_vars PROVE IdleInv'
    OBVIOUS
  <2>1. CASE UNCHANGED vars
    BY <2>1 DEF vars, agentVars, history, IdleInv, NoIllegalCall, Unfinished
  <2> QED BY <2>1, IdleKeeps
<1>3. IdleInv => IdleIsTold
  BY DEF IdleInv, IdleIsTold, NoIllegalCall, Unfinished, Idles
<1> QED BY AgentInvariant, <1>1, <1>2, <1>3, PTL DEF Spec

===============================================================================
