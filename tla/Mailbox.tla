------------------------------ MODULE Mailbox ------------------------------
(***************************************************************************)
(* What the harness's expectations promise a test case: messages that      *)
(* nobody has asked for are kept, and every message goes to one reader.     *)
(* The reader is the one that has waited longest among those that want the  *)
(* message; a reader takes the oldest message that it wants.  A reader may  *)
(* give up.  Messages and readers carry the number of their arrival.        *)
(***************************************************************************)
EXTENDS Integers

CONSTANTS
    Kinds,                    \* what tells one message from another
    Numbers                   \* the numbers of arrivals

VARIABLES
    unread,                   \* messages nobody has taken yet
    readers,                  \* readers that wait
    taken                     \* pairs <<reader, message>>

vars == <<unread, readers, taken>>

Message == [n : Numbers, kind : Kinds]
Reader  == [n : Numbers, accepts : SUBSET Kinds]

First(S) == CHOOSE x \in S : \A y \in S : x.n <= y.n

Wanting(m) == {r \in readers : m.kind \in r.accepts}
Wanted(r)  == {m \in unread : m.kind \in r.accepts}

Init == unread = {} /\ readers = {} /\ taken = {}

\* A message arrives, after every other message.
Post(m) ==
    /\ \A x \in unread \cup {t[2] : t \in taken} : x.n < m.n
    /\ IF Wanting(m) = {}
       THEN unread' = unread \cup {m} /\ UNCHANGED <<readers, taken>>
       ELSE /\ taken' = taken \cup {<<First(Wanting(m)), m>>}
            /\ readers' = readers \ {First(Wanting(m))}
            /\ UNCHANGED unread

\* A reader asks, after every other reader that got or awaits something.
Ask(r) ==
    /\ \A x \in readers \cup {t[1] : t \in taken} : x.n < r.n
    /\ IF Wanted(r) = {}
       THEN readers' = readers \cup {r} /\ UNCHANGED <<unread, taken>>
       ELSE /\ taken' = taken \cup {<<r, First(Wanted(r))>>}
            /\ unread' = unread \ {First(Wanted(r))}
            /\ UNCHANGED readers

\* Some readers stop waiting; no message is touched.
GiveUp ==
    /\ readers' \in SUBSET readers
    /\ UNCHANGED <<unread, taken>>

Next ==
    \/ GiveUp
    \/ \E m \in Message : Post(m)
    \/ \E r \in Reader : Ask(r)

Spec == Init /\ [][Next]_vars

=============================================================================
