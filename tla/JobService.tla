------------------------------ MODULE JobService ------------------------------
(***************************************************************************)
(* What the dispatcher promises its clients, whatever runs the jobs and    *)
(* however often it is restarted: an acknowledged queue of requests, each  *)
(* answered at least once.  A request is in the queue until it is          *)
(* acknowledged, and in the care of the service from the moment it is      *)
(* taken until it is closed.  Nothing is promised about how many answers a *)
(* request gets, nor that they agree.                                      *)
(***************************************************************************)
CONSTANTS
  Requests,   \* what clients ask for
  Outcomes    \* what an answer can say

VARIABLES
  asked,      \* requests clients have made
  waiting,    \* requests not yet acknowledged
  kept,       \* requests in the care of the service
  answers     \* answers given

vars == <<asked, waiting, kept, answers>>

Answer == [req : Requests, out : Outcomes]

Answered(r) == \E a \in answers : a.req = r

TypeOK ==
  /\ asked \subseteq Requests
  /\ waiting \subseteq asked
  /\ kept \subseteq asked
  /\ answers \subseteq Answer

Init == asked = {} /\ waiting = {} /\ kept = {} /\ answers = {}

Ask(r) ==
  /\ r \notin asked
  /\ asked' = asked \cup {r}
  /\ waiting' = waiting \cup {r}
  /\ UNCHANGED <<kept, answers>>

\* A waiting request may be taken again after it was closed.
Take(r) ==
  /\ r \in waiting
  /\ kept' = kept \cup {r}
  /\ UNCHANGED <<asked, waiting, answers>>

Acknowledge(r) ==
  /\ r \in waiting
  /\ r \in kept \/ Answered(r)
  /\ waiting' = waiting \ {r}
  /\ UNCHANGED <<asked, kept, answers>>

Reply(r) ==
  /\ r \in kept
  /\ \E o \in Outcomes : answers' = answers \cup {[req |-> r, out |-> o]}
  /\ UNCHANGED <<asked, waiting, kept>>

Close(r) ==
  /\ r \in kept /\ Answered(r)
  /\ kept' = kept \ {r}
  /\ UNCHANGED <<asked, waiting, answers>>

Next ==
  \E r \in Requests : Ask(r) \/ Take(r) \/ Acknowledge(r) \/ Reply(r) \/ Close(r)

\* The safety part: how requests move.
Safety == Init /\ [][Next]_vars

\* The liveness part: every request is answered.
Live == \A r \in Requests : r \in asked ~> Answered(r)

Spec == Safety /\ Live

-----------------------------------------------------------------------------

\* No request is lost.
NothingLost ==
  \A r \in asked : r \in waiting \/ r \in kept \/ Answered(r)

=============================================================================
