--------------------------- MODULE MCJobDispatcher ---------------------------
(***************************************************************************)
(* Values of the constants of JobDispatcher for TLC.                       *)
(***************************************************************************)
EXTENDS JobDispatcher, TLC

CONSTANTS r1, r2, r3,  \* job requests
          i1, i2,      \* job ids
          f1, f2,      \* result files
          t1, t2       \* message types

PickBy(r, first, second) == IF r = r1 THEN first ELSE second

\* Each request has a job id, a result file and a message type of its own.
OwnIds   == [r \in JobRequests |-> PickBy(r, i1, i2)]
OwnFiles == [r \in JobRequests |-> PickBy(r, f1, f2)]
OwnTypes == [r \in JobRequests |-> PickBy(r, t1, t2)]

\* r1 and r2 share an id.
PoisonIds == [r \in JobRequests |-> IF r = r3 THEN i2 ELSE i1]

\* All requests share one.
SameId   == [r \in JobRequests |-> i1]
SameFile == [r \in JobRequests |-> f1]
SameType == [r \in JobRequests |-> t1]

\* Children are alike.
Slots == Permutations(Pids)

=============================================================================
