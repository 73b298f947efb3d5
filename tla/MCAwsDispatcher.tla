--------------------------- MODULE MCAwsDispatcher ---------------------------
(* Values of the constants of AwsDispatcher for TLC. *)
EXTENDS AwsDispatcher, TLC

CONSTANTS r1, r2, r3, j1, j2, o1, o2, t1, t2

OwnIds       == (r1 :> j1) @@ (r2 :> j2)
OwnObjects   == (r1 :> o1) @@ (r2 :> o2)
TwoTypes     == [r \in JobRequests |-> IF r = r3 THEN t2 ELSE t1]
SharedId     == [r \in JobRequests |-> j1]
SharedObject == [r \in JobRequests |-> o1]
OneType      == [r \in JobRequests |-> t1]

\* Command ids are interchangeable, and instance ids if all or none are Flaky.
CommandSlots == Permutations(Commands)
Slots        == Permutations(Machines) \cup CommandSlots

=============================================================================
