--------------------------- MODULE MCTxDispatcher ---------------------------
(* Values of the constants of TxDispatcher for TLC. *)
EXTENDS TxDispatcher, TLC

CONSTANTS r1, r2, i1, i2, f1, t1

Pick(r, first, second) == IF r = r1 THEN first ELSE second

OwnIds   == [r \in JobRequests |-> Pick(r, i1, i2)]
SameFile == [r \in JobRequests |-> f1]
SameType == [r \in JobRequests |-> t1]

=============================================================================
