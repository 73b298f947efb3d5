--------------------------- MODULE MCGarbledClient ---------------------------
(* Values of the constants of GarbledClient for TLC. *)
EXTENDS GarbledClient, TLC

CONSTANTS other, d1, d2, d3

Kinds3 == [r \in Requests |-> IF r = prove THEN "Prove" ELSE IF r = verify THEN "Verify" ELSE "ImportProof"]
OwnDirs == [r \in Requests |-> IF r = prove THEN d1 ELSE IF r = verify THEN d2 ELSE d3]
TwoFiles == <<"gc_proof", "commitments">>
Processes == Permutations(Runs)

=============================================================================
