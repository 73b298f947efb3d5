---------------------------- MODULE MCCheckpoints ----------------------------
(* Values of the constants of Checkpoints for TLC. *)
EXTENDS Checkpoints, TLC

CONSTANTS r1, r2, r3, b1

\* The prover's first job and a round, and a job that has no checkpoint.
Kinds3 == (r1 :> "ProverExecute") @@ (r2 :> "ProverGetHashesForRound")
          @@ (r3 :> "Execute")
OneBase == [r \in Requests |-> b1]

\* Names of files are alike, and names of directories.
Alike == Permutations(Names) \cup Permutations(Dirs)

=============================================================================
