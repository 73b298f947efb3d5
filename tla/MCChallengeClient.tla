-------------------------- MODULE MCChallengeClient --------------------------
(* Values of the constants of ChallengeClient for TLC. *)
EXTENDS ChallengeClient

OneId   == [r \in Jobs |-> "uid_job"]
OneFile == [r \in Jobs |-> "commands_file"]
ByKind  == [r \in Jobs |-> r.kind]
Kinds   == {r.kind : r \in Jobs}

=============================================================================
