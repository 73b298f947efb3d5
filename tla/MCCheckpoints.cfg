\* Two jobs of a prover on one base, with two files to a checkpoint, and one
\* without a checkpoint; two crashes.
CONSTANTS
  Requests = {r1, r2, r3}
  Bases = {b1}
  KindOf <- Kinds3
  PathOf <- OneBase
  Names = {n1, n2}
  Dirs = {d1, d2, d3}
  MaxCrashes = 2
  None = None
  Torn = Torn
  r1 = r1
  r2 = r2
  r3 = r3
  b1 = b1
SPECIFICATION Spec
SYMMETRY Alike
CHECK_DEADLOCK FALSE
INVARIANTS
  TypeOK
  OnlyFinishedRuns
  SuccessIsWhole
  StartsWhole
  NoLeftovers
