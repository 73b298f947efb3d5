\* One job, a ping and a message that does not decode; the dispatcher is lost
\* at most twice, inside transactions too.
SPECIFICATION TxFairSpec
CONSTANTS
  r1 = r1  r2 = r2  i1 = i1  i2 = i2  f1 = f1  t1 = t1
  JobRequests = {r1}
  Pings = {ping}
  Junk = {junk}
  JobIds = {i1}
  Files = {f1}
  Types = {t1}
  Pids = {p1}
  Unspawnable = {}
  JobIdOf <- OwnIds
  FileOf <- SameFile
  TypeOf <- SameType
  MaxCrashes = 2
  None = None
  Bad = Bad
INVARIANTS
  TxTypeOK
PROPERTIES
  ImplementsDispatcher
  QueueDrains
  JobsAnswered
