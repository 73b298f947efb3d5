\* Three requests with one job id and one S3 key, one of another type, a machine
\* that may fail, a result that may not be text; one crash.
CONSTANTS
  JobRequests = {r1, r2, r3}
  JobIds = {j1}
  Objects = {o1}
  Types = {t1, t2}
  JobIdOf <- SharedId
  ObjectOf <- SharedObject
  TypeOf <- TwoTypes
  Unrunnable = {}
  Unreadable = {r1}
  Machines = {m1, m2, m3}
  Flaky = {m3}
  Commands = {c1, c2}
  MaxRunningInstances = 2
  MaxCrashes = 1
  None = None
  Bad = Bad
  r1 = r1
  r2 = r2
  r3 = r3
  j1 = j1
  j2 = j2
  o1 = o1
  o2 = o2
  t1 = t1
  t2 = t2
SPECIFICATION Spec
SYMMETRY CommandSlots
INVARIANTS
  OneMachinePerJob
  MachinesHaveJobs
  AnswerIsItsOwn
