\* Two jobs with ids of their own, on two machines; two crashes.
CONSTANTS
  JobRequests = {r1, r2}
  JobIds = {j1, j2}
  Objects = {o1, o2}
  Types = {t1}
  JobIdOf <- OwnIds
  ObjectOf <- OwnObjects
  TypeOf <- OneType
  Unrunnable = {}
  Unreadable = {}
  Machines = {m1, m2, m3}
  Flaky = {}
  Commands = {c1, c2, c3}
  MaxRunningInstances = 2
  MaxCrashes = 2
  None = None
  Bad = Bad
  r1 = r1
  r2 = r2
  r3 = r3
  j1 = j1
  j2 = j2
  o1 = o1
  o2 = o2
  t1 = t1
  t2 = t2
SPECIFICATION Spec
SYMMETRY Slots
INVARIANTS
  TypeOK
  AckedIsSafe
  MachinesAreTracked
  InputsStay
  StopsAfterStored
PROPERTIES
  ServiceSafety
