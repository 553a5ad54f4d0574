SPECIFICATION Spec
CONSTANTS
  j1 = j1
  j2 = j2
  f1 = f1
  f2 = f2
  q1 = q1
  o1 = o1
  JobIds = {j1}
  Owners = {o1}
  Forms = {f1, f2}
  Dests = {q1, nowhere}
  Queues = {q1}
  Subs = {u1}
  FormOf <- OneForm
  InitialJobs <- LiveJobs
  Pollers = {p1, p2}
  Requests = {r1}
  MaxAttempts = 2
  MaxTries = 2
  ListShapes = {TRUE, FALSE}
  Quirks = {"lost_reply", "blind_guard", "boot_fault"}
  Faults = 2
  Crashes = 0
  Ops = 1
  None = None
INVARIANTS
  DeliveredIsReal
  StampAttestsRows
  
PROPERTIES
  SerialIsKept
CHECK_DEADLOCK FALSE
