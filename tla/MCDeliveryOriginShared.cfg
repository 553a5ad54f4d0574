SPECIFICATION OriginSpec
CONSTANTS
  j1 = j1
  j2 = j2
  f1 = f1
  q1 = q1
  q2 = q2
  o1 = o1
  o2 = o2
  JobIds = {j1, j2}
  Owners = {o1, o2}
  Forms = {f1}
  Dests = {q1}
  Queues = {q1}
  Subs = {u1}
  FormOf <- OneForm
  InitialJobs <- TwoOwners
  Pollers = {p1}
  Requests = {r1}
  MaxAttempts = 2
  MaxTries = 2
  ListShapes = {TRUE}
  Quirks = {}
  Faults = 0
  Crashes = 0
  Ops = 0
  None = None
INVARIANT
  DeliveredForThatJob
