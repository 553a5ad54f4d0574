SPECIFICATION SpecRefused
CONSTANTS
  j1 = j1
  f1 = f1
  q1 = q1
  o1 = o1
  u1 = u1
  u2 = u2
  Refused = {u1}
  JobIds = {j1}
  Owners = {o1}
  Forms = {f1}
  Dests = {q1}
  Queues = {q1}
  Subs = {u1, u2}
  FormOf <- OneForm
  InitialJobs <- OneJob
  Pollers = {p1}
  Requests = {r1}
  MaxAttempts = 2
  MaxTries = 2
  ListShapes = {TRUE}
  Quirks = {}
  Faults = 0
  Crashes = 0
  Ops = 0
  None = None
PROPERTY
  OthersSettle
