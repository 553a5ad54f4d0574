SPECIFICATION FairSpec
CONSTANTS
  j1 = j1
  j2 = j2
  f1 = f1
  f2 = f2
  q1 = q1
  o1 = o1
  JobIds = {j1}
  Owners = {o1}
  Forms = {f1}
  Dests = {q1}
  Queues = {q1}
  Subs = {u1, u2}
  FormOf <- OneForm
  InitialJobs <- LiveJobs
  Pollers = {p1}
  Requests = {r1}
  MaxAttempts = 2
  MaxTries = 2
  ListShapes = {TRUE}
  Quirks = {}
  Faults = 1
  Crashes = 1
  Ops = 1
  None = None
PROPERTIES
  EverySubmissionSettles
  StopIsHeeded
  LoopSurvives
  ImplementsLedger
