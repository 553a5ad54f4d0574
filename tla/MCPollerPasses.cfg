SPECIFICATION Spec
CONSTANTS
  j1 = j1
  j2 = j2
  f1 = f1
  f2 = f2
  q1 = q1
  o1 = o1
  JobIds = {j1, j2}
  Owners = {o1}
  Forms = {f1}
  Dests = {q1}
  Queues = {q1}
  Subs = {u1, u2}
  FormOf <- OneForm
  InitialJobs <- FirstJob
  Pollers = {p1}
  Requests = {r1}
  MaxAttempts = 2
  MaxTries = 2
  ListShapes = {TRUE}
  Quirks = {}
  Faults = 2
  Crashes = 1
  Ops = 2
  None = None
INVARIANTS
  TypeOK
  AtMostOneItem
  DeliveredIsReal
  StampAttestsRows
PROPERTIES
  RowsBornWithVerdict
  TerminalIsFinal
SYMMETRY SymmetricSubs
