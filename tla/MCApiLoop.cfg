SPECIFICATION FairSpec
CONSTANTS
  j1 = j1
  r1 = r1
  r2 = r2
  r3 = r3
  Requests = {r1, r2, r3}
  JobIds = {j1}
  KindsOf <- OneFlush
  TargetOf <- OneJob
  ReadersWait = FALSE
  PoolSize = 2
  Poll = Poll
  None = None
INVARIANTS
  TypeOK
  

  
  
