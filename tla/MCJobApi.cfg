SPECIFICATION Spec
CONSTANTS
  r1 = r1
  r2 = r2
  r3 = r3
  admin = admin
  alice = alice
  bob = bob
  Sessions = {r1, r2}
  JobIds = {1, 2}
  Consumers = {admin, alice, bob}
  Admins = {admin}
  Destinations = {"d1", "d2", "nowhere"}
  Routable = {"d1", "d2"}
  Calls <- Basic
  ReadersWait = FALSE
  Null = Null
  NoJob = NoJob
  Deleted = Deleted
INVARIANTS
  TypeOK
  UniqueJobs
  
PROPERTIES
  EditsKeepToTheirColumns
  
CHECK_DEADLOCK FALSE
