CONSTANTS
  admin = admin
  alice = alice
  Processes = {p1, p2}
  Files = 2
  Keys = {k1, k2}
  Owners = {admin, alice}
  BootstrapKeys = {k1}
  Admin = admin
  Ttl = 2
  MaxTime = 2
  MaxTokens = 1
  ByHand <- AliceByHand
  None = None
SPECIFICATION Spec
INVARIANTS
  TypeOK
  ServesWithAdmin
  RevocationTakesEffect
PROPERTY
  StartRevivesNothing
SYMMETRY Symmetry
