SPECIFICATION Spec
CONSTANTS
  s1 = s1
  s2 = s2
  t1 = t1
  t2 = t2
  Submissions = {s1, s2}
  Threads = {t1, t2}
  Retention = 4
  Alert = 2
  MaxPass = 2
  MaxTime = 9
  Never = Never
SYMMETRY Symmetry
INVARIANTS
  TypeOK
  LossIsSignalled
