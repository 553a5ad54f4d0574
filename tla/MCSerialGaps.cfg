SPECIFICATION Spec
CONSTANTS
  Subs = {u1, u2, u3}
  Serials = {1, 2, 4, 8}
  Limits = {1, 3, 10}
  Unknown = Unknown
  Absent = Absent
INVARIANTS
  TypeOK
  TotalsAgree
  ReportIsExact
SYMMETRY SymmetricSubs
