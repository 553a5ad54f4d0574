SPECIFICATION Spec
CONSTANTS
  s1 = s1
  s2 = s2
  s3 = s3
  s4 = s4
  s5 = s5
  s6 = s6
  Submissions = {s1, s2, s3, s4, s5, s6}
  Unusable = {s6}
  Endpoints = {"oldest", "newest", "whole"}
  Purging = {"whole"}
  PageSize = 3
  MaxArrivals = 1
SYMMETRY Symmetry
INVARIANTS
  TypeOK
  ListsWhatStays
  ListedOnce
  PagesAddSomething
