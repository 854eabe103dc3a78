\* Three downloads of two URLs, by two servers, into two files.
CONSTANTS
  Job = {j1, j2, j3}
  Server = {s1, s2}
  u1 = u1
  u2 = u2
  Url = {u1, u2}
  File = {f1, f2}
  Length <- TwoLengths
  Hole = Hole
SPECIFICATION Spec
SYMMETRY Symmetry
INVARIANTS ReportIsTrue OneSource
CHECK_DEADLOCK FALSE
