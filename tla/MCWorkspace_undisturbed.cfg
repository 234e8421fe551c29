CONSTANTS
  Shells = {s1, s2}
  f1p1 = f1p1
  f1p2 = f1p2
  f2p1 = f2p1
  Plans <- MCPlans
  Framework <- MCFramework
  Absent = Absent
  Empty = Empty
  Orphans = TRUE
SYMMETRY Symmetry
SPECIFICATION UndisturbedSpec
INVARIANTS
  TypeOK
  ObservedOwnScan
