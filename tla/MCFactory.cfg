CONSTANTS
  Procs = {p1, p2}
  Caches = {c1, c2, c3}
  Broken = {c1}
  Nil = Nil
SPECIFICATION Spec
SYMMETRY Symmetry
INVARIANTS TypeOK TrackerExact SweepCovers ClosedBeforeNotSwept IInv
