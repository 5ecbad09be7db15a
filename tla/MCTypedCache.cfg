CONSTANTS
  Nil = Nil
  Keys = {k1, k2}
  Procs = {p1, p2}
  Values = {v1, v2, bad}
  Corrupt = {bad}
  Pointer = TRUE
SPECIFICATION TSpec
SYMMETRY Symmetry
INVARIANTS TTypeOK NothingDropped IInv ServedAtMostOnce
PROPERTIES StaysGone
