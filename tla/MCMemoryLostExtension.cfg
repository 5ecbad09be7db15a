CONSTANTS
  Never = Never
  Nil = Nil
  Unset = Unset
  Keys = {k1}
  Procs = {p1, p2}
  Items = {i1}
  DefaultTTL = 0
  SetOpts <- MCTimedSetOpts
  GetOpts <- MCExtendOnly
  MaxTime = 2
  Horizon = 3
SPECIFICATION Spec
SYMMETRY Symmetry
PROPERTIES LiveEntryStays
