CONSTANTS
  Never = Never
  Nil = Nil
  Unset = Unset
  Keys = {k1}
  Procs = {p1, p2}
  Items = {i1, i2}
  DefaultTTL = 1
  SetOpts <- MCSetOpts
  GetOpts <- MCGetOpts
  MaxTime = 2
  Horizon = 3
SPECIFICATION Spec
SYMMETRY Symmetry
INVARIANTS TypeOK TakeLosesOnlyExpired HitWasPresent ServedAtMostOnce IInv
PROPERTIES ExpiredStaysExpired ReplacementStays KeepsContract
