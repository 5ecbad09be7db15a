CONSTANTS
  Never = Never
  Nil = Nil
  Unset = Unset
  Keys = {k1}
  Procs = {p1}
  Values = {v1}
  DefaultTTL = 0
  Second <- MCSecond
  SetOpts <- MCMixed
  FailOpts <- MCNoOpts
  GetOpts <- MCDefaultGet
  Faults = {}
  MaxRetries = 0
  MaxLate = 0
  Start <- MCStart
  MaxTime = 6
  Horizon = 7
SPECIFICATION Spec
SYMMETRY Symmetry
PROPERTIES DefaultRestored
