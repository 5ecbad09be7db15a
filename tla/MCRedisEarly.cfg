CONSTANTS
  Never = Never
  Nil = Nil
  Unset = Unset
  Keys = {k1}
  Procs = {p1}
  Values = {v1}
  DefaultTTL = 0
  Second <- MCSecond
  SetOpts <- MCHalf
  FailOpts <- MCNoOpts
  GetOpts <- MCPlainGet
  Faults = {}
  MaxRetries = 0
  MaxLate = 0
  Start <- MCStart
  MaxTime = 8
  Horizon = 7
SPECIFICATION Spec
SYMMETRY Symmetry
PROPERTIES NotExpiredEarly
