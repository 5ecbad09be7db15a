CONSTANTS
  Never = Never
  Nil = Nil
  Unset = Unset
  Keys = {k1}
  Procs = {p1, p2}
  Values = {v1, v2}
  DefaultTTL = 0
  Second <- MCSecond
  SetOpts <- MCMixed
  FailOpts <- MCNoOpts
  GetOpts <- MCConsuming
  Faults = {"retry", "giveup", "late"}
  MaxRetries = 1
  MaxLate = 1
  Start <- MCStart
  MaxTime = 5
  Horizon = 7
SPECIFICATION Spec
SYMMETRY Symmetry
INVARIANTS TypeOK ServedOncePerStore ServedOncePerAttempt  AckedEntryExpires
