CONSTANTS
  Never = Never
  Nil = Nil
  Unset = Unset
  Keys = {k1, k2}
  Procs = {p1, p2}
  Values = {v1, v2}
  DefaultTTL = 0
  Second <- MCSecond
  SetOpts <- MCLong
  FailOpts <- MCTtlOnly
  GetOpts <- MCTakeExtend
  Faults = {"giveup"}
  MaxRetries = 0
  MaxLate = 0
  Start <- MCStart
  MaxTime = 6
  Horizon = 8
SPECIFICATION Spec
SYMMETRY Symmetry
INVARIANTS AckedEntryExpires
PROPERTIES ExtensionNeverShortens KeepsContract
