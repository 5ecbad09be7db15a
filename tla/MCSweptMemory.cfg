CONSTANTS
  Never = Never
  Nil = Nil
  Unset = Unset
  Keys = {k1, k2}
  Procs = {p1, runner}
  Runner = runner
  Items = {i1, i2}
  DefaultTTL = 1
  SetOpts <- MCFewSetOpts
  GetOpts <- MCFewGetOpts
  MaxTime = 2
  Horizon = 3
SPECIFICATION SweptSpec
PROPERTIES ExpiredLeaves CallsReturn
