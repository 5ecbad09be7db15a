CONSTANTS
  Procs = {run, p1}
  Caches = {c1, c2}
  Broken = {c1}
  Nil = Nil
  Runner = run
SPECIFICATION SFairSpec
INVARIANTS STypeOK
PROPERTIES SweeperStops ExpiredIsEvicted
