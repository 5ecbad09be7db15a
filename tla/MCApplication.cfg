CONSTANTS
  Nil = Nil
  Lent = Lent
  Caches = {c1, c2}
  Names <- MCNames
  Configs <- MCConfigs
  MaxDerived = 2
SPECIFICATION Spec
SYMMETRY Symmetry
INVARIANTS TypeOK NamesIsolate ClientsFollow NeverSilentlyUnswept
CHECK_DEADLOCK FALSE
