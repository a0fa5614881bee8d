CONSTANTS
  Cvar = {c1, c2}
  Text = {t1, t2}
  Function = {f1, f2}
  None = None
  Undefined = Undefined
  MaxNesting = 2
SPECIFICATION Spec
INVARIANTS
  CacheAgrees
  OldIsOld
PROPERTIES
  NobodyMissesAChange
