CONSTANTS
  Vfunc = {"Spawn", "TakeDamage"}
  Class = {player, crate}
  Damage = {d1, d2}
  None = None
  MaxFunctions = 1
  MaxNesting = 2
  MaxStack = 2
SPECIFICATION Spec
INVARIANTS
  EntriesLeadToHooks
  ParamsAreMine
PROPERTIES
  OriginalRunsAsAsked
