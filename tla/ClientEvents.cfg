CONSTANTS
  MaxClients = 2
  Name = {n1}
  SteamID = {bot}
  BOT = bot
  Wrap = 3
  MaxPending = 1
  Cooldown = 1
  PendingAtChange = FALSE
  Client = {1}
  Typed <- TypedLines
  Names <- CommandNames
  Regex <- Expressions
  MaxCommands = 2
  SafeFunctions = TRUE
SPECIFICATION Spec
INVARIANTS
  NativesTellTheTruth
  NothingInherited
  CountIsExact
  LinesAreHeard
