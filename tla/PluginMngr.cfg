SPECIFICATION Spec
CONSTANTS
  Ext = {sourcepawn, module}
  RegistersAtQuery = {sourcepawn}
  MayFail = {module}
  Hasty = {module}
  AtEnd = {"forwards"}
  MaxHeld = 3
  Adapter = sourcepawn
  File = {a, b}
  Native = {n1, n2, PrintToServer}
  BuiltIn = {PrintToServer}
  Imports <- Tables
  Args <- Calls
  a = a
  b = b
  n1 = n1
  n2 = n2
  PrintToServer = PrintToServer
  x = x
  None = None
  Error = Error
  Undefined = Undefined
  Core = Core
  Elsewhere = Elsewhere
  MaxDepth = 4
  ElsewhereCalls = FALSE
  ExecChangesMap = FALSE
INVARIANTS
  
  NativesSeeTheirCall
  NamesAndIdsAreUnambiguous
