\* create/free/clear over three objects and four ids; every pointer that
\* reaches create() is a real object.
CONSTANTS
  Object = {o1, o2, o3}
  NULL = NULL
  MaxIds = 4
  CreatesNull = FALSE
SPECIFICATION TableSpec
INVARIANT IdsAccountedFor
PROPERTY ImplementsHandleTable
