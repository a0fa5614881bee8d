\* Two timers, executions nested two deep; callbacks pause, reset and trigger
\* timers, create them while the vector has room and remove later ones; frames
\* are fair.
CONSTANTS
  Object = {t1, t2}
  NULL = NULL
  Interval = {1, 2}
  Period = 2
  MaxElapsed = 4
  MapLength = 2
  MaxIds = 3
  MaxDepth = 2
  InCallback = {"Room", "Later"}
  CreatesNull = TRUE
SPECIFICATION FairSpec
INVARIANTS IteratorHolds ServedInTime TimersHaveHandles
PROPERTY DueIsServed
