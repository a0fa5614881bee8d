\* A plugin may execute a forward that is being executed.
CONSTANTS
  Fwd = {f1, f2}
  Name = {onEvent, own}
  Default = {onEvent}
  p1 = p1
  p2 = p2
  Plugin = {p1, p2}
  NoPlugin = NoPlugin
  Listeners <- OneAdapter
  Value = {v1}
  NoValue = NoValue
  MaxDepth = 2
  Reentrant = TRUE
  Types <- OneType
  Answers <- SameAnswer
SPECIFICATION Spec
INVARIANT ExecutedForwardLives
