\* One adapter, two plugins, three forward objects under a default and an own
\* name, of the exec types that fold, activations nested two deep; calls fail, stop
\* or answer more.
CONSTANTS
  Fwd = {f1, f2, f3}
  Name = {onEvent, own}
  Default = {onEvent}
  p1 = p1
  p2 = p2
  Plugin = {p1, p2}
  NoPlugin = NoPlugin
  Listeners <- OneAdapter
  Value = {v1, v2}
  NoValue = NoValue
  MaxDepth = 2
  Reentrant = FALSE
  Types <- TwoTypes
  Answers <- SomeAnswers
SPECIFICATION Spec
INVARIANTS UniqueForwards ExecutedForwardLives ArgumentsHold AnswersMeetType
SYMMETRY Symmetry
