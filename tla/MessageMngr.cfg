\* Two types, two hooks, messages of at most one parameter, one message sent
\* from inside a handler: a blocked one, or one sent past the hooks.
CONSTANTS
  Type = {t1, t2}
  NoType = NoType
  Hook = {h1, h2}
  Value = {v1, v2}
  MaxParams = 1
  MaxDepth = 2
  Sends = {"Blocked", "Direct"}
  Senders = {"Game", "Hookable"}
  Origins = {"Given"}
  Shuffles = FALSE
SPECIFICATION Spec
INVARIANTS HandlersSeeTheirMessage NothingLeftOver
PROPERTIES OnceBlocksOne ImplementsRelay
SYMMETRY Symmetry
