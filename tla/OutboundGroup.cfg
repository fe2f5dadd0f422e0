SPECIFICATION OutboundSpec
CONSTANTS
  a = a
  b = b
  c = c
  Leaf = {a, b, c}
  Kind <- Kinds
  Children <- MembersOf
  Roots = {"flat", "share", "pick"}
  Latency = {1, 3}
  NoLatency = NoLatency
  NoNode = NoNode
  Tolerance = 1
  Wrap = 2
  Caller = {u, v}
  Changes <- Varied
SYMMETRY Symmetry
ACTION_CONSTRAINT Scope
INVARIANT
  Spread
PROPERTIES
  CallServed
