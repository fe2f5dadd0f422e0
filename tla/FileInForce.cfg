SPECIFICATION Spec
CONSTANTS
  Inbound = {"a"}
  User = {"main", "u"}
  Default = "main"
  Pw = {"m", "p", "q"}
  NoPw = "none"
  Session = {1}
  Start <- StartAll
  ByHand <- HandOne
  MaxEdits = 2
  MaxEvents = 2
INVARIANTS
  FileInForce
CHECK_DEADLOCK FALSE
