SPECIFICATION FairSpec
CONSTANTS
  Inbound = {"a"}
  User = {"main", "u"}
  Default = "main"
  Pw = {"m", "p", "q"}
  NoPw = "none"
  Session = {1}
  Start <- StartAll
  ByHand <- HandOne
  MaxEdits = 3
  MaxEvents = 2
INVARIANTS
  SessionsAreCurrent Converged
PROPERTIES
  RemovedLeave
CHECK_DEADLOCK FALSE
