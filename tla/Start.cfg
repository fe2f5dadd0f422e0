SPECIFICATION MCSpec
SYMMETRY UserSymmetry
VIEW Moved
CONSTANTS
  PoolSize = 2
  MinTargetFloor = 1
  MaxTasks = 2
  MaxGetters = 1
  MaxLoad = 1
  FailureCap = 1
  PathMayChange = FALSE
  StartFiles <- MCStartFiles
  EditedFiles <- MCEditedFiles
  MaxStartEdits = 1
  PlanFiles <- MCPlanFiles
  OtherFiles <- MCOtherFiles
  MenuUser <- MCMenuUser
  MenuPassword = {"pw", "pw2", ""}
  MaxPlanEdits = 3
  UserConn = {c1, c2}
  Timer = timer
  Quota = {2}
  Day = {0, 1}
  Month = 2
  LastDay = 1
  MaxHandles = 2
  MaxUsed = 2
  MaxQuotaEvents = 3
INVARIANTS
  PoolSound
  StartSound
  PlanTrue
  NothingForgotten
ACTION_CONSTRAINTS QuietNetwork OneUser
CONSTRAINT EarlyPeriod
CHECK_DEADLOCK FALSE
