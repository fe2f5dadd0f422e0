SPECIFICATION ClientSpec
SYMMETRY Symmetry
VIEW KernelLeftOut
CONSTANTS
  d1 = d1
  d2 = d2
  d3 = d3
  Domain = {d1, d2, d3}
  None = None
  Capacity = 2
  Query = {"q1"}
  DiskMayFail = TRUE
  Stops = {"exit", "crash"}
  Proc = {"client"}
  Group = {"g1", "g2"}
  Tag = {"n1", "n2"}
  NoTag = "none"
  Owner <- OneProcess
  First <- FirstTag
  MaxTasks = 1
  Pair = {"p1", "p2"}
  DestOf <- OneDest
  Tasks = 2
  Tunnels = 2
  Kinds = {"hijack", "direct", "own", "mux"}
  MaxFlows = 2
  MaxMirageFlows = 1
  MaxSids = 1
  FirstWindow = 1
  Idle = 2
  Callers = 2
  Conns = 2
  MaxStreak = 2
  RejectWindow = 1
  DialBackoff = 1
  MaxPause = 2
  Name = {"site", "other"}
  KeptName = "site"
  Dialer = {"c1"}
  Ttl = 3
  Interval = 2
  StaleCap = 4
  CacheMax = 1
  MaxAsking = 1
  LastSecond = 9
  MaxPathChanges = 3
  addrsOf <- MCAddrs
  MaxSent <- Chunks
  RelayIdle = 2
  DrainIdle = 1
  WatchIdle = 2
INVARIANT IdleAfterDownlink
