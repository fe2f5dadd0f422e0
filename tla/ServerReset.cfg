SPECIFICATION ServerSpec
SYMMETRY Symmetry
CONSTANTS
  c1 = c1
  c2 = c2
  c3 = c3
  one = one
  Conn = {c1, c2, c3}
  Source = {one}
  source <- Addresses
  MaxConns = 2
  PerIp = 2
  MaxUnauth = 2
  MaxUnauthIp = 1
  RateMax = 1
  MaxPreconnect = 1
  k1 = k1
  k2 = k2
  k3 = k3
  k4 = k4
  Token = {k1, k2, k3, k4}
  Ts <- Timestamps
  Client = {"p1", "p2"}
  Tolerance = 2
  BucketSecs = 2
  BucketCap = 2
  Slack = 2
  MaxNow = 8
  MaxRec <- Records
  Accepts = {"nego", "info"}
  RelayIdle = 2
  DrainIdle = 1
  Target = {"t1", "t2", "t3"}
  Tunnel = {"w1"}
  Flow = {"f1", "f2", "f3"}
  MaxSentTargets = 2
  UdpIdle = 2
  MaxMuxSids = 2
  MaxSends = 3
  j1 = j1
  j2 = j2
  j3 = j3
  Job = {j1, j2, j3}
  sizeOf <- Sizes
  Burst = 2
  MaxTicks = 4
  Address = {"a1", "a2"}
  Link = {"l1", "l2", "l3"}
  LimitCap = 1
  MaxBuckets = 4
  MaxChanges = 1
  QuicConn = {"q1", "q2"}
  QuicStream = {"s1"}
  QuicSource = {"address"}
  quicSource <- QuicAddresses
  MaxPlaces <- QuicPlaceLimits
  MaxShare <- QuicShareLimits
  SoftHandshakes = 1
  MaxQuicData = 2
INVARIANT
  CloseNotifyMeansEof
CHECK_DEADLOCK FALSE
