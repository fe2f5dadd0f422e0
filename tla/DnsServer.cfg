SPECIFICATION AppSpec
CONSTANTS
    Query = {1, 2}
    Scenarios <- MCScenarios
    RemoteServers <- MCRemoteServers
    CnOverTcp = FALSE
    MaxEntries = 1
    MaxLearned = 1
INVARIANT DnsSound
PROPERTIES AllAnswered PoolLives
CHECK_DEADLOCK FALSE
