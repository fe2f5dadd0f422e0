SPECIFICATION ReloadSpec
CONSTANTS
    Tables <- MCTables
    Domain <- MCDomain
    AddrBits = 2
    Port = {80, 443}
    Inbound = {"in1"}
    NoInbound = "none"
    SiteFile <- MCSiteFile
    IpFile <- MCIpFile
    DefaultOut = "proxy"
    ServerConfs <- MCServerConfs
    FirstConf <- MCFirstConf
    ServerInbound = {"in1", "in2"}
    MaxTunnels = 4
    RealDir = {"dirA", "dirB"}
    Content <- MCContent
    Unparsable = {}
    Refused = {"foreign"}
    TableOf <- MCTableOf
    FirstContent = "one"
    MaxEdits = 2
    MapSize = 3
    Url = {"urlA", "urlB"}
    MaxAge = 1
    MaxDay = 2
    MaxEvents = 3
    FirstFiles <- MCFirstFiles
    NewTag <- MCNewTag
    Host = {"A", "B"}
    Lists <- MCLists
    GroupChoices <- MCGroupChoices
    Exported <- MCExported
    MaxFileEdits = 2
    Hello = {"h1", "h2"}
    Starter = {"s1"}
    Stream <- MCStream
    Batch = 2
    MaxTemplates = 3
    MaxRecords = 9
    Waits = 1
    MaxCancels = 1
    MaxRefreshes = 1
    Observer = {"o1"}
    Seeder = "seed"
    Took = {8, 16}
INVARIANTS SiteSound LateResolutionAgrees GeoFromSource EditsKeepReferences
PROPERTIES SiteKept OneSession ReloadConverges GeoFollows
CHECK_DEADLOCK FALSE
