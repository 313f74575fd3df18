SPECIFICATION MachinesSpec
CONSTANTS
    DevNone = DevNone
    DevWorker = {"w1"}
    DevBuild = {"r1", "r2"}
    DevMaxFaults = 3
    r1 = r1
    r2 = r2
    a1 = a1
    a2 = a2
    None = None
    Run <- MCRun
    Attempt <- MCAttempt
    Event <- MCEvent
    Generation = 1
    Revision <- MCRevision
    CliNone = CliNone
    CliIds = {"a", "b"}
    CliOffers = {{0, 3}, {4, 5}, {1}}
    CliInFlight = 2
    CliRevisionMax = 3
    CfgNone = CfgNone
    CfgTorn = CfgTorn
    CfgMin = 1
    CfgMax = 2
    CfgDefault = 1
    CfgTextMax = 2
    CfgBundles = {"b1", "b2"}
    CfgFaultMax = 2
    HandNone = HandNone
    HandHosts <- MCHandHosts
    HandMax = 2
    StNone = StNone
    StProcs = {"p1", "p2"}
    StTesters = {"p1"}
    StNames = {"n1"}
    StBudget = 1
    StLimit = 1
    PbNone = PbNone
    PbHosts <- MCPbHosts
    PbTries = 3
    BunNone = BunNone
    BunPids = {"p1", "p2"}
    BunSize = 2
    BunAttempts = 2
    BunArtifactMax = 2
    BunBundleMax = 6
    BunYear = 5
    BunNow = 2
    BunReleases <- MCReleases
    EnNone = EnNone
    EnTorn = EnTorn
    EnProcs = {"p1", "p2"}
    EnHosts <- MCEnHosts
    EnArgMax = 8
    EnSideMax = 400
    EnCellsMax = 10000
    EnSignalMax = 2
INVARIANTS
    MachinesTypeOK
    DevKeptOrRepaired
    LaunchAsReported
    CliLedgerSafe
    CfgSafe
    HandAsShown
    SelfTestSound
    ProbeHonest
    BundleSound
    EntrySound
PROPERTIES
    DevOperationsEnd
    NothingIsForgotten
    CfgBundleKept
    HandSettles
CHECK_DEADLOCK FALSE
