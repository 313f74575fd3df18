SPECIFICATION ServicesSpec
CONSTANTS
    c1 = c1
    c2 = c2
    None = None
    Campaign <- MCCampaign
    Cassettes = 2
    MaxProgress = 2
    MaxGeneration = 5
    MaxOthers = 1
    KeyNone = KeyNone
    UiNone = UiNone
    KeySnapshots <- MCKeySnapshots
    ViewCaps <- MCViewCaps
    ViewEvents = {"RunStarted", "RunCompleted"}
    ViewLogMax = 2
    ViewSizes <- MCViewSizes
    ViewRecords <- MCViewRecords
    ViewRecordMax = 3
    ViewRecent = 2
    ViewAskMax = 3
    ViewClock = {0, 1, 2, 3}
    ViewIdentities = {"i", "j"}
    ViewEdits = 4
    ViewQueries <- MCViewQueries
    FanNone = FanNone
    FanChoices <- MCFanChoices
    FanItemMax = 2
    FanRequestMax = 3
    FanInFlight = 1
    FanProcesses = 3
    AgentOffers <- MCAgentOffers
    AgentTotal = 1
    AgentWireMax = 2
    AgentRequests = 2
    GuNone = GuNone
    GuOrder <- MCGuOrder
    GuWorkloads = {"", "control", "v", "w"}
    GuAgents = {"", "control", "a", "b"}
    GuMeasures = {"", "control", "m", "n", "t"}
    GuProfiles = {"", "p", "q"}
    GuAdapters = {"", "adapter"}
    GuShas = {"s", "t"}
    GuItemMax = 2
    GuCatalogs <- MCGuCatalogs
    GuHandoffs <- MCGuHandoffs
    GuOffers <- MCGuOffers
    GuCassettes <- MCGuCassettes
SYMMETRY MCSymmetry
INVARIANTS
    ServicesTypeOK
    ActsAsShown
    KeysAsShown
    ViewsSound
    FanoutHonest
    
PROPERTIES
    LifecycleNeverGoesBack
    ActivatedOnce
