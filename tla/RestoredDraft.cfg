SPECIFICATION WsSpec
CONSTANTS
    SesNone = SesNone
    SesInvalid = SesInvalid
    SesVersions = {5, 7, 9, 12, 14}
    SesCatalogs <- MCCatalogs
    SesProviders = {"p"}
    SesEntries <- MCEntries
    SesLateMax = 1
    SesCalls = 2
    WizNone = WizNone
    WizOrder <- MCOrder
    WizLive <- MCLive
    WizDevelopment <- MCDevelopment
    WizOpenRouter = "openrouter"
    WizFixtureModels = {"model-x"}
    WizAdapterMax = 1
    WizOptionMax = 2
    WizJoinedMax = 2
    SetVersions = {"agents", "full"}
    SetDurable <- MCDurable
    SetQueryMax = 1
    SetMatches <- MCMatches
    SetTexts <- MCTexts
    PickNone = PickNone
    PickDevelopment <- MCDev
    PickChosen = {"a", "b"}
    PickCatalogs <- MCPickCatalogs
    PickMatches <- MCMatchSets
    PickQueryMax = 1
    PickRuns <- MCRuns
    PickRevisionMax = 1
PROPERTIES
    SetRestoredKept
CHECK_DEADLOCK FALSE
