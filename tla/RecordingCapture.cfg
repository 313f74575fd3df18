SPECIFICATION Spec
CONSTANTS
    c1 = c1
    c2 = c2
    None = None
    Campaign <- MCCampaign
    Cassettes = 2
    MaxProgress = 1
    MaxGeneration = 5
    MaxOthers = 0
PROPERTIES
    CaptureConfirmed
