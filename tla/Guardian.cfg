SPECIFICATION FairSpec
CONSTANTS
    Ports = {default}
    DefaultPort = default
    Foreign = {"corporate"}
    NoServer = "none"
    LegacyServer = "legacy"
    UserRests = {"plain", "pac"}
    UserSettings <- MCUserSettings
    NoPort = NoPort
    NoFile = NoFile
    MaxStarts = 2
    MaxTokens = 2
    MaxFaults = 1
    GuardianTicks = 2
    UserRaces = FALSE
PROPERTIES
    GuardianHeals
CHECK_DEADLOCK FALSE
