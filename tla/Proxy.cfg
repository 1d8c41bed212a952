SPECIFICATION Spec
CONSTANTS
    Ports = {default, other}
    DefaultPort = default
    Foreign = {"corporate"}
    NoServer = "none"
    LegacyServer = "legacy"
    UserRests = {"plain", "pac"}
    UserSettings <- MCUserSettings
    NoPort = NoPort
    NoFile = NoFile
    MaxStarts = 2
    MaxTokens = 2
    MaxFaults = 1
    GuardianTicks = 2
    UserRaces = FALSE
INVARIANTS
    TypeOK
    ServerIsSafe
    ReturnedExactly
PROPERTIES
    RecoveryHeals
    KeepsCustody
CHECK_DEADLOCK FALSE
