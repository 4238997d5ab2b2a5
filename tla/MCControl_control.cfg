SPECIFICATION ControlSpec
VIEW View
CONSTANTS
    c1 = c1
    c2 = c2
    Call = {c1, c2}
    RateLimit = {1}
    MaxActive = {1}
    RateLimitEnabled = TRUE
    DefaultRateLimit = 9
    MaxFaults = 1
    Invalid = Invalid
    Absent = Absent
    NoID = NoID
    NoKey = NoKey
    NULL = NULL
INVARIANTS
    SettingsAgree
    EnqueuedAsAsked
    NoTaskForgotten
    ConfiguredIsEnforced
    
    DelayFollowsPolicy
    WatchersTold
PROPERTIES
    ImplementsSettings
    SlotsKept
CHECK_DEADLOCK FALSE
