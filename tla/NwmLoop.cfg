CONSTANTS
    Windows = {w1}
    NoWindow = NoWindow
    Polite = {w1}
    AtStart = {w1}
    MayOverride = {}
    AppMoves = {"withdraw", "pointer"}
    MaxLives = 2
    QueueCap = 2
    MayMisfit = TRUE
    Clients = {c1, c2}
    NULL = NULL
    Unspecified = Unspecified
    Hooks <- TilingHooks
    ConfigProcs = {}
    ConfigCalls = {}
    Commands <- CoreCommands
    TaskCount = 3
    SliceSize = 1
    Durations = {2}
    ClockSteps <- SetBack
    ReplCap = 1
    KeyCap = 1
SPECIFICATION NwmLoopSpec
INVARIANTS NoTaskPassedOver SleepBounded
PROPERTIES LoopIsFair StarvedOnlyByEvents MapRequestServed ZombieRemoved
