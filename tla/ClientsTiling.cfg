CONSTANTS
    Windows = {w1, w2}
    NoWindow = NoWindow
    Polite = {w1}
    AtStart = {w1}
    MayOverride = {w2}
    AppMoves <- AllMoves
    MaxLives = 1
    QueueCap = 2
    MayMisfit = FALSE
    Clients = {c1, c2, c3}
    NULL = NULL
    Unspecified = Unspecified
    Hooks <- TilingHooks
    ConfigProcs = {}
    ConfigCalls = {}
    Commands <- AllCommands
SYMMETRY StructSymmetry
SPECIFICATION Spec
INVARIANTS TypeOK NoDuplicateWindow NoZombieClient MappedIsManaged LayoutFollowsClients
PROPERTIES FocusGoesToManaged ClientsLeaveOnNotice Implements
