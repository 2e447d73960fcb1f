CONSTANTS
    Wms = {wm1, wm2, wm3}
    None = None
    Windows = {x1, x2}
    HasHome = {wm1, wm2}
    ConfDirs = {"there", "missing", "unusable"}
    Files = {"init.scm", "auto-tile.scm"}
    MayEnd = {wm1, wm2, wm3}
SPECIFICATION StartupFairSpec
INVARIANTS OnlyOneManages SocketOfManager NothingThrownAway
PROPERTIES WindowsAreMapped StartsOrGivesUp
