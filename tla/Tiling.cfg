CONSTANTS
    Clients = {c1, c2}
    Windows = {w1, w2}
    NoWindow = NoWindow
    ScreenWidth = 20
    ScreenHeight = 33
    Gaps = {2}
    border_width = 1
    AppGeometry <- Program
    Amounts <- MasterAmounts
    MaxTiled = 5
    MaxMaster = 2
    Inputs = {"masters", "cycle", "show-or-hide", "reverse", "swap", "swap-master", "move", "resize", "configure"}
    Moves <- ReplMoves
    Sizes <- ReplSizes
SYMMETRY AllSymmetry
SPECIFICATION TilingSpec
INVARIANTS TilingTypeOK TilesApart RecordFollowsWindow
