CONSTANTS
    Keycodes = {"k1", "k2", "k3"}
    Startup <- TwoEnters
    Layouts <- Later
    Characters = {"j", "J"}
    Keys <- ManyKeys
    ModMasks = {4, 5}
    Buttons = {0, 256}
    Procs = {"focus-next", "swap"}
    Named = {"focus-next"}
    MayRaise = {"swap"}
    NoProc = NoProc
    MaxBindings = 3
    QueueCap = 1
SPECIFICATION KeysSpec
INVARIANTS BoundKeysGrabbed
PROPERTIES NewestBindingRuns TakenKeyRuns
