CONSTANTS
    Windows = {w1, w2}
    NoWindow = NoWindow
    Polite = {w1}
    AtStart = {}
    MayOverride = {}
    AppMoves = {}
    MaxLives = 1
    QueueCap = 2
    MayMisfit = FALSE
    Clients = {c1, c2}
    NULL = NULL
    Unspecified = Unspecified
    Hooks <- ShippedHooks
    ConfigProcs = {"tag_new_client", "untag_client", "untag_client_hook", "change_visibility"}
    ConfigCalls <- TagCalls
    Commands <- TagKeys
    t1 = t1
    t2 = t2
    Tags = {t1, t2}
    InitTags <- TwoTags
    MaxTagged = 3
SYMMETRY StructSymmetry
SPECIFICATION TagsSpec
INVARIANTS TagsTypeOK VisibleTagIsMapped TaggedIsManaged
PROPERTIES SwitchShowsOneTag
