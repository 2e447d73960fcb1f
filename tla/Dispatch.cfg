CONSTANTS
    NULL = NULL
    Types = {0, 2, 17, 20, 34, 35, 66, 127, 130, 146, 161, 255}
    ErrorCodes = {0, 10, 255}
    QueueCap = 2
SPECIFICATION DispatchSpec
PROPERTIES EachToItsHandler OnlyTheCheckIsFatal
