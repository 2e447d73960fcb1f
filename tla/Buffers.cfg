CONSTANTS
    Peers = {p1, p2}
    None = None
    NUL = NUL
    BUFSIZE = 3
    MaxLines = 2
    LineSizes = {3}
    Outputs = {1}
    Values = {0, 1}
    KeyOutputs = {2}
    MayLeave = {p1}
SPECIFICATION BuffersFairSpec
INVARIANTS InBounds NoCrossTalk AnswerShownWhole
PROPERTIES LineAnswered
