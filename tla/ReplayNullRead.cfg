CONSTANTS
    MaxBuffer = 4
    MaxPkts = 6
    NoExp = NoExp
    NoFrame = NoFrame
    BUFSIZE = 64
    DataBits = 24
    LittleEndian = TRUE
    Sizes = {39, 40, 60, 65}
    Ihls = {4, 5, 8}
    Doffs = {4, 5, 15}
    Ports = {0, 80}
    ULens = {7, 20, 40}
SPECIFICATION Spec
INVARIANT NoReadPastBuffer
CHECK_DEADLOCK FALSE
