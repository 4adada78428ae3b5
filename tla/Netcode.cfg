CONSTANTS
    W <- MCW
    ExtAddr = 49320
    LihAddr = 2561
    HihAddr = 2562
    ExtPort = 200
    LihPort = 80
    HihPort = 81
    Deltas <- MCDeltas
    SeqNums <- MCSeqNums
    Payloads <- MCPayloads
    Ihls <- MCNoOptions
    NoPkt = NoPkt
SPECIFICATION Spec
INVARIANT TcpChecksumValid
INVARIANT SeqSpaceRoundTrip
INVARIANT RstAcceptedByLih
PROPERTY ExpectationMatchesForward
INVARIANT SpliceEndpoints
