CONSTANTS
    W <- MCW
    ExtAddr = 49320
    LihAddr = 2561
    HihAddr = 2562
    ExtPort = 200
    LihPort = 80
    HihPort = 81
    Deltas <- MCDeltas
    SeqNums <- MCSeqNums
    Payloads <- MCPayloads
    Ihls <- MCIhls
    NoPkt = NoPkt
SPECIFICATION Spec
INVARIANT ForwardedChecksumsValid
