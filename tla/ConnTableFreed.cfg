CONSTANTS
    w1 = w1
    w2 = w2
    reaper = reaper
    f1 = f1
    b1 = b1
    NoActor = NoActor
    NoBackend = NoBackend
    Workers <- MCWorkers
    Reaper <- reaper
    Flows <- MCFlows
    Backends <- MCBackends
    Kinds <- MCKindsAll
    MaxPkts = 4
    MaxTime = 1
    Delay = 0
SPECIFICATION Spec
INVARIANT FreedOnlyIfExpired
CHECK_DEADLOCK FALSE
SYMMETRY MCSymmetry
