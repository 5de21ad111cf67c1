SPECIFICATION Spec
CONSTANTS
    t1 = t1
    t2 = t2
    clk = clk
    out = out
    Sim = Sim
    NoThread = NoThread
    MainThread = t1
    Threads <- TwoThreads
    Watched <- Both
    Clocked <- Clk
    Driven <- Out
    SpinLimit = 3
    MaxYields = 1
    DeleteLive = TRUE
INVARIANTS
    NoMissedEdge
    AssertionHolds
CHECK_DEADLOCK FALSE
