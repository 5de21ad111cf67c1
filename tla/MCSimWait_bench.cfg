SPECIFICATION FairSpec
CONSTANTS
    t1 = t1
    t2 = t2
    clk = clk
    out = out
    Sim = Sim
    NoThread = NoThread
    MainThread = t1
    Threads <- TwoThreads
    Watched <- Clk
    Clocked <- Clk
    Driven <- Out
    SpinLimit = 6
    MaxYields = 1
    DeleteLive = FALSE
INVARIANTS
    TypeOK
    SimRunsAlone
    CallbacksAreWaits
    NoStrayWakeup
    RunningCountsLiveThreads
PROPERTIES
    WokenByEvent
    SimGoesOn
    WakeupDelivered
