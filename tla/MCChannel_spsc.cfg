SPECIFICATION FairSpec
CONSTANTS
    p1 = p1
    c1 = c1
    c2 = c2
    NoThread = NoThread
    Producers <- OneProducer
    Consumers <- OneConsumer
    Resetters <- NoResetter
    Capacity = 1
    Stamps = 4
    MaxQueued = 3
INVARIANTS
    TypeOK
    CapacityBound
    NoEmptyPop
    NoLostWakeup
    PeekIsNextGet
PROPERTIES
    RefinesFifo
    PutReturns
    Delivered
