SPECIFICATION Spec
CONSTANTS
    p1 = p1
    c1 = c1
    c2 = c2
    NoThread = NoThread
    Producers <- OneProducer
    Consumers <- OneConsumer
    Resetters <- NoResetter
    Capacity = 2
    Stamps = 2
    MaxQueued = 3
INVARIANTS
    NoEmptyPop
CHECK_DEADLOCK FALSE
