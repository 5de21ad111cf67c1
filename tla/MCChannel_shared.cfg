SPECIFICATION Spec
CONSTANTS
    p1 = p1
    c1 = c1
    c2 = c2
    NoThread = NoThread
    Producers <- OneProducer
    Consumers <- TwoConsumers
    Resetters <- TheResetter
    Capacity = 2
    Stamps = 2
    MaxQueued = 3
INVARIANTS
    NoMissedMessage
CHECK_DEADLOCK FALSE
