SPECIFICATION FairSpec
CONSTANTS
    Producers = {p1, p2}
    Consumers = {c1, c2}
    Items = {x1, x2, x3}
    Capacity = 2
    Uses = {"push_front", "pop_timeout", "clear", "close", "flush"}
INVARIANTS
    CapacityKept
    Conserved
    FifoOrder
    ConsumersWoken
    ProducersWoken
PROPERTIES
    EveryItemIsPopped
    CloseReleases
CHECK_DEADLOCK FALSE
