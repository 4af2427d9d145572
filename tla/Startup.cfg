SPECIFICATION Spec
CONSTANTS
    A = A
    B = B
    C = C
    D = D
    E = E
    F = F
    G = G
    NoTask = NoTask
    Modes <- FewWorkers
INVARIANTS
    GraphAtRest
    NoLostWakeup
PROPERTIES
    TaskGraphSpec
    RunsToTheEnd
CHECK_DEADLOCK FALSE
