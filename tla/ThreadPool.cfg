SPECIFICATION FairSpec
CONSTANTS
    Workers = {w1, w2, w3}
    Tasks = {t1, t2, t3}
INVARIANTS
    StartedInOrder
    WorkConserving
    CloseDrains
PROPERTIES
    EveryTaskRuns
    EveryWorkerEnds
CHECK_DEADLOCK FALSE
