SPECIFICATION FairSpec
CONSTANTS
    s1 = s1
    s2 = s2
    c1 = c1
    c2 = c2
    f1 = f1
    f2 = f2
    f3 = f3
    Centre = Centre
    Servers <- MCServers
    Clients <- MCClients
    Names <- MCNames
    Exports <- MCExports
    Program <- MCProgram
    IntMax = 1
    SizeMod = 64
    Modes <- MCModes
INVARIANTS
    CallGoesToExporter
    ResultsAreOwn
    ExecutedAtMostOnce
    ServingIsListed
PROPERTIES
    RemoteCallSpec
    AcceptedCallEnds
    EveryClientFinishes
CHECK_DEADLOCK FALSE
