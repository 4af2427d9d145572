SPECIFICATION FairSpec
CONSTANTS
    s1 = s1
    s2 = s2
    c1 = c1
    c2 = c2
    f1 = f1
    f2 = f2
    f3 = f3
    Centre = Centre
    Servers <- MCServers
    Clients <- MCClients
    Names <- MCNames
    Exports <- MCExports
    Program <- MCLostProgram
    IntMax = 1
    SizeMod = 64
    Modes <- MCCalm
PROPERTY
    LookupIsAnswered
CHECK_DEADLOCK FALSE
