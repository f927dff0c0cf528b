\* Violation run: InitEventuallyIdle, under weak fairness of the service loop.
CONSTANTS
    InitId = 1105
    ShellId = 1115
    Clients = {1102}
    ClientNames <- MCNames
    MaxReqs = 2
    MaxQueue = 2
SPECIFICATION FairSpec
PROPERTY InitEventuallyIdle
