\* Distinct pids for running services, with start/status/restart/stop from two V-Nodes.
CONSTANTS
    InitId = 1105
    ShellId = 1115
    Clients = {1102}
    ClientNames <- MCNames
    MaxReqs = 3
    MaxQueue = 2
SPECIFICATION Spec
INVARIANT RunningPidsDistinct
