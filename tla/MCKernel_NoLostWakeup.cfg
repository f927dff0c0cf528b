\* Violation run: NoLostWakeup.
CONSTANTS
    TaskIds <- MCTaskIds
    MaxRunQueue = 2
    NumChannels = 1
    PayloadLens = {2}
    MaxMsgs = 1
    AllocSizes = {64, 1536}
    MaxHandle = 2
    Irqs = {11}
    VNodeCaps <- MCVNodeCaps
    OutCaps = {1, 1536}
    SetLenArgs = {64, 98}
SPECIFICATION Spec
INVARIANTS
    NoLostWakeup
