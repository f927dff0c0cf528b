\* The whole kernel: one channel holding up to two messages (and the first out-of-range id), two DMA handles, a buffer smaller and one larger than the 98-byte frame.
CONSTANTS
    TaskIds <- MCTaskIds
    MaxRunQueue = 2
    NumChannels = 1
    PayloadLens = {2}
    MaxMsgs = 2
    AllocSizes = {64, 1536}
    MaxHandle = 2
    Irqs = {11}
    VNodeCaps <- MCVNodeCaps
    OutCaps = {1536}
    SetLenArgs = {98}
SPECIFICATION Spec
VIEW MCView
INVARIANTS
    TypeOK
    RunningIsCurrent
    VNodeReadyQueued
    LenWithinCapacity
    HandlesFresh
PROPERTIES
    MailboxIsFifo
