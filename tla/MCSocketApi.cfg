\* socket-api with one client over the network path, with one interrupt.
CONSTANTS
    BridgeId <- MCBridgeId
    StackId <- MCStackId
    ApiId <- MCApiId
    ApiClients <- MCApiClients
    IrqWired = TRUE
    MaxIrqs = 1
    MaxHandle = 3
    AllocSizes = {1536}
    MaxQueue = 2
    FdArgs = {1}
    DataLens = {0}
    MaxReqs = 3
SPECIFICATION SocketSpec
INVARIANTS
    TxPacketNamesLiveBuffer
