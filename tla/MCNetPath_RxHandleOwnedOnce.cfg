CONSTANTS
    BridgeId <- MCBridgeId
    StackId <- MCStackId
    IrqWired = TRUE
    MaxIrqs = 2
    MaxHandle = 4
    AllocSizes = {1536}
    MaxQueue = 2
SPECIFICATION Spec
INVARIANT RxHandleOwnedOnce
