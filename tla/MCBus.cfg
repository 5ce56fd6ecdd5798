SPECIFICATION BusSpec
CONSTANTS
    t1 = t1
    t2 = t2
    Threads = {t1, t2}
    MaxEmits <- OneAndTwo
    MaxEpoch = 2
INVARIANTS BusTypeOK ConfirmSound WaitersAreLive  BridgeKeepsOrder
PROPERTIES ConfirmReturns ImplementsOutbox BusDelivers
CHECK_DEADLOCK FALSE
