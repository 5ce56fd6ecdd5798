SPECIFICATION EdgeSpec
CONSTANTS
    Records = 4
    Junk = {1}
    PIPE = 1
    CHANNEL = 2
    StreamFaults = {"crash", "stop", "exit", "put", "get", "publish"}
    MaxFaults = 3
INVARIANTS EdgeTypeOK StreamNoGap HttpAnswersTrue BridgeAckedIsStored 
     MqttKeepsOrder
PROPERTIES SinkImplements PollTicksAreWhole 
CHECK_DEADLOCK FALSE
