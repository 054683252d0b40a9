SPECIFICATION DriversSpec
CONSTANTS
    E1000_NUM_TX_DESC = 2
    E1000_NUM_RX_DESC = 2
    MaxFrames = 3
    Sectors = {0, 1}
    TIMEOUT = 1
    MaxCalls = 2
    MaxEvents = 4
INVARIANTS RingsInOrder ReadIsTrue WriteIsPrefix
PROPERTIES ReceiveLive
