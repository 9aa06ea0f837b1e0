SPECIFICATION Spec
CONSTANTS
    UART_RX_BUF_LEN = 4
    Marks <- MCMarks
    DefaultMark = 2
    ReadSizes <- MCReadSizes
    PollBytes = 1
    Slack = 1
    Peers = {"obeys", "ignores"}
    MaxReceived = 7
    MaxPacket = 2
    TX_HOLDBACK_MAX_LEN = 2
    TX_HOLDBACK_MAX_TIME = 1
    Clock = 4
INVARIANTS
    SendInv
    EndpointAgrees
PROPERTIES
    NoNeedlessPackets
    ReceivedIsDone
    PipeSpec
