SPECIFICATION RxSpec
CONSTANTS
    UART_RX_BUF_LEN = 6
    Marks <- MCMarks
    DefaultMark = 3
    ReadSizes <- MCReadSizes
    PollBytes = 2
    Slack = 1
    Peers = {"ignores"}
    MaxReceived = 14
INVARIANTS
    OverrunDetected
