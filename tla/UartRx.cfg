SPECIFICATION RxSpec
CONSTANTS
    UART_RX_BUF_LEN = 6
    Marks <- MCMarks
    DefaultMark = 3
    ReadSizes <- MCReadSizes
    PollBytes = 2
    Slack = 1
    Peers = {"obeys", "ignores"}
    MaxReceived = 14
INVARIANTS
    RxInv
    CopiedInOrder
    UnreadFits
    PositionsAgree
PROPERTIES
    OverrunMeansLoss
    CopyFits
    RtsComesBack
    ReceivedIsCopied
