SPECIFICATION Spec
CONSTANTS
    UART_TX_BUF_LEN = 7
    ChunkSizes <- MCChunkSizes
    DefaultChunk = 3
    MaxPacket = 2
    MaxBytes = 9
    RxDepth = 2
INVARIANTS
    Inv
    NothingDiscarded
PROPERTIES
    HostBytesAreSent
    PipeSpec
