SPECIFICATION TxSpec
CONSTANTS
    UART_TX_BUF_LEN = 5
    ChunkSizes <- MCChunkSizes
    DefaultChunk = 3
    MaxPacket = 4
    MaxBytes = 11
INVARIANTS
    TxInv
    WireInOrder
PROPERTIES
    DmaCellsStable
    DiscardOnlyWhenFull
    AcceptedIsSent
