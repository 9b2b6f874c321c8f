SPECIFICATION FairSpec
CONSTANTS
    MaxAttempts = 2
    Faults = {"refused", "peer_reset", "early_close"}
    Commands <- MCAdhoc
    TLS_FRAME_MAX = 2048
    UART_TX_CHUNK_MAX = 1
    CertBufSize = 8
    ClientLen = 2
    MaxBoots = 1
    MaxRead = 2
    ServerStream <- MCServerStream
    PemByte = 45
    PemLen = 3
    NetChunk = 2
PROPERTIES
    EofEndsSession
    CommandEnds
    LostConnectionEndsSession
