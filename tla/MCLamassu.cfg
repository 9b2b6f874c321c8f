SPECIFICATION Spec
CONSTANTS
    MaxAttempts = 3
    Faults = {"slow_reply", "send_fail", "refused", "peer_reset", "early_close"}
    Commands <- MCLamassu
    TLS_FRAME_MAX = 2048
    UART_TX_CHUNK_MAX = 1
    CertBufSize = 8
    ClientLen = 2
    MaxBoots = 1
    MaxRead = 2
    ServerStream <- MCServerStream
    PemByte = 45
    PemLen = 3
    NetChunk = 2
INVARIANTS
    CertIntact
    DownlinkInOrder
