SPECIFICATION Spec
CONSTANTS
    MaxAttempts = 2
    Faults = {"slow_reply", "split_line", "send_fail", "refused", "peer_reset", "early_close", "proxy_restart"}
    Commands <- MCAdhoc
    TLS_FRAME_MAX = 2048
    UART_TX_CHUNK_MAX = 1
    CertBufSize = 8
    ClientLen = 2
    MaxBoots = 1
    MaxRead = 2
    ServerStream <- MCShortStream
    PemByte = 45
    PemLen = 3
    NetChunk = 2
INVARIANTS
    TypeOK
    UplinkInOrder
    DownlinkInOrder
PROPERTIES
    StreamSpec
