SPECIFICATION Spec
CONSTANTS
    MaxAttempts = 5
    Faults = {"reboot", "early_close"}
    Commands <- MCLamassu
    TLS_FRAME_MAX = 2048
    UART_TX_CHUNK_MAX = 1
    CertBufSize = 8
    ClientLen = 1
    MaxBoots = 2
    MaxRead = 2
    ServerStream <- MCServerStream
    PemByte = 45
    PemLen = 3
    NetChunk = 2
INVARIANTS
    CertIntact
    UplinkInv
    OneConnection
