SPECIFICATION Spec
CONSTANTS
    LineLen = 76
    TimeByte = 55
    SigBytes <- MCSig
    MaxConns = 3
    CacertsDer <- MCLongCacerts
    EST_HTTP_RESPONSE_MAX = 196
    EST_RX_CHUNK_SIZE = 300
    CommonName <- MCName
    KeyLen = 2
    SignatureLen = 1
    MaxBoots = 2
    CutGrain = 1000
INVARIANTS
    TypeOK
    PrintedIsIssued
    EnrollOkIsIssued
    NobodyWaitsForEver
