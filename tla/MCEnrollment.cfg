SPECIFICATION Spec
CONSTANTS
    LineLen = 76
    TimeByte = 55
    SigBytes <- MCSig
    MaxConns = 2
    CacertsDer <- MCCacerts
    EST_HTTP_RESPONSE_MAX = 300
    EST_RX_CHUNK_SIZE = 100
    CommonName <- MCName
    KeyLen = 2
    SignatureLen = 4
    MaxBoots = 1
    CutGrain = 1
INVARIANTS
    PrintedIsIssued
    NeverRefused
    IssuedForWhole
