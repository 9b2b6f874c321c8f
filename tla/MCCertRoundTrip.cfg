SPECIFICATION Spec
CONSTANTS
    TimeByte = 55
    SigBytes <- MCSig
    NameLens <- MCNames
    KeyLens <- MCKeys
    SignatureLens <- MCSigs
    ProgramLens <- MCProgram
    Serials <- MCSerials
    CutWindow <- MCCutWindow
INVARIANTS
    CsrFits
    CsrIsRead
    CertIsFound
    CutCertIsNotFound
CHECK_DEADLOCK FALSE
