SPECIFICATION Spec
CONSTANTS
    BLK_BYTES = 2
    RB_BLOCKS = 3
    CtrMod = 8
    MaxRequest = 14
    MaxHanded = 26
INVARIANTS
    TypeOK
    OutIsKeystream
CHECK_DEADLOCK FALSE
