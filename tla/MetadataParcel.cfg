SPECIFICATION ParcelSpec
CONSTANTS
    Alignment = 4
    MaxSize = 5
    MaxAddr = 8
    Half = 8
    SizeMod = 16
INVARIANTS
    InBounds
    ParcelAgrees
