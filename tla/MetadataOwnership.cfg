SPECIFICATION Spec
CONSTANTS
    Objs = {o1, o2}
    Bufs = {b1, b2, b3}
    NULL = NULL
    Free = Free
    MaxEntries = 2
    MaxData = 0
SYMMETRY Symmetry
INVARIANTS
    OneOwner
    NoReadAfterFree
    NeverFull
PROPERTIES
    LockedFrozen
    LeaksOnlyThere
