\* The calls in Faults may fail, and a reboot may lose unsynced copies.
CONSTANTS
    MaxFile = 4
    Base <- MCBase
    Rules <- MCRules
    Faults <- AllFaults
    PowerLoss = TRUE
    MaxBoots = 2
SPECIFICATION Spec
CHECK_DEADLOCK FALSE
INVARIANTS SuccessMeansClean DstInOrder NoDumpVanishes
PROPERTIES KeptStays RunEnds
