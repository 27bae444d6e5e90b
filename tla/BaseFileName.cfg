\* Every string that ends inside a buffer of five characters.
CONSTANTS
    MaxLen = 5
    FileNames <- MCFileNames
SPECIFICATION BaseSpec
CHECK_DEADLOCK FALSE
INVARIANTS BaseIsCorrect
