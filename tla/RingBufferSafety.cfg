SPECIFICATION Spec
CONSTANTS
    BlockCnt = 2
    MaxIdx = 7
    Vals = {a, b}
SYMMETRY ValSymmetry
INVARIANTS IndInv WindowSafe
PROPERTIES NullOnlyAtTheLimit ImplementsFifo
