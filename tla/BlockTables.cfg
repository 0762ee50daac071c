CONSTANTS
    Blocks = {b1, b2, b3, b4}
    BlockSize = 2
    Tables = {t1, t2, t3}
    MaxAppend = 3
SPECIFICATION Spec
SYMMETRY MCSymmetry
CONSTRAINT MCBound
INVARIANTS TypeOK RefCountExact FreeListExact CoversTokens OpenTailPrivate
CHECK_DEADLOCK FALSE
