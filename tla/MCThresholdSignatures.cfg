SPECIFICATION Spec
CONSTANTS
    Addresses = {w1, w2, w3}
    MaxLength = 3
SYMMETRY AddressSymmetry
CHECK_DEADLOCK FALSE
INVARIANTS
    WritesInBounds
    EachSignatureCountsOnce
    EnoughSignersSucceed
