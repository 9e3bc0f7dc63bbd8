SPECIFICATION Spec
CONSTANTS
    Key = {k1, k2, k3, k4, k5}
    Empty = Empty
    Sizes = {4, 8}
    Initial = 4
    Hashes <- MCHashes
SYMMETRY Symmetry
INVARIANTS
    AllFound
    IndexedOnce
    NeverFull
PROPERTIES
    IsBlockMap
