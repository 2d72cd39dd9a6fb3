SPECIFICATION Spec
CONSTANTS
    Http = {h1}
    Nobody = Nobody
    Batch = 2
    Depth = 1
    MaxBlocks = 4
    MaxRewinds = 1
    Faults = {}
    MaxFaults = 0
SYMMETRY Symmetry
INVARIANTS NoDropped
