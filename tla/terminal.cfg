SPECIFICATION Spec
CONSTANTS
    i1 = i1
    i2 = i2
    Items <- MCItems
INVARIANTS
    StillExposureBlocks
    OutagesNoticed
PROPERTIES
    OutagesEnd
