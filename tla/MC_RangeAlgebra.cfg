CONSTANTS
    CL = 4
    MaxParts = 2
SPECIFICATION Spec
INVARIANTS
    NormalizeIsCanonical
    DeltaIsMissingBytes
