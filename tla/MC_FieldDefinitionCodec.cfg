CONSTANTS
    MaxElems = 2
    MaxEntries = 3
SPECIFICATION Spec
INVARIANTS
    
    MsgsizeBound
    DecodeIsMerge
