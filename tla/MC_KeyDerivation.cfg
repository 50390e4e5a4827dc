CONSTANTS
    Collate <- MCCollate
    Vals = {"a", "b"}
    MaxParams = 2
SPECIFICATION Spec
INVARIANTS
    KeySeparatesSelected
