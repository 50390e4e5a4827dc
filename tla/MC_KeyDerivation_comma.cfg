CONSTANTS
    Collate <- MCCollate
    Vals = {"a", "b", "a,b"}
    MaxParams = 2
SPECIFICATION Spec
INVARIANT
    KeySeparatesSelected
