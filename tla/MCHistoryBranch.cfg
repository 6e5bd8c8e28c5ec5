CONSTANTS
    w1 = w1
    w2 = w2
    w3 = w3
    record = record
    pointer = pointer
    x = x
    y = y
    Absent = Absent
    Writer <- MCWriter
    Path <- MCPath
    Value <- MCValue

SPECIFICATION Spec
SYMMETRY Symmetry
INVARIANTS
    ChecksHold
PROPERTY
    CreateOnly
