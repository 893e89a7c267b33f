SPECIFICATION Spec
CONSTANTS
    Locations = {l1, l2, l3}
    MaxWorkers = 2
    Scripts = {a, b}
    Names = {v}
    Values = {x, y}
    None = None
SYMMETRY Symmetry
INVARIANTS
    TypeOK
    NoOverlap
    AllCovered
    SegmentInSequence
    NumbersUnique
    SameTest
CHECK_DEADLOCK FALSE
