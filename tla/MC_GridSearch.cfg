CONSTANTS
    p1 = p1  c1 = c1  c2 = c2  g1 = g1  cellA = cellA  cellB = cellB
    None = None
    Objects <- MCObjects
    TypeOf <- MCTypeOf
    Cells <- MCCells
SPECIFICATION Spec
INVARIANT SearchersAgree
CHECK_DEADLOCK FALSE
SYMMETRY MCSymmetry
