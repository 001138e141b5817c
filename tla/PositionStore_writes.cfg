SPECIFICATION Spec
CONSTANTS
    Editors = {e1}
    Runs = {u1}
    Viewers = {}
    Buckets = {b1, b2}
    RowIds = {r1}
    Names = {n1}
    MaxRows = 1
    MaxStops = 1
    NoRow = NoRow
INVARIANTS TypeOK SoloWriteIsExact
