SPECIFICATION ReorderSpec
CONSTANTS
    Editors = {e1, e2}
    Runs = {}
    Viewers = {}
    Buckets = {b1}
    RowIds = {r1, r2}
    Names = {n1}
    MaxRows = 2
    MaxStops = 0
    NoRow = NoRow
INVARIANT RowsStoredOnce
CHECK_DEADLOCK FALSE
