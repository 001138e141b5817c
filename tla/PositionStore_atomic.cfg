SPECIFICATION SerialSpec
CONSTANTS
    Editors = {e1, e2}
    Runs = {u1}
    Viewers = {v1}
    Buckets = {b1, b2}
    RowIds = {r1, r2}
    Names = {n1, n2}
    MaxRows = 2
    MaxStops = 1
    NoRow = NoRow
PROPERTY ImplementsAtomic
