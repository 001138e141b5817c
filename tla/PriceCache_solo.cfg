SPECIFICATION Spec
CONSTANTS
    Procs = {curation, update}
    QuoteRuns = {update}
    SplitRuns = {}
    Curations = {curation}
    Isins = {i1, i2}
    Fields = {price, splits}
    Price = price
    MaxFetches = 2
    NoRow = NoRow
INVARIANT TypeOK
PROPERTY SoloWritesOnlyNews
