SPECIFICATION FairSpec
CONSTANTS
    None = None
    Homes = {"dws", "ishares", "amundi", "ssga", "ubs", "invesco", "landg", "vanguard", "nobody"}
    Quotes = {1, 2}
    Retries = 3
    MaxRuns = 2
INVARIANTS TypeOK 
PROPERTIES DecidedStays OnlyWhatWasAsked BuildEnds
CHECK_DEADLOCK FALSE
