SPECIFICATION DocSpec
CONSTANTS
    MaxClicks = 3
    MaxRuns = 1
    MaxFailures = 1
    NoPage = NoPage
 
PROPERTY InputStays
CHECK_DEADLOCK FALSE
