SPECIFICATION FairSpec
CONSTANTS
    Handlers = {h1, h2}
    Cancellers = {c1, c2}
    MaxJobs = 2
    MaxDeaths = 1
INVARIANTS TypeOK AtMostOneUpdate FlagCoversHandler QuiescedWhileRunning KilledIsCancelled TimerBackWhenIdle
PROPERTIES ImplementsSlot CancelFreesTheFlag UpdateEnds
CHECK_DEADLOCK FALSE
