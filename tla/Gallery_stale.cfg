SPECIFICATION Spec
CONSTANTS
    MaxCharts = 1
    MaxMoves = 1
    MaxRefreshes = 1
    MaxFailures = 0
    NoPage = NoPage
INVARIANT GalleryIsFresh
CHECK_DEADLOCK FALSE
