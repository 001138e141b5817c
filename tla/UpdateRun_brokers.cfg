SPECIFICATION FairSpec
CONSTANTS
    i1 = i1
    i2 = i2
    Isins = {i1, i2}
    NoFigure = NoFigure
    NBuckets = 2
    CashBucket = 2
    BucketOf <- AllEquity
    OtherBrokers = {"manual"}
    Portfolios <- SomePortfolios
    Caches <- NoneOrAll
    ScrapeSets = {{}, {"oskar"}, {"scalable"}, {"traderepublic"}}
INVARIANTS  MirrorsBroker ChartsMatchStore
PROPERTIES OthersUntouched 
