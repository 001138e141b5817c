SPECIFICATION FairSpec
CONSTANTS
    Threads = {p1, p2}
    Builders = {p1}
    Tables = {t1, t2}
    Stores = {s1, s2}
    Locks = {l1}
    Rows = {r1}
    NoRow = NoRow
    Broken = Broken
    NoStore = NoStore
    NoLock = NoLock
    NoThread = NoThread
INVARIANTS TypeOK NoStatementSlipsIn CountedConnections
PROPERTY CallsReturn
