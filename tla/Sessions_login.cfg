SPECIFICATION FairSpec
CONSTANTS
    Browsers = {b1}
    Threads = {t1, t2}
    Users = {u1, u2}
    Newcomers = {u2}
    Passwords = {w1}
    Commands = {c1}
    MaxSids = 2
    NoUser = NoUser
    NoPassword = NoPassword
INVARIANTS TypeOK SessionHasPortfolio AppOfLatestLogin
PROPERTIES DeadSessionsStayDead FormAnswers
