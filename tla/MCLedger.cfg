SPECIFICATION FairSpec
CONSTANTS
    Task = {t1, t2}
    Trip = {p}
    Centre = {cc}
    Amount <- MCAmount
    Budget <- MCBudget
    NoToken = NoToken
    NoRequest = NoRequest
    MaxMessages = 3
    MaxCrashes = 1
INVARIANTS
    TypeOK
    MoneyIsSanctioned
    VerdictMatchesBooks
    SettledAsSaid
PROPERTY
    EveryMessageAnswered
CHECK_DEADLOCK FALSE
