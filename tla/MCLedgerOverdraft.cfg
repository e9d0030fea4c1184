SPECIFICATION Spec
CONSTANTS
    Task = {t1, t2}
    Trip = {p}
    Centre = {cc}
    Amount <- MCAmount
    Budget <- MCBudget
    NoToken = NoToken
    NoRequest = NoRequest
    MaxMessages = 2
    MaxCrashes = 0
INVARIANT
    NoOverdraft
CHECK_DEADLOCK FALSE
