SPECIFICATION SerialSpec
CONSTANTS
    Task = {t1, t2}
    Trip = {p}
    Centre = {cc}
    Amount <- MCAmount
    Budget <- MCBudget
    NoToken = NoToken
    NoRequest = NoRequest
    MaxMessages = 3
    MaxCrashes = 1
INVARIANT
    NoOverdraft
PROPERTY
    IsACostCentre
CHECK_DEADLOCK FALSE
