SPECIFICATION FairSpec
CONSTANTS
    lavish = lavish
    dear = dear
    cheap = cheap
    cc = cc
    Trip = {t1}
    Stay <- MCStay
    OverCap <- MCOverCap
    Usd <- MCUsd
    Centre <- MCCentre
    Budget <- MCBudget
    CentreOf <- MCCentreOf
    None = None
    MaxRestarts = 1
    MaxCrashes = 1
INVARIANTS
    ConfirmedIsBooked
    ChargedAtMostOnce
    UntouchedWithoutYes
    YesBeforeMoney
PROPERTIES
    LedgerKeepsItsPromise
    ConciergeIsALedgerCaller
    TripsComeToRest
CHECK_DEADLOCK FALSE
