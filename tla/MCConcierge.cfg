SPECIFICATION FairSpec
CONSTANTS
    dear = dear
    cheap = cheap
    Trip = {t1, t2}
    Stay <- MCStay
    OverCap <- MCOverCap
    Usd <- MCUsd
    Token = {tok}
    None = None
    MaxRestarts = 1
INVARIANTS
    ConfirmedAsRuledAndFunded
    ConfirmedAfterApproval
    OverCapIsNegotiated
    RestIsDecidedOrAnswerable
    JournalToldOnce
PROPERTIES
    RenegotiatedOnce
    TripsComeToRest
CHECK_DEADLOCK FALSE
