SPECIFICATION Spec
CONSTANTS
    dear = dear
    cheap = cheap
    Trip = {t1}
    Stay <- MCStay
    OverCap <- MCOverCap
    Usd <- MCUsd
    Token = {tok}
    None = None
    MaxRestarts = 0
INVARIANT
    OnlyYesIsYes
CHECK_DEADLOCK FALSE
