SPECIFICATION FairSpec
CONSTANTS
    skyline = skyline
    ledger = ledger
    Use <- MCUse
    Calls <- MCCalls
    Queries <- MCQueries
    NoPool = NoPool
    PoolSize = 1
    MaxRestarts = 2
INVARIANTS
    LeakIsAHandshake
    ErrorsHaveACause
PROPERTIES
    IsAToolCall
    NoneBegunAfterTheFirst
    HandlersFinish
CHECK_DEADLOCK FALSE
