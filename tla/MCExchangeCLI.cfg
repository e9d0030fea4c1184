SPECIFICATION Spec
CONSTANTS
    concierge = concierge
    skyline = skyline
    sentinel = sentinel
    cli1 = cli1
    cli2 = cli2
    c1 = c1
    c2 = c2
    Call <- MCCall
    Entry <- MCEntry
    Process <- CLIProcess
    File <- CLIFile
    FileOf <- CLIFileOf
    CallerOf <- CLICallerOf
    AgentOf <- CLIAgentOf
    Silent <- CLISilent
    Idle = Idle
    None = None
    MaxRestarts = 0
INVARIANT NoneRefused
CHECK_DEADLOCK FALSE
