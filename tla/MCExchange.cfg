SPECIFICATION FairSpec
CONSTANTS
    concierge = concierge
    skyline = skyline
    sentinel = sentinel
    cli1 = cli1
    cli2 = cli2
    c1 = c1
    c2 = c2
    Call <- MCCall
    Entry <- MCEntry
    Process <- MCProcess
    File <- MCProcess
    FileOf <- MCFileOf
    CallerOf <- MCCallerOf
    AgentOf <- MCAgentOf
    Silent <- MCSilent
    Idle = Idle
    None = None
    MaxRestarts = 1
INVARIANTS
    ReplyIsTheTask
    NoContention
    RecordsTellTheCall
    LeakIsUnsent
PROPERTY
    CallsComeToRest
CHECK_DEADLOCK FALSE
