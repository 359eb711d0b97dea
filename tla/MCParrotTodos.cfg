SPECIFICATION FairSpec
CONSTANTS
    Mails = {m1, m2}
    Replies = {r1}
    CronRuns = {k1, k2}
    Limit = 1
    MaxAcks = 1
    None = None
INVARIANTS
    TypeOK
    AgentClearsOnlyAcknowledged
    OrphanTodosAreExplained
PROPERTIES
    ImplementsTodoCards
    DueTodosAreCleared
CHECK_DEADLOCK FALSE
