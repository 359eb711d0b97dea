SPECIFICATION Spec
CONSTANTS
    Mails = {m1}
    Replies = {r1}
    CronRuns = {k1}
    Limit = 1
    MaxAcks = 1
    None = None
INVARIANTS
    UndoneTodoIsNotDue
CHECK_DEADLOCK FALSE
