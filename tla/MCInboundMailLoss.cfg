SPECIFICATION Spec
CONSTANTS
    Mails = {c1, e1, o1}
    Conversations = {c1}
    Employers = {e1}
    ResolveTimeout = 1
    InsertTimeout = 1
    Overhead = 1
    HandoffTimeout = 4
    MaxClock = 1
    None = None
INVARIANTS
    FailurePathsKeepTheMail
CHECK_DEADLOCK FALSE
