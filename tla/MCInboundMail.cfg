SPECIFICATION FairSpec
CONSTANTS
    Mails = {c1, e1}
    Conversations = {c1}
    Employers = {e1}
    ResolveTimeout = 2
    InsertTimeout = 2
    Overhead = 2
    HandoffTimeout = 7
    MaxClock = 1
    None = None
INVARIANTS
    TypeOK
    TimerMeansSilence
    DoneMailIsAccountedFor
PROPERTIES
    HandoffsEnd
CHECK_DEADLOCK FALSE
