SPECIFICATION FairSpec
CONSTANTS
    Texts = {start, chat}
    StartTexts = {start}
    Tasks = {k1, k2}
    MaxDeliveries = 2
    None = None
INVARIANTS
    TypeOK
    OnlyScreenedTextsAreDrafted
    DraftsTellTheTruth
    StuckRowsAreExplained
PROPERTIES
    ImplementsTextReplies
    DeliveredIsHandled
CHECK_DEADLOCK FALSE
