SPECIFICATION Spec
CONSTANTS
    Texts = {start}
    StartTexts = {start}
    Tasks = {k1}
    MaxDeliveries = 2
    None = None
INVARIANTS
    ClaimingTextIsNotExpired
CHECK_DEADLOCK FALSE
