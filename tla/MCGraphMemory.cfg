SPECIFICATION Spec
CONSTANTS
    status = status
    skills = skills
    v1 = v1
    v2 = v2
    v3 = v3
    Turns = {t1, t2}
    Preds = {status, skills}
    Single = {status}
    Values = {v1, v2, v3}
    Statement <- Sayable
    MaxFacts = 3
    QueriesFail = TRUE
SYMMETRY Interchangeable
INVARIANTS
    TypeOK
    OneValueUnlessRough
    UndisturbedTurnIsRemembered
PROPERTIES
    HistoryIsKept
CHECK_DEADLOCK FALSE
