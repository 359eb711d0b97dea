SPECIFICATION Spec
CONSTANTS
    status = status
    skills = skills
    v1 = v1
    v2 = v2
    v3 = v3
    Turns = {t1, t2}
    Preds = {status, skills}
    Single = {status}
    Values = {v1, v2, v3}
    Statement <- StatusOnly
    MaxFacts = 1
    QueriesFail = FALSE
INVARIANTS
    AValueSurvives
CHECK_DEADLOCK FALSE
