CONSTANTS
    k1 = k1
    v1 = v1
    v2 = v2
    c1 = c1
    c2 = c2
    c3 = c3
    Keys = {k1}
    Values = {v1}
    None = None
    Callers = {c1, c2, c3}
SPECIFICATION FairSpec
INVARIANTS TypeOK InFlightHasTask SettledAgreesWithBackend AnswersWereHeld WaitersCounted
PROPERTIES EveryCallReturns
