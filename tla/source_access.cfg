SPECIFICATION FairSpec
CONSTANTS
    Runs = {r1, r2}
    Tests = {t1}
    Proxies = {p1}
    MaxEdits = 1
    None = None
CHECK_DEADLOCK FALSE
INVARIANTS
    TypeOK
    UsesLoadedSettings
    SingleFlight
    StaleOnlyFromStragglers
    AgentSurvives
PROPERTIES
    EveryRunReturns
