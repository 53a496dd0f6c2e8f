SPECIFICATION ItemSpec
CONSTANTS
    Token <- Tokens
    Dir = {"images/"}
    Base <- Bases
    Url <- Uuids
    Question <- Questions
    Identifier = {1, 2, 3}
    MaxOptions = 3
    MaxKey = 2
CHECK_DEADLOCK FALSE
INVARIANTS
    ReferencesRewritten
    ScoredAsAuthored
