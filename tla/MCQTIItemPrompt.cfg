SPECIFICATION ItemSpec
CONSTANTS
    Token <- Tokens
    Dir = {"images/"}
    Base <- Bases
    Url <- ClearUuids
    Question <- Questions
    Identifier = {1, 2, 3}
    MaxOptions = 3
    MaxKey = 2
CHECK_DEADLOCK FALSE
INVARIANTS
    PromptRewritten
