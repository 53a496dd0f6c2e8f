SPECIFICATION GatewaySpec
CONSTANTS
    Client = {a, b}
    Limit = 2
    Window = 1
    MaxTracked = 1
    MaxTime = 3
    MaxPassed = 5
    MaxCount = 4
    Secret = {x, y}
    x = x
    TTL = 2
    Nil = Nil
    Minted <- Tokens
    MaxRestarts = 1
CHECK_DEADLOCK FALSE
INVARIANTS
    BurstBounded
    TokenHonoured
PROPERTIES
    RefusedOnlyOverLimit
