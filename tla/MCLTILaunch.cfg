SPECIFICATION Spec
CONSTANTS
    Nil = Nil
    x1 = x1
    x2 = x2
    alice = alice
    link = link
    Platform <- Platforms
    Link = {link}
    Delivery = {exam}
    i1 = i1
    State = {x1, x2}
    Request = {r1, r2}
    Token <- Tokens
    SessionId = {s1, s2}
    MaxAttempts = 1
    Lifetime = 1
    MaxTime = 2
    MaxFaults = 1
SYMMETRY Symmetry
INVARIANTS
    StateUsedOnce
    SessionOfOneAccount
    GradePostedOnce
    GradeNotPassedOver
