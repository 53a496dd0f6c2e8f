SPECIFICATION Spec
CONSTANTS
    Nil = Nil
    u1 = u1
    u2 = u2
    d1 = d1
    i1 = i1
    i2 = i2
    yes = yes
    s1 = s1
    s2 = s2
    Group = {}
    Answer = {yes}
    itemRow <- Items
    weight <- Weights
    memberOf <- Members
    User = {u1, u2}
    Delivery = {d1}
    Item = {i1}
    SessionId = {s1, s2}
    deliveryRow <- Deliveries
    seed <- Waits
    Reporter = {w1, w2}
    Report <- Reports
    MaxEvents = 3
    MaxTime = 0
    MaxFaults = 1
SYMMETRY ReporterSymmetry
INVARIANTS
    CompletedRowsFinal
    RiskNotUnderstated
PROPERTIES
    LogSettles
