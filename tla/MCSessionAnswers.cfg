SPECIFICATION FairSpec
CONSTANTS
    Nil = Nil
    u1 = u1
    u2 = u2
    d1 = d1
    d2 = d2
    g1 = g1
    g2 = g2
    i1 = i1
    yes = yes
    s1 = s1
    s2 = s2
    s3 = s3
    Group = {g1, g2}
    Answer = {yes, no}
    itemRow <- Items
    weight <- Weights
    memberOf <- Members
    User = {u1}
    Delivery = {d1}
    Item = {i1}
    SessionId = {s1, s2, s3}
    Request = {r1}
    deliveryRow <- Retakable
    seed <- Waits
    MaxTime = 0
    MaxFaults = 0
PROPERTIES
    LatestAnswerKept
