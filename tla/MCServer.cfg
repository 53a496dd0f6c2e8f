SPECIFICATION FairSpec
CONSTANTS
    Nil = Nil
    a = a
    b = b
    up = up
    verify = verify
    Process = {a, b, up, verify}
    role <- Roles
    settings <- Settings
    Seeding = {a, b}
    Schema <- Objects
    ExamId = {k1, k2, k3, k4}
    MaxFaults = 1
CHECK_DEADLOCK FALSE
INVARIANTS
    SchemaReady
    DemoExamComplete
PROPERTIES
    ServersComeUp
