SPECIFICATION FairSpec
CONSTANTS
    Nil = Nil
    m1 = m1
    m2 = m2
    Import = {a, b}
    Package <- Packages
    MaxFaults = 2
CHECK_DEADLOCK FALSE
INVARIANTS
    ImportAtomic
    ReplyTruthful
    MediaOfItemsExist
    NoStrayFiles
    IdentifiersUnique
PROPERTIES
    ImportsFinish
