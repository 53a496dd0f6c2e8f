SPECIFICATION FairSpec
CONSTANTS
    c1 = c1
    c2 = c2
    old = old
    new = new
    Event = {e1, e2}
    Config = {c1, c2}
    Worker = {w1, w2}
    url <- Urls
    Env <- Settings
    Before <- Table
    Capacity = 1
    Nil = Nil
    MaxFaults = 2
CHECK_DEADLOCK FALSE
INVARIANTS
    EventsAccounted
    LogTruthful
    EveryConfigServed
    PolicyOfDispatch
PROPERTIES
    AnnouncementSpec
    EventsFinish
