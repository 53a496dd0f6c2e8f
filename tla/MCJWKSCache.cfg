SPECIFICATION Spec
CONSTANTS
    Key = {k1}
    Launch = {l1, l2}
    TTL = 2
    Timeout = 1
    MaxTime = 5
PROPERTIES
    AcceptedKeyRecent
    PublishedKeyKnown
