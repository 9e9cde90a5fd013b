\* Two concurrent calls of one browser; a lost request, reply or commit.
CONSTANTS
    Ids = {i1, i2, i3}
    Calls = {c1, c2}
    NoId = NoId
    MaxChanges = 2
    MaxFaults = 1
SPECIFICATION FairSpec
INVARIANTS
    Lineage
    StoredIsUsable
    OnlyLateLoginsSurvive
PROPERTIES
    RevocationStands
    EveryCallEnds
CHECK_DEADLOCK FALSE
