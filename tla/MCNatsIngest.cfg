SPECIFICATION FairSpec
CONSTANTS
    None = None
    r1 = r1
    r2 = r2
    junk = junk
    list = list
    e1 = e1
    Msgs = {r1, r2, list}
    Good = {r1, r2}
    NotObject = {list}
    Entities = {e1}
    EntityOf <- OnePair
    TimeOf <- OneApart
    MinEmitInterval = 2
    MaxDeliver = 2
    MaxMessages = 2
    MaxFaults = 1
INVARIANTS AckedIsPublished EmissionSpacing GivenUpHasCause
PROPERTIES EveryMessageSettles
CHECK_DEADLOCK FALSE
