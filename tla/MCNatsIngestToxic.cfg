SPECIFICATION FairSpec
CONSTANTS
    None = None
    r1 = r1
    r2 = r2
    junk = junk
    list = list
    e1 = e1
    Msgs = {r1, list}
    Good = {r1}
    NotObject = {list}
    Entities = {e1}
    EntityOf <- One
    TimeOf <- Zero
    MinEmitInterval = None
    MaxDeliver = 2
    MaxMessages = None
    MaxFaults = 0
PROPERTIES EveryRecordFolded
CHECK_DEADLOCK FALSE
