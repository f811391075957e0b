SPECIFICATION ConsoleSpec
CONSTANTS
    i1 = i1
    i2 = i2
    i3 = i3
    congestion = congestion
    flap = flap
    tunnel = tunnel
    Queues <- AllQueues
    Slots = {s1, s2}
    Boot = Boot
    Null = Null
INVARIANTS CardIsCoherent
PROPERTIES ChatKeepsItsIncident StreamStarts
