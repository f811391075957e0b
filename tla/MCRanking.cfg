SPECIFICATION RankingSpec
CONSTANTS
    Entities <- FlappingHub
    Increment = 2
    SuppressThreshold = 6
    ReuseThreshold = 2
    MaxPenalty = 32
    DemoteFloor = 100
    Decay <- HalveTwice
    MaxFlaps = 8
    MaxTime = 3
    MaxLag = 0
    None = None
    NoNode = NoNode
    Twin <- DemoTwin
    Flows <- SomeFlows
    Queue <- TwoIncidents
    Roots <- TwoRoots
    Confidences = {60}
    Scores = {80}
    Etas = {None, 15, 25}
    Samples <- LabelledRuns
    Curves <- Sigmoids
    MaxPasses = 2
INVARIANTS ReusableInTime QueueIsConsistent DominanceRespected TwinAsDocumented
PROPERTIES FlapNeverRaisesPriority RankingAgainKeepsOrder
CHECK_DEADLOCK FALSE
