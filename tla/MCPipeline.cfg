SPECIFICATION Spec
CHECK_DEADLOCK FALSE
CONSTANTS
    None = None
    NoIssue = "none"
    Methods <- MCMethods
    FamilyOf <- MCFamilyOf
    Prior <- MCPrior
    Elevated = 60
    Breadth <- MCBreadth
    Extreme <- MCExtreme
    Streams <- MCStreams
    Entities <- MCEntities
    EntityOf <- MCEntityOf
    IssueOf <- MCIssueOf
    Threshold <- MCThreshold
    Rising <- MCRising
    Records <- MCRecords
    Gaps = {0, 2}
    Batch <- MCBatch
    Trajectories <- MCTrajectories
    SampleTime = 10
    Downsample = 2
    TrendWindow = 3
    NoEta = NoEta
    NodeOf <- MCNodeOf
    Nodes <- MCNodes
    Distance <- MCDistance
    Centrality <- MCCentrality
    Window = 2
    MaxTopoDistance = 1
    HistoryLen = 3
    MinHistory = 1
    BaselineFloor = 2
    MaxStreams = 4
    TimelineFloor = 20
    ForecastFloor = 55
    IncidentFloor = 40
    AlertRisk = 30
    TopK = 2
    BatchTop = 2
    Labels <- MCLabels
    MaxRecords = 4
INVARIANTS
    AssembleIsRepeatable
    EvaluationIsExact
    IncidentsPartition
    RootDominates
    EtaIsConsensus
PROPERTIES
    UntouchedEventsStay
