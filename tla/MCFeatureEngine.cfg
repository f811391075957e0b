SPECIFICATION Spec
CONSTANTS
    None = None
    FadeDen = 2
    EtaUnit = 4
    MaxEta = 20
    RekeyWarmup = 2
    FlatScore = 6
    FlapWindow = 2
    FlapCap = 3
    TopK = 1
    SeenCap = 2
    Width = 4
    Depth = 2
    CusumWarmup = 1
    CusumSlack = 1
    CusumLimit = 3
    Entities = {e1, e2}
    Metrics = {"util", "errors", "latency", "jitter", "loss", "rekey"}
    Values <- ThreeValues
    Times = {0, 1}
    FlapTimes = {0, 1, 2, 3, 4}
    Thresholds <- Limits
    MinEmit = 1
    Scores = {9}
    Anomalous = 9
    Flows = {"a", "b", "c"}
    Hashes <- SomeHashes
    Deviations <- FiveDeviations
    MaxRecords = 3
    MaxStream = 5
    MaxCalls = 5
INVARIANTS SnapshotIsReplay RampEtaIsLate FlapCountHolds TalkersAreTrue CusumIsWindowed
SYMMETRY Permuted
CHECK_DEADLOCK FALSE
