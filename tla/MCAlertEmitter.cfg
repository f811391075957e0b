SPECIFICATION Spec
CONSTANTS
    Entities = {e1, e2}
    Detectors = {ph}
    Metrics = {latency, loss}
    Window = 2
    DedupWindow = 3
    None = None
    MaxKeys = 2
    MaxLag = 2
    MaxTime = 6
    MaxBatch = 2
    MaxCandidates = 5
SYMMETRY Symmetry
INVARIANTS NoDoubleFire StalenessBound
PROPERTIES OnceSpec
CHECK_DEADLOCK FALSE
