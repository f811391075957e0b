SPECIFICATION FairSpec
CONSTANTS
    c1 = c1
    d1 = d1
    c2 = c2
    c3 = c3
    d2 = d2
    pe = pe
    ce = ce
    far = far
    x = x
    reroute = reroute
    Chunks = {c1, c2, c3}
    DocOf <- Doc
    Corpora <- SomeCorpora
    Queries <- SomeQueries
    site = site
    congestion = congestion
    flap = flap
    Contexts <- SomeContexts
    Incidents <- SomeIncidents
    Telemetry = Telemetry
    CandidatePool = 3
    RrfK = 60
    MaxHops = 2
    Devices = {pe, ce}
    Links <- OneLink
    Foreign = {x}
    Steps = {reroute}
    StateChanging = {reroute}
    Entities = {site}
    Issues = {congestion, flap}
    ModelCitations <- Cited
    ModelActions <- Model
    MaxChunks = 2
    Healthy = Healthy
    GatherMore = GatherMore
    Diagnose = Diagnose
    NoContext = NoContext
    None = None
INVARIANTS BestChunksRetrieved AnswerIsGrounded FallbackIsCautious
PROPERTIES EveryRequestAnswered
