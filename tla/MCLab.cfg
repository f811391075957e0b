SPECIFICATION LabSpec
CONSTANTS
    NoLabel = NoLabel
    Configs <- SomeConfigs
    Observed = {"pe_hub", "rr_dc", "ce_br1", "pe_dc1", "sdwan_ctl"}
    Noise <- SomeNoise
    Cycles = 2
    Bursts = 3
    Delays = {0, 50}
    MaxCalls = 2
INVARIANTS HealthyStreamsStayHealthy WindowBoundsImpairment LabIsRestored
CHECK_DEADLOCK FALSE
