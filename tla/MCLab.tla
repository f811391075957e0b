-------------------------------- MODULE MCLab --------------------------------
EXTENDS TelemetrySources

(* From a run too short for the ramps to one of an hour; night, morning,    *)
(* noon, and the evening peak.                                              *)
Runs == {<<12000, 1000>>, <<60000, 1000>>, <<120000, 3000>>, <<360000, 6000>>}
SomeConfigs ==
    {[duration |-> r[1], step |-> r[2], hour |-> h, weekend |-> w, scenarios |-> s] :
        r \in Runs, h \in {3, 13, 21}, w \in BOOLEAN, s \in {{"A", "B", "C", "D"}, {"A", "C"}}}
SomeNoise == {-2, 0, 2}

(* The drivers do not touch the configuration of the generator: one is      *)
(* enough beside them.                                                      *)
LabInit == SourceInit /\ (kind = "SIM" => config = CHOOSE c \in SomeConfigs : TRUE)
LabSpec == LabInit /\ [][SourceNext]_labVars
===============================================================================
