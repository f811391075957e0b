--------------------------- MODULE TelemetrySources ---------------------------
(***************************************************************************)
(* netra/datagen/source.py: labelled telemetry comes from the generator    *)
(* (SYNTHETIC) or from a lab that the fault drivers impair (SIM), and all  *)
(* behind the interface sees neither.  A deployment has one of the two;    *)
(* what they promise of the labels is stated in their modules.             *)
(***************************************************************************)
EXTENDS SyntheticGenerator, FaultDrivers

VARIABLE kind  \* TelemetrySource.kind

labVars == <<kind, genVars, driverVars>>

SourceInit == GenInit /\ DriverInit /\ kind \in {"SYNTHETIC", "SIM"}

(* SyntheticSource.iter_records.                                            *)
SyntheticSource == kind = "SYNTHETIC" /\ Emit /\ UNCHANGED <<kind, driverVars>>

(* ContainerlabSource cannot read the lab yet: only the drivers run.        *)
ContainerlabSource == kind = "SIM" /\ DriverNext /\ UNCHANGED <<kind, genVars>>

SourceNext == SyntheticSource \/ ContainerlabSource

SourceSpec == SourceInit /\ [][SourceNext]_labVars
===============================================================================
