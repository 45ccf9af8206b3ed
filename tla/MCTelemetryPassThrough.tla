------------------------- MODULE MCTelemetryPassThrough -------------------------
(* Instances of TelemetryPassThrough, and of the registry in it, for TLC. *)
EXTENDS TelemetryPassThrough
=================================================================================
