--------------------------- MODULE MCTelemetryBuffer ----------------------------
(* Instances of TelemetryBuffer for TLC. *)
EXTENDS TelemetryBuffer, TLC

RowSymmetry == Permutations(Items) \cup Permutations(Fetches)
=================================================================================
