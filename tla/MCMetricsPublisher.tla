--------------------------- MODULE MCMetricsPublisher ----------------------------
(***************************************************************************)
(* An instance of MetricsPublisher for TLC: the two collectors of          *)
(* MetricsService with the rules of rules.NewEngine, at smaller            *)
(* thresholds, and a configured name that has no value.                    *)
(***************************************************************************)
EXTENDS MetricsPublisher, TLC

Name(b, s) == [base |-> b, suffix |-> s]
Dropped == Name("dropped", "_total")
Latency(s) == Name("latency", s)

MCSeries == {"dropped", "ERROR", "SUCCESS"}
MCLabelled == {"ERROR", "SUCCESS"}
MCExposed == Dropped :> <<"dropped">> @@ Latency("") :> <<"ERROR", "SUCCESS">>
MCTypeOf == Dropped :> "COUNTER" @@ Latency("") :> "HISTOGRAM"
MCThreshold == Dropped :> 0 @@ Latency("_count") :> 0
MCMetrics == <<Latency("_bucket"), Latency("_count"), Dropped>>
=================================================================================
