CONSTANTS
    Metrics <- MCMetrics
    Series <- MCSeries
    Labelled <- MCLabelled
    Exposed <- MCExposed
    TypeOf <- MCTypeOf
    Threshold <- MCThreshold
    MaxCount = 1
SPECIFICATION FairSpec
INVARIANTS PublisherTypeOK AlertsMatchMetrics LateTraffic
PROPERTIES  PublisherEnds
CHECK_DEADLOCK FALSE
