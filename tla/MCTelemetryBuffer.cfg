CONSTANTS
    Items = {i1, i2, i3}
    Fetches = {f1, f2}
    Retention = 1
    MaxTime = 2
    MaxRestarts = 1
    Nobody = Nobody
SPECIFICATION Spec
INVARIANTS TypeOK AccountedFor ServedOnceUnlessOvertaken
PROPERTIES RemovedForAReason TelemetryStoreRefined
SYMMETRY RowSymmetry
CHECK_DEADLOCK FALSE
