CONSTANTS
    Items = {i1, i2}
    Fetches = {f1, f2}
    Retention = 1
    MaxTime = 1
    MaxRestarts = 0
    Nobody = Nobody
SPECIFICATION Spec
INVARIANT FetchedRowsAreDeleted
CHECK_DEADLOCK FALSE
