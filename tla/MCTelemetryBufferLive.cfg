CONSTANTS
    Items = {i1}
    Fetches = {f1, f2}
    Retention = 1
    MaxTime = 3
    MaxRestarts = 2
    Nobody = Nobody
SPECIFICATION FairSpec
PROPERTIES ExpiredRowsGo FetchEnds
CHECK_DEADLOCK FALSE
