CONSTANTS
    Publishes = {p1}
    Messages = {}
    Malformed = {}
    MaxConnections = 2
SPECIFICATION FairSpec
PROPERTY FirstConnectIsRetried
CHECK_DEADLOCK FALSE
