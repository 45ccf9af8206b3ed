CONSTANTS
    Publishes = {p1}
    Messages = {m1, m2}
    Malformed = {m2}
    MaxConnections = 2
SPECIFICATION FairSpec
INVARIANTS SuccessIsReceived SettledIsDispatched
PROPERTIES CloudPortRefined EveryConnectionSubscribes ConnectionReported PublishReturnsAlways
CHECK_DEADLOCK FALSE
