CONSTANTS
    Devices = {d1}
    Invalid = {}
    Callers = {}
    Dynamic = TRUE
    MaxVersion = 2
    None = None
    ChannelSize = 1
    Silent = {}
SPECIFICATION FairSpec
PROPERTIES InitTimeoutEndsNoPolling
CHECK_DEADLOCK FALSE
