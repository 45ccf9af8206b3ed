CONSTANTS
    Devices = {d1, d2}
    Invalid = {d2}
    Callers = {w1}
    Dynamic = TRUE
    MaxVersion = 2
    None = None
    ChannelSize = 2
    Silent = {}
SPECIFICATION FairSpec
INVARIANTS PassThroughTypeOK
PROPERTIES ConfigNeverGoesBack DirectoryRefined TelemetryInOrder SourceIsFollowed QueuedIsTaken
CHECK_DEADLOCK FALSE
