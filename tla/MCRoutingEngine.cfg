CONSTANTS
    status = status
    turnOn = turnOn
    turnOff = turnOff
    reboot = reboot
    projector = projector
    NoCommand = NoCommand
    Workers = {w1, w2}
    Commands = {status, turnOn}
    Devices = {projector}
    DeviceOf <- MCDeviceOf
    NameOf <- MCNameOf
    ProtocolOf <- MCProtocolOf
    QueueSize = 1
    MaxAttempts = 2
SPECIFICATION Spec
INVARIANTS TypeOK OnePlace RetryBound NoPhantomTelemetry LatencyCountsOutcomes
PROPERTIES QuietAfterStop NoResurrection CommandServiceRefined
SYMMETRY WorkerSymmetry
CHECK_DEADLOCK FALSE
