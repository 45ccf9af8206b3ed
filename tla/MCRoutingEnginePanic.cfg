CONSTANTS
    status = status
    turnOn = turnOn
    turnOff = turnOff
    reboot = reboot
    projector = projector
    NoCommand = NoCommand
    Workers = {w1}
    Commands = {turnOn, turnOff}
    Devices = {projector}
    DeviceOf <- MCDeviceOf
    NameOf <- MCNameOf
    ProtocolOf <- MCProtocolOf
    QueueSize = 1
    MaxAttempts = 1
SPECIFICATION Spec
INVARIANT DispatchSurvivesShutdown
CHECK_DEADLOCK FALSE
