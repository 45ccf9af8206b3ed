CONSTANTS
    status = status
    turnOn = turnOn
    turnOff = turnOff
    reboot = reboot
    projector = projector
    NoCommand = NoCommand
    Workers = {w1}
    Commands = {turnOn, turnOff, reboot}
    Devices = {projector}
    DeviceOf <- MCDeviceOf
    NameOf <- MCNameOf
    ProtocolOf <- MCProtocolOf
    QueueSize = 1
    MaxAttempts = 2
SPECIFICATION FairSpec
PROPERTIES QueuedIsSettled ShutdownCompletes
CHECK_DEADLOCK FALSE
