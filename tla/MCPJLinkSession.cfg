CONSTANTS
    MaxFrame = 3
    Hours <- MCHours
    Lamps <- MCLamps
SPECIFICATION ChainSpec
INVARIANTS TypeOK ResponseIsAFrame TelemetryIsWhatWasSaid
PROPERTIES ExchangeRefined SendEnds
CHECK_DEADLOCK FALSE
