\* Node A alone, with the ratios of the code's intervals.
SPECIFICATION Spec
CONSTANTS
    LightOn = 280
    LightOff = 320
    OpenTemp = 280
    CloseTemp = 270
    OpenHumidity = 700
    CloseHumidity = 650
    Climates <- OneClimate
    Failed <- NoClimate
    MaxInFlight = 2
    HeartbeatInterval = 4
    SensorInterval = 4
    Word = 8
    MaxPass = 1
    RawLight <- Bright
    Limit <- Waits
INVARIANTS TypeOK SilenceMeansFailures
PROPERTY KeepsMeasuring
CHECK_DEADLOCK FALSE
