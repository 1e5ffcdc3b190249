\* Node C alone: operator, callbacks and time-outs interleaved.
SPECIFICATION Spec
CONSTANTS
    LightOn = 280
    LightOff = 320
    OpenTemp = 280
    CloseTemp = 270
    OpenHumidity = 700
    CloseHumidity = 650
    Word = 64
    NodeATimeout = 0
    NodeBTimeout = 0
    StatusInterval = 1
    HeartbeatInterval = 2
    DemoInterval = 1
    MaxInFlight = 1
    DemoReadings <- DemoSequence
    UartLines <- FewLines
    Inputs <- BusyInputs
    MaxTime = 2
INVARIANTS TypeOK TimersBehindPass
PROPERTY SilenceFlagged
CHECK_DEADLOCK FALSE
