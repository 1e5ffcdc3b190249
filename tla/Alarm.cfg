\* Is a silence that was reported a silence?
SPECIFICATION Spec
CONSTANTS
    LightOn = 280
    LightOff = 320
    OpenTemp = 280
    CloseTemp = 270
    OpenHumidity = 700
    CloseHumidity = 650
    Word = 64
    NodeATimeout = 2
    NodeBTimeout = 2
    StatusInterval = 1
    HeartbeatInterval = 2
    DemoInterval = 1
    MaxInFlight = 1
    DemoReadings <- DemoSequence
    UartLines <- NoLines
    Inputs <- WatchdogInputs
    MaxTime = 5
INVARIANT AlarmGenuine
CHECK_DEADLOCK FALSE
