\* The five request slots of node C, and the belief about node B.
SPECIFICATION SettledSpec
CONSTANTS
    LightOn = 280
    LightOff = 320
    OpenTemp = 280
    CloseTemp = 270
    OpenHumidity = 700
    CloseHumidity = 650
    Word = 64
    NodeATimeout = 2
    NodeBTimeout = 2
    StatusInterval = 2
    HeartbeatInterval = 2
    DemoInterval = 2
    MaxInFlight = 5
    DemoReadings <- DemoSequence
    UartLines <- LampLines
    Inputs <- NoInputs
    BInputs <- NoInputs
    MaxTime = 1
    Readings <- Contrast
    Settled <- LampOnOrOff
    ConsoleMessages <- LampButtons
    MaxUart = 0
    MaxConsole = 0
    MaxReadings = 3
    Steady = FALSE
    LinksFail = FALSE
INVARIANT AlwaysInLine
CHECK_DEADLOCK FALSE
