\* Lamp control by node C, the operator and the console; nothing is lost.
SPECIFICATION SettledSpec
CONSTANTS
    LightOn = 280
    LightOff = 320
    OpenTemp = 280
    CloseTemp = 270
    OpenHumidity = 700
    CloseHumidity = 650
    Word = 64
    NodeATimeout = 2
    NodeBTimeout = 2
    StatusInterval = 2
    HeartbeatInterval = 2
    DemoInterval = 2
    MaxInFlight = 12
    DemoReadings <- DemoSequence
    UartLines <- LampLines
    Inputs <- NoInputs
    BInputs <- NoInputs
    MaxTime = 1
    Readings <- LampReadings
    Settled <- LampOnOrOff
    ConsoleMessages <- LampButtons
    MaxUart = 1
    MaxConsole = 1
    MaxReadings = 1
    Steady = FALSE
    LinksFail = FALSE
INVARIANTS InSync ModeSettles
CHECK_DEADLOCK FALSE
