\* Inputs stop, so traffic stops.
SPECIFICATION SettledSpec
CONSTANTS
    LightOn = 280
    LightOff = 320
    OpenTemp = 280
    CloseTemp = 270
    OpenHumidity = 700
    CloseHumidity = 650
    Word = 64
    NodeATimeout = 2
    NodeBTimeout = 2
    StatusInterval = 3
    HeartbeatInterval = 3
    DemoInterval = 2
    MaxInFlight = 5
    DemoReadings <- DemoSequence
    UartLines <- ManualLines
    Inputs <- NoInputs
    BInputs <- NoInputs
    MaxTime = 2
    Readings <- OnlyDark
    Settled <- LampOnOrOff
    ConsoleMessages <- OffButton
    MaxUart = 1
    MaxConsole = 0
    MaxReadings = 1
    Steady = FALSE
    LinksFail = FALSE
PROPERTY EventuallyQuiet
CHECK_DEADLOCK FALSE
