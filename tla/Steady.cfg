\* Steady readings bring the window back under the rules, torn ones included.
SPECIFICATION SettledSpec
CONSTANTS
    LightOn = 280
    LightOff = 320
    OpenTemp = 280
    CloseTemp = 270
    OpenHumidity = 700
    CloseHumidity = 650
    Word = 64
    NodeATimeout = 2
    NodeBTimeout = 2
    StatusInterval = 2
    HeartbeatInterval = 2
    DemoInterval = 2
    MaxInFlight = 5
    DemoReadings <- DemoSequence
    UartLines <- WindowLines
    Inputs <- NoInputs
    BInputs <- NoInputs
    MaxTime = 1
    Readings <- HumidOrWarm
    Settled <- Manual
    ConsoleMessages <- AutoButton
    MaxUart = 1
    MaxConsole = 1
    MaxReadings = 1
    Steady = TRUE
    LinksFail = FALSE
PROPERTIES PolicyRestored ViewCatchesUp
CHECK_DEADLOCK FALSE
