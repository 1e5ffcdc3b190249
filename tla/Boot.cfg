\* Boot, connection, loss of a connection, with the five slots of the code.
SPECIFICATION HouseSpec
CONSTANTS
    LightOn = 280
    LightOff = 320
    OpenTemp = 280
    CloseTemp = 270
    OpenHumidity = 700
    CloseHumidity = 650
    Word = 64
    NodeATimeout = 2
    NodeBTimeout = 2
    StatusInterval = 2
    HeartbeatInterval = 1
    DemoInterval = 2
    MaxInFlight = 5
    DemoReadings <- DemoSequence
    UartLines <- ManualLines
    Inputs <- NoInputs
    BInputs <- NoInputs
    MaxTime = 1
    Readings <- OnlyGloomy
    Settled <- LampOnOrOff
    ConsoleMessages <- OffButton
    MaxUart = 0
    MaxConsole = 0
    MaxReadings = 1
    Steady = FALSE
    LinksFail = TRUE
INVARIANTS HouseTypeOK InSync
CHECK_DEADLOCK FALSE
