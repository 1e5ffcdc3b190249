\* Node B with the pulses of the code: 500 to 1560 us in steps of 40 us.
SPECIFICATION BoardSpec
CONSTANTS
    LightOn = 280
    LightOff = 320
    OpenTemp = 280
    CloseTemp = 270
    OpenHumidity = 700
    CloseHumidity = 650
    Word = 64
    HeartbeatInterval = 2
    MaxInFlight = 4
    MaxTime = 2
    BInputs <- Commands
    N = 2
    ClosedUs <- ClosedPulses
    OpenUs <- OpenPulses
    StepUs = 40
    MaxPulse = 65535
INVARIANTS TypeOK MotionTypeOK StatusOfPlace InTravel NoFinalJump
PROPERTIES ActsAtOnce SmoothMotion StatusAfterArrival CallReturns
CHECK_DEADLOCK FALSE
