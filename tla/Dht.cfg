\* Frames of five two-bit bytes, one pulse of any reading out of tolerance.
SPECIFICATION Spec
CONSTANTS
    ByteBits = 2
    Climates <- SomeClimates
    Answer <- AnswerWidths
    Low <- LowWidths
    High <- HighWidths
    Faulty <- FaultyWidths
    MaxFaults = 1
    Late = 1
INVARIANTS TypeOK BlackoutBounded
PROPERTIES ReadsGenuine ReadsReturn
