\* A log of two bytes, an index in seconds of two ticks and marked every two seconds, one fault or restart.
SPECIFICATION Spec
CONSTANTS
    MaxSize = 2
    Second = 2
    MarkEvery = 4
    Attempts = 2
    MaxChunk = 2
    MaxBytes = 4
    MaxTime = 6
    MaxFaults = 1
INVARIANTS AnswerComplete SinceAccurate
PROPERTY PastLimitSaid
CHECK_DEADLOCK FALSE
