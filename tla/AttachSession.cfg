\* One client; a ring of 3 bytes that 4 bytes wrap, a queue of 3 bytes and 2 chunks.
SPECIFICATION Spec
CONSTANTS
    Capacity = 3
    QueueBytes = 3
    SubscriberChunks = 2
    MaxChunk = 3
    MaxWritten = 4
    Subs = {v1}
    Names = {a, b}
    Newlines <- MCNewlines
INVARIANTS NoGap CompleteOrTold
PROPERTIES RenameTold SessionEnds
CHECK_DEADLOCK FALSE
