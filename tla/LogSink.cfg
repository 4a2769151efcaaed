\* A ring and a queue the writer can fall behind of, one rename and a removal.
SPECIFICATION SinkSpec
CONSTANTS
    Capacity = 2
    QueueBytes = 2
    SubscriberChunks = 2
    MaxChunk = 2
    MaxWritten = 5
    MaxMoves = 1
    Subs = {s1, s2}
INVARIANTS AllKeptOrSaid
PROPERTIES KeepsTranscript DeletedStaysDeleted CloseFinishes
CHECK_DEADLOCK FALSE
