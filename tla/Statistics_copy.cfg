\* Reads that fail, a service that restarts, a client that comes back.
SPECIFICATION Spec
CONSTANTS
    Memory <- Kilobytes
    Priority <- DefaultOrRealTime
    Threshold = 2
    Far = Far
    Tiny = Tiny
    MaxRead = 3
    MaxSamples = 3
    MaxStarts = 2
    MaxSent = 3
CHECK_DEADLOCK FALSE
INVARIANTS
    TypeOK
    ExtremesOfAllSamples
    ReadsCountedOnce
    DriftBounded
