\* Chunks of two bytes, a header of one line and its end.
SPECIFICATION FairSpec
CONSTANTS
    Buff = 2
    Newlines <- LineEndAt3
    ReadLens = {3, 5}
    SendLens = {1, 3}
    HeaderLines = 1
    MaxBytes = 7
INVARIANTS
    ReadInOrder
    StreamIntact
    HoleNeedsTimeout
    CloseFlushes
PROPERTIES
    StopsWithCause
    CallReturns
