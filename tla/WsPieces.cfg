\* A frame is read with a buffer of 1024 bytes.
SPECIFICATION Spec
CONSTANTS
    Chunk = 1024
    Lengths <- EdgeLengths
    FileSizes <- EdgeFiles
    Pieces <- Buffer1023
    Shorts <- ShortReads
    MaxShorts = 0
    MaxPieces = 3
    MaxMsgs = 1
CHECK_DEADLOCK FALSE
INVARIANTS
    MessagesWhole
