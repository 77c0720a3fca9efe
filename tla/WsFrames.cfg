\* Two messages of any kind and length, and their answers.
SPECIFICATION Spec
CONSTANTS
    Chunk = 1024
    Lengths <- EdgeLengths
    FileSizes <- EdgeFiles
    Pieces <- WholeKeys
    Shorts <- ShortReads
    MaxShorts = 1
    MaxPieces = 3
    MaxMsgs = 2
CHECK_DEADLOCK FALSE
INVARIANTS
    InSync
    MaskByRole
    MessagesWhole
PROPERTIES
    PingAnswered
