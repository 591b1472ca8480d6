CONSTANTS
    MsgIovMax = 2
    MaxLines = 5
    Programs <- AllPrograms
    MaxWords = 3
    MaxCommands = 2
    ChunkBytes = 8
    MaxField = 5
    MaxPieces = 4
    MaxText = 5
    RouteTable <- SavedRoutes
    MaxRoutes = 4
    MaxLine = 6
    Loaders = {1, 2}
    Objects <- BpfObjects
SPECIFICATION SequenceSpec
INVARIANTS
    BatchSizeMatches EverythingSent 
    SsFieldsKept  BpfTablesFilled RestoreInOrder 
     
PROPERTIES Ends
CHECK_DEADLOCK FALSE
