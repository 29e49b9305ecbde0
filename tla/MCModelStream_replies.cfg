SPECIFICATION ReplySpec
CONSTANTS
    Nothing = Nothing
    MaxChunks = 4
    MaxUnread = 1
    MaxPieces = 3
    MaxIterations = 2
INVARIANT RepliesAreTrue
PROPERTY StreamsEnd
CHECK_DEADLOCK FALSE
