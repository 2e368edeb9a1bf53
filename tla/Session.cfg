CONSTANTS
    Stream <- Streams
    MaxChunks = 2
    PipeRoom = 1
    HasTimeout = TRUE
    Crashes = TRUE
SPECIFICATION FairSpec
INVARIANT SessionInv
PROPERTIES ImplementsCommandRun DescendantsSurvive EarlyEndsEnd
CHECK_DEADLOCK FALSE
