SPECIFICATION FairSpec
CONSTANTS
    Proc <- Procs
    Root = "root"
    Stream = {"out", "err"}
    MaxChunks = 1
    Requests <- AllCaptures
    None = None
    Wrap = 4
INVARIANT CaptureInv
PROPERTIES Returns ImplementsCommandRun
