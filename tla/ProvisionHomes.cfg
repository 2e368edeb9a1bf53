SPECIFICATION FairSpec
CONSTANTS
    Helper = {p1, p2}
    Home = {"h1", "h2"}
    Port = {1, 2}
    Payload <- TwoHomes
    SerialHomes = {"h1"}
    MaxRuns = 2
    MaxCleanups = 1
    Free = Free
    Cleaner = Cleaner
    Nobody = Nobody
    NoMarker = NoMarker
    EmptyMarker = EmptyMarker
INVARIANTS UsableMeansEnforced PasswordsTogether UnfinishedNotReady
PROPERTIES RepairedBeforeLogon RunEnds
CHECK_DEADLOCK FALSE
