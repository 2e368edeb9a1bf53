CONSTANTS
    s1 = s1
    s2 = s2
    shared = shared
    own = own
    p1 = p1
    p2 = p2
    p3 = p3
    Session = {s1, s2}
    Root = {shared, own}
    RootsOf <- Overlapping
    MaxSid = 4
    Processes = {p1, p2, p3}
    None = None
    Settings <- AllSettings
    MaxUpdates = 2
    MaxDeaths = 1
    Homes <- SidsOrCopies
SPECIFICATION FairSpec
INVARIANTS TokenExact CopySound
PROPERTY Launches
