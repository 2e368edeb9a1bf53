SPECIFICATION FairSpec
CONSTANTS
    None = None
    s1 = s1
    s2 = s2
    Handles <- Table
    Sessions <- Two
    Settings <- OneOrTwo
INVARIANTS PeersAreRunner  FailuresOwn
PROPERTY ConnectsEnd
