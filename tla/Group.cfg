CONSTANTS
    None = None
    Corrupt = Corrupt
    top = top
    secrets = secrets
    key = key
    project = project
    tools = tools
    Path <- MCPath
    Parent <- MCParent
    Present = {top, secrets, project, tools}
    Settings <- MCSettings
    MaxRuns = 3
SPECIFICATION FairSpec
INVARIANTS Unreadable GroupInv
PROPERTY ReadsCome
