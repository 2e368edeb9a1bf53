\* Invocations, the configuration they read, and the roots a setup refresh grants.
SPECIFICATION ElevatedSpec
CONSTANTS
    None = None
    Bad = Bad
    NoRefresh = NoRefresh
    main = main
    work = work
    host = host
    Cwd <- Repo
    Sub <- RepoSrc
    Temp <- TempDir
    Usages <- AllUsages
    Habits <- AllHabits
    UserProfile <- Me
    Children <- Names
    Excluded <- Ssh
    HelperRoot <- HelperDir
    Platform <- WindowsDir
    Sensitive <- Control
    CodexHome <- CodexDir
    Existing <- Disk
    Drives <- Drive
    SshFiles <- ConfigFiles
    Main = main
    PathOf <- Places
    MaxDepth = 4
    Instances <- Each
INVARIANTS EntriesEnforced BackendAsConfigured GrantsExact
PROPERTY ConfigKept
