\* What a command may write: two sessions at once, and one after the other.
CONSTANTS
    s1 = s1
    s2 = s2
    w = w
    git = git
    codex = codex
    x = x
    xgit = xgit
    other = other
    profile = profile
    docs = docs
    ssh = ssh
    home = home
    bin = bin
    log = log
    None = None
    Session = {s1, s2}
    Path <- Paths
    Parent <- Parents
    Protected = {git,codex,xgit}
    Codex = {codex}
    Profile = profile
    Excluded = {ssh}
    Home = home
    Control = {bin}
    Setting <- Settings
SYMMETRY Symmetry
SPECIFICATION Spec
INVARIANTS TypeOK Confined ProtectedKept
PROPERTY RootsUsable
CHECK_DEADLOCK FALSE
