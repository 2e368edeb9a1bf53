CONSTANTS
    c1 = c1
    c2 = c2
    a = a
    b = b
    p1 = p1
    Client = {c1, c2}
    Process = {a, b}
    Ports = {p1}
    None = None
    Calls <- TwoCaptures
    MaxGen = 3
SPECIFICATION CredsFairSpec
INVARIANTS CredsInv OwnSettings
PROPERTY CallsEnd
