CONSTANTS
    a = a
    b = b
    c = c
    r1 = r1
    r2 = r2
    Sessions = {a, b, c}
    NoSession = NoSession
    Roots = {r1, r2}
    Others = Others
    RootOf <- MCRootOf
    AutoOpen = {a, b, c}
    AutoCreate = {a, c}
    MaxFaults = 2
SPECIFICATION Spec
INVARIANTS StdoutOffWithUi
CHECK_DEADLOCK FALSE
