CONSTANTS
    Procs = {p1, p2}
    NoProc = NoProc
    Objects = {o1}
    Props = {data}
    CreateArgs = {TRUE}
    MaxCrashes = 0
    MaxFaults = 0
SPECIFICATION Spec
PROPERTIES FreshOnlyIfNew
