CONSTANTS
    Procs = {p1, p2}
    NoProc = NoProc
    Objects = {o1}
    Props = {data}
    CreateArgs = {TRUE, FALSE}
    MaxCrashes = 2
    MaxFaults = 2
SPECIFICATION Spec
INVARIANTS TypeOK PropPointerLive InitializedHasFile
INVARIANTS OpenHoldsLock NoObjectLost NoTornRead
PROPERTIES LockGivenBack ImplementsObjectStore
