CONSTANTS
    Nobody = Nobody
    Others = Others
    Sessions = {a, b}
    Programs = {x}
    AutoOpen = {a, b}
    AutoCreate = {a}
    MaxCrashes = 2
    MaxFaults = 2
SPECIFICATION Spec
INVARIANTS IndexAtEnd
PROPERTIES ImplementsApp
CHECK_DEADLOCK FALSE
