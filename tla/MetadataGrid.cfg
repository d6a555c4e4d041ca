CONSTANTS
    one = one
    near = near
    digits = digits
    signs = signs
    object = object
    gone = gone
    path = path
    lost = lost
    Names = {}
    Words = {}
    Numerals = {digits, signs}
    Paths = {path, lost}
    Numbers = {one, near}
    Ids = {object, gone, NullId}
    NullId = NullId
    Printed <- MCPrinted
    ReadFrom <- MCReadFrom
    PathTo <- MCPathTo
    FindPath <- MCFindPath
    Fits = {1, 2}
    MaxFields = 3
    MaxValued = 1
SPECIFICATION MGSpec
INVARIANTS MGTypeOK GridMirrorsFields CursorShown
PROPERTIES RemovesSelected AcceptKeepsCell
