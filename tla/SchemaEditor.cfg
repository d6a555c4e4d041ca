CONSTANTS
    Names = {a, b}
    LastType = 1
    Integer = 1
    LastSize = 1
    FitCount = 1
    MaxColumns = 2
    MaxRows = 2
SPECIFICATION Spec
INVARIANTS TypeOK SizesAgree ColumnsKept ModifiedExact
PROPERTIES ErasesAllSelected InsertKeepsRows
