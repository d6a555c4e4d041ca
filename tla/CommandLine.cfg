CONSTANTS
    Grids = {g1, g2}
    Widths = {2, 3, 4, 7}
    MaxLength = 8
SPECIFICATION Spec
INVARIANTS TypeOK OneTakesKeys PromptModal LocationOfFocus CaretAtCursor
