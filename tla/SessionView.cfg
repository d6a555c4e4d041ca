CONSTANTS
    Objects = {a, b, c}
    Slugs = {s, t}
SPECIFICATION Spec
INVARIANTS TypeOK ViewsConsistent TitlesFollowSlugs FocusDisplayed
