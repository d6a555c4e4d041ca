CONSTANTS
    Widgets = {u, v, w}
    Titles = {t}
SPECIFICATION Spec
INVARIANTS TypeOK
PROPERTIES PlacesFollow
