\* Two projects, which are alike, and a list of two.
SPECIFICATION Spec
CONSTANTS
    Path = {p1, p2}
    Stripped <- MCStripped
    MaxRecent = 2
    AnyTime = FALSE
SYMMETRY Alike
INVARIANTS
    TypeOK
    FileIsConfig
    ApiIsConfig
PROPERTIES
    ListedOnce
    ButtonsStay
    NoStaleQuestion
    OpenStaysListed
