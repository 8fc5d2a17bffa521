SPECIFICATION TeamSpec
CONSTANTS
    Heroes = {p1, p2, p3, p4}
    Sites = {r1, r2}
    Inviters = {p1}
    Quitters = {p1}
    Terse = {p1}
    Nobody = Nobody
SYMMETRY Symm
INVARIANTS
    TeamTyped
    LedIsListed
PROPERTIES
    StaleByExpulsion
    NoUninvitedMember
