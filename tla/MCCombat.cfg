SPECIFICATION Spec
CONSTANTS
    a = a
    b = b
    m = m
    Livings = {a, b, m}
    Players = {a, b}
    Talkers = {a, b}
    Timed = {m}
    Rooms = {r1, r2}
    Hospital = Hospital
    None = None
    MaxEnemies = 2
SYMMETRY Symm
INVARIANTS
    TypeOK
    TargetIsEnemy
PROPERTIES
    FoesAreAnswered
    IdleNeedsStop
    EnmityIsMutual
    BoutIsOver
