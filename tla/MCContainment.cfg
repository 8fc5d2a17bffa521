SPECIFICATION Spec
CONSTANTS
    room = room
    hero = hero
    troll = troll
    bag = bag
    chest = chest
    torch = torch
    stone = stone
    Grain = 4
    Things <- MCThings
    Containers <- MCContainers
    Rooms = {room}
    Livings = {hero, troll}
    Boxes = {bag, chest}
    Shining = {hero, troll}
    Rigid = {chest}
    Lamps = {torch}
    Forced = {chest}
    NoDrop = {chest}
    NoInsert = {}
    NoGet = {hero, troll}
    NoGive = {stone}
    NoEntry = {}
    NoExit = {}
    Weight <- Size
    Volume <- Size
    MaxWeight <- Heaviest
    MaxVolume <- Largest
    Reduce <- MCReduce
    Bright = 2
    Void = Void
    Gone = Gone
SYMMETRY Symm
INVARIANTS
    TypeOK
    LoadIsTrue
    LightIsTrue
    WithinLimits
CHECK_DEADLOCK FALSE
