\* Two Zones, one traveller with a bag: every interleaving of its migrations,
\* the persisting of their events, its death and crashes.
CONSTANTS
    a1 = a1
    a2 = a2
    l1 = l1
    l2 = l2
    z1 = z1
    z2 = z2
    bag = bag
    coin = coin
    Location = {l1, l2}
    Exit = {}
    Direction = {}
    Actor = {a1}
    Item = {bag, coin}
    Corpse = {k1}
    HandMax = 2
    WornMax = 1
    Capacity <- BagOfOne
    MaxHp = 1
    Elsewhere = Elsewhere
    Nil = Nil
    ZoneId = {z1, z2}
    Land <- OneEach
    Home <- TogetherAtFirst
    Lies <- AllInFirst
    Gives <- NoGifts
SPECIFICATION Spec
INVARIANTS
    TypeOK
    NobodyLost
    NothingLost
    OneZone
PROPERTIES
    MigrationAnswered
    HandsOver
CHECK_DEADLOCK FALSE
