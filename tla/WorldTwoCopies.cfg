\* The same World: after a crash and a restart, is every Actor in one Zone?
CONSTANTS
    a1 = a1
    a2 = a2
    l1 = l1
    l2 = l2
    z1 = z1
    z2 = z2
    bag = bag
    coin = coin
    Location = {l1, l2}
    Exit = {}
    Direction = {}
    Actor = {a1}
    Item = {bag, coin}
    Corpse = {k1}
    HandMax = 2
    WornMax = 1
    Capacity <- BagOfOne
    MaxHp = 1
    Elsewhere = Elsewhere
    Nil = Nil
    ZoneId = {z1, z2}
    Land <- OneEach
    Home <- TogetherAtFirst
    Lies <- AllInFirst
    Gives <- NoGifts
SPECIFICATION Spec
INVARIANT ConsistentAfterRestart
CHECK_DEADLOCK FALSE
