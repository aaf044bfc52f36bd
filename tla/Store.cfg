\* Two Zones, a coin in a bag in a room, one transaction: five commands,
\* snapshots, transactions and crashes in any order.
CONSTANTS
    room = room
    bag = bag
    coin = coin
    Zone = {z1, z2}
    Location = {room}
    Item = {room, bag, coin}
    Container <- InTheBag
    MaxUint = 9
    Transaction = {t1}
    Budget = 5
SYMMETRY Symmetry
SPECIFICATION Spec
INVARIANTS
    TypeOK
    RestartRebuilds
    OneInstant
PROPERTIES
    IntentsKept
CHECK_DEADLOCK FALSE
