\* Actors, Objects, death and decay, in two Locations without Exits.
CONSTANTS
    a1 = a1
    a2 = a2
    s1 = s1
    s2 = s2
    bag = bag
    Location = {l1, l2}
    Exit = {}
    Direction = {}
    Actor = {a1, a2}
    Item = {bag, sword}
    Corpse = {k1}
    HandMax = 1
    WornMax = 1
    Capacity <- BagCapacity
    MaxHp = 2
    Elsewhere = Elsewhere
    Nil = Nil
    Session = {editor, reaper}
    Editor = {editor}
    Reaper = {reaper}
    Drives <- NoDrivers
SPECIFICATION Spec
SYMMETRY SymmetricActors
INVARIANTS
    SingleListing
    NothingLeftBehind
    CarryingLimit
    AliveHaveHp
    RestartKeepsPopulation
    RestartMisplacesNobody
PROPERTIES
    DeathLeavesLoot
    NothingFallsOut
CHECK_DEADLOCK FALSE
