\* A removed Location and what the event log keeps of it.
CONSTANTS
    a1 = a1
    a2 = a2
    s1 = s1
    s2 = s2
    bag = bag
    Location = {l1, l2, l3}
    Exit = {x1, x2}
    Direction = {north, south}
    Actor = {a1}
    Item = {}
    Corpse = {k1}
    HandMax = 1
    WornMax = 1
    Capacity <- BagCapacity
    MaxHp = 1
    Elsewhere = Elsewhere
    Nil = Nil
    Session = {editor, s1}
    Editor = {editor}
    Reaper = {}
    Drives <- DriveA1
SPECIFICATION Spec
SYMMETRY Symmetric
INVARIANTS
    LogRebuildsZone
CHECK_DEADLOCK FALSE
