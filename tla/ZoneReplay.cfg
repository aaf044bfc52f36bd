\* A gift to full hands and what the event log keeps of it.
CONSTANTS
    a1 = a1
    a2 = a2
    s1 = s1
    s2 = s2
    bag = bag
    Location = {l1, l2}
    Exit = {}
    Direction = {}
    Actor = {a1, a2}
    Item = {bag, sword, gem}
    Corpse = {k1}
    HandMax = 1
    WornMax = 1
    Capacity <- BagCapacity
    MaxHp = 2
    Elsewhere = Elsewhere
    Nil = Nil
    Session = {editor, reaper}
    Editor = {editor}
    Reaper = {reaper}
    Drives <- NoDrivers
SPECIFICATION Spec
SYMMETRY SymmetricActors
INVARIANTS
    LogReplays
CHECK_DEADLOCK FALSE
