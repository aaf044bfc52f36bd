\* One player after the other, and restarts.
CONSTANTS
    Id = {i1, i2}
    Username = {ann, bob}
    Passphrase = {p1, p2}
    ActorId = {a1}
    Connection = {c1}
SPECIFICATION Spec
INVARIANT AccountsAsSaved
CHECK_DEADLOCK FALSE
