\* One session, another who speaks, two Zones, channels with one place: three
\* commands and mishaps in any order, before the session attached or when its channels are full.
CONSTANTS
    town = town
    wood = wood
    Zone = {town, wood}
    Home = town
    Walker = {walker}
    RequestCap = 1
    SendQueueLen = 1
    Budget = 3
SPECIFICATION Spec
INVARIANTS
    TypeOK
    StoppedUnobserved
PROPERTIES
    ZoneServes
    Answered
    Closes
CHECK_DEADLOCK FALSE
