\* A wolf and an elf in two Zones with a sword: the wolf's brain, its memory,
\* the session it plays through, and the ends both may come to.
CONSTANTS
    wolf = wolf
    elf = elf
    yard = yard
    lane = lane
    inn = inn
    town = town
    wood = wood
    east = east
    west = west
    sword = sword
    north = north
    south = south
    Nowhere = Nowhere
    Me = wolf
    Other = {elf}
    Place = {inn, yard, lane}
    Thing = {sword}
    Land <- TownAndWood
    Exit <- InnYardLane
    Home <- EitherHome
    Lies <- EitherLies
    Crowd = 1
    Health = 2
    Bite = 1
    Keen <- Blunt
    Expansions = 5
    QueueLen = 2
    WireLen = 2
    MostEars = 2
    Strolls = 2
    Trial <- FromNode1
    Guess = {0, 2, 3}
SPECIFICATION Spec
INVARIANTS
    TypeOK
    DijkstraIsShortest
    AStarIsShortest
    AnsweredOnce
PROPERTIES
    DiesDetached
    QuestionAnswered
    FindsItself
CHECK_DEADLOCK FALSE
