SPECIFICATION Spec
CONSTANTS
    plant = plant
    line = line
    north_plant = north_plant
    south_plant = south_plant
    Paths <- FourPaths
    Base <- FourBases
    Committed = Committed
INVARIANTS
    TypeOK
    Simultaneous
    NamedOnly
    OwnBase
