\* Rings of four slots, from which a thief takes two ids at once.
CONSTANTS
    NumWorkers = 2
    Gids = {g1,g2,g3,g4}
    Null = Null
    Capacity = 4
    IndexMod = 32
    Start = 30
    BatchCap = 3
    MaxYields = 0
SPECIFICATION LiveSpec
PROPERTIES ImplementsPool EventuallyRun
