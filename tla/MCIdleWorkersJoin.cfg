\* One worker and main, which joins a goroutine; the pool is stopped at any time.
CONSTANTS
    w1 = w1
    w2 = w2
    Order <- OneWorker
    Gids = {g1, g2}
    Outside = {o1}
    Joiners = {main}
    Target = g1
    Null = Null
    Spins = 1
    GlobalCheck = 2
    Initial = 1
    Interval = 4
    Unit = 4
    Word = 20
    Yields = 1
    MayStop = TRUE
SPECIFICATION LiveSpec
PROPERTIES JoinReturns WorkersStop
