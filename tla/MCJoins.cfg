\* A goroutine with a handle and a detached one that may join it; both may await a job.
CONSTANTS
    Gids = {g1, g2}
    Detached = {g2}
    Targets <- Joined
    Workers = {w1, w2}
    Pool = {p1}
    Main = Main
    Null = Null
    MaxDepth = 2
    MaxThrows = 1
SPECIFICATION LiveSpec
INVARIANTS NoneForgotten ExceptionHome MessageOwned ResultKept
PROPERTIES ShutdownEnds
CHECK_DEADLOCK FALSE
