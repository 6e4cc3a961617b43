\* A goroutine that borrows its channels, and handles dropped in the middle of a poll.
CONSTANTS
    Gids = {g1,g2}
    Detached = {}
    Borrowers = {g2}
    Chans = {c1, c2}
    c1 = c1
    c2 = c2
    Cap <- Mixed
    Owns = {c1}
    Handles = {v1, v2}
    Scalars = {s1}
    Null = Null
    NumWorkers = 2
    DropWhilePolled = TRUE
SPECIFICATION Spec
INVARIANTS OnePlace
CHECK_DEADLOCK FALSE
