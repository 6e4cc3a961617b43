\* Three goroutines on one channel with one place, its elements owned handles.
CONSTANTS
    Gids = {g1, g2, g3}
    Detached = {g3}
    Borrowers = {}
    Chans = {c1}
    c1 = c1
    c2 = c2
    Cap <- OneSlot
    Owns = {c1}
    Handles = {v1, v2}
    Scalars = {}
    Null = Null
    NumWorkers = 2
    DropWhilePolled = FALSE
SPECIFICATION Spec
INVARIANTS NoMissedPartner WaitersKeepChannel NoneStranded OneOwner
PROPERTY ImplementsFifo
CHECK_DEADLOCK FALSE
