\* Two goroutines that sleep, wait for the same descriptor, which may be closed, and are
\* dropped; the runtime may be shut down and used again.
CONSTANTS
    f1 = f1
    Gids = {g1, g2}
    Threads = {t1}
    Fds = {f1}
    Fd <- SharedFd
    NoFd = NoFd
    Closable = {f1}
    Null = Null
    Deadlines = {1}
    Horizon = 1
    MaxWait = 2
    MayStop = TRUE
    MayRestart = TRUE
SPECIFICATION Spec
INVARIANTS NoSleepOnNews OnePlace NobodyForgotten Watched PendingCounts
CHECK_DEADLOCK FALSE
