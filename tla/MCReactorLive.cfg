\* One goroutine that sleeps, waits for its descriptor and is dropped at any time, and a
\* shutdown at any time, under fairness.
CONSTANTS
    f1 = f1
    Gids = {g1}
    Threads = {t1}
    Fds = {f1}
    Fd <- SharedFd
    NoFd = NoFd
    Closable = {}
    Null = Null
    Deadlines = {2}
    Horizon = 2
    MaxWait = 1
    MayStop = TRUE
    MayRestart = FALSE
SPECIFICATION LiveSpec
PROPERTIES TimersFire ReadinessWakes ReactorStops
CHECK_DEADLOCK FALSE
