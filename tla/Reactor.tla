------------------------------- MODULE Reactor -------------------------------
(***************************************************************************)
(* Timers and descriptor readiness: ntask/reactor.rs, with the timer and   *)
(* descriptor arms of scheduler.rs's drive, core.rs's timers and io cores, *)
(* and the accept and recv_line futures of modules/net.rs that use them.   *)
(*                                                                         *)
(* One reactor thread sleeps in poll(2).  Worker threads change what it    *)
(* should wait for and then write a byte to its wake pipe.  They do this   *)
(* in separate steps (interest table, INTERESTS_DIRTY, pipe), and the      *)
(* reactor looks at timers, flag and table in separate steps too.          *)
(*                                                                         *)
(* A future has at most one io core, so a core is named by its goroutine   *)
(* and Fd gives the descriptor attached to it; the read/write direction is *)
(* left out.  The pipe is a flag: a drain empties it.  A goroutine that    *)
(* has finished or was dropped leaves `table`; joining is not modelled.    *)
(***************************************************************************)
EXTENDS Integers, FiniteSets

CONSTANTS Gids,        \* goroutines, and the io core of each one's future
          Threads,     \* threads that poll goroutines or drop their handles
          Fds, Fd,     \* descriptors, and the one attached to each core
          NoFd,        \* attach_fd's "fd <= 0": no descriptor
          Closable,    \* descriptors that may be closed while they are watched
          Null,        \* no goroutine
          Deadlines,   \* timer deadlines
          Horizon,     \* bound of the clock, after all deadlines
          MaxWait,     \* i32::MAX, the longest poll timeout
          MayStop, MayRestart  \* is shutdown, and work after shutdown, considered?

ASSUME ReactorAssumption ==
    /\ Fd \in [Gids -> Fds \cup {NoFd}] /\ NoFd \notin Fds
    /\ Closable \subseteq Fds /\ Null \notin Gids
    /\ Horizon \in Nat /\ Deadlines \subseteq 0..Horizon /\ MaxWait \in Nat \ {0}
    /\ MayStop \in BOOLEAN /\ MayRestart \in BOOLEAN

VARIABLES
    now,        \* core::now_ms
    phase,      \* how far ntsc_runtime_shutdown has come
    fresh,      \* goroutines not spawned yet
    table,      \* Global::goroutines
    runnable,   \* goroutines in a run queue
    timers,     \* Global::timers, as pairs of deadline and goroutine
    pending,    \* TIMER_PENDING
    core,       \* Global::ios: is the core of a future registered?
    waiters,    \* goroutines in AsyncIo::waiters of their core
    ready,      \* cores with AsyncIo::ready
    interests,  \* FD_INTERESTS
    dirty,      \* INTERESTS_DIRTY
    wake,       \* does the wake pipe hold a byte?
    stop,       \* the reactor's SHUTDOWN
    started,    \* REACTOR_STARTED
    th,         \* what each thread is doing
    rpc,        \* what the reactor thread does next
    seen,       \* the time fire_timers_and_next read
    due,        \* goroutines it still has to make runnable
    wait,       \* the timeout it returned; -1 to wait for ever
    left,       \* time left before poll times out; -1 for ever
    pollset,    \* cores in the pollfd array
    nval,       \* those whose descriptor was closed when poll was called
    hits,       \* cores poll reported as ready
    open,       \* open descriptors
    readable    \* descriptors with something to read

taskVars == <<fresh, table, runnable>>
timerVars == <<timers, pending>>
ioVars == <<core, waiters, ready>>
wakeVars == <<interests, dirty, wake>>
lifeVars == <<phase, stop, started>>
scanVars == <<seen, due, wait>>
pollVars == <<left, pollset, nval, hits>>
fdVars == <<open, readable>>
vars == <<now, taskVars, timerVars, ioVars, wakeVars, lifeVars, th,
          rpc, scanVars, pollVars, fdVars>>

Never == -1

\* A thread that polls goroutine g, or (g = Null) runs an errand after a park
\* or a drop, at step `at` of a change to core io; with `drop`, the core goes.
Thread(at, g, io, drop) == [at |-> at, g |-> g, io |-> io, drop |-> drop]
Free == Thread("free", Null, Null, FALSE)
Steps == {"free", "poll", "flush", "attach", "register", "dirty", "wake",
          "detach", "dropio"}
At(t, at) == Thread(at, th[t].g, th[t].io, th[t].drop)
Goto(t, at) == th' = [th EXCEPT ![t] = At(t, at)]

\* Where a thread continues when a change of the interests is complete.
Return(t) == IF th[t].drop THEN At(t, "dropio")
             ELSE IF th[t].g = Null THEN Free
             ELSE Thread("poll", th[t].g, th[t].io, FALSE)

\* A changed interest table is announced with INTERESTS_DIRTY and a wake byte.
\* Mutant: without INTERESTS_DIRTY.
AnnounceQuietly(t) == Goto(t, "wake")
Announce(t) == Goto(t, "dirty")

Polled == {th[t].g : t \in Threads} \ {Null}

Init ==
    /\ now = 0 /\ phase = "up" /\ fresh = Gids /\ table = {} /\ runnable = {}
    /\ timers = {} /\ pending = 0
    /\ core = [g \in Gids |-> "none"] /\ waiters = {} /\ ready = {}
    /\ interests = {} /\ dirty = TRUE /\ wake = FALSE /\ stop = FALSE /\ started = FALSE
    /\ th = [t \in Threads |-> Free]
    /\ rpc = "off" /\ seen = 0 /\ due = {} /\ wait = Never
    /\ left = Never /\ pollset = {} /\ nval = {} /\ hits = {}
    /\ open = Fds /\ readable = {}

-----------------------------------------------------------------------------
(* The world: time passes, bytes and connections arrive, sockets close.     *)

\* At Horizon all deadlines have passed and the clock stands still, but a
\* timeout still runs.
Tick ==
    /\ now < Horizon \/ left > 0
    /\ now' = IF now < Horizon THEN now + 1 ELSE now
    /\ left' = IF left > 0 THEN left - 1 ELSE left
    /\ UNCHANGED <<taskVars, timerVars, ioVars, wakeVars, lifeVars, th, rpc,
                   scanVars, pollset, nval, hits, fdVars>>

Arrive(f) ==
    /\ f \in open \ readable /\ readable' = readable \cup {f}
    /\ UNCHANGED <<now, taskVars, timerVars, ioVars, wakeVars, lifeVars, th, rpc,
                   scanVars, pollVars, open>>

Close(f) ==
    /\ f \in open \cap Closable
    /\ open' = open \ {f} /\ readable' = readable \ {f}
    /\ UNCHANGED <<now, taskVars, timerVars, ioVars, wakeVars, lifeVars, th, rpc,
                   scanVars, pollVars>>

-----------------------------------------------------------------------------
(* Goroutines.                                                              *)

\* ntask_go: register the goroutine and make it runnable.
Spawn(g) ==
    /\ phase = "up" /\ g \in fresh
    /\ fresh' = fresh \ {g} /\ table' = table \cup {g} /\ runnable' = runnable \cup {g}
    /\ UNCHANGED <<now, timerVars, ioVars, wakeVars, lifeVars, th, rpc,
                   scanVars, pollVars, fdVars>>

\* A worker takes a goroutine; drive returns at once when it has been dropped.
Take(t, g) ==
    /\ phase \in {"up", "stopping"} /\ th[t].at = "free" /\ g \in runnable
    /\ runnable' = runnable \ {g}
    /\ IF g \in table THEN th' = [th EXCEPT ![t] = Thread("poll", g, g, FALSE)]
                      ELSE UNCHANGED th
    /\ UNCHANGED <<now, fresh, table, timerVars, ioVars, wakeVars, lifeVars, rpc,
                   scanVars, pollVars, fdVars>>

\* The future creates its io core (ntask_io_new) and attaches the descriptor
\* (ntask_io_attach); the first two critical sections concern a core nobody
\* else knows.
NewIo(t) ==
    /\ th[t].at = "poll" /\ core[th[t].g] = "none"
    /\ core' = [core EXCEPT ![th[t].g] = "live"]
    /\ Goto(t, "attach")
    /\ UNCHANGED <<now, taskVars, timerVars, waiters, ready, wakeVars, lifeVars, rpc,
                   scanVars, pollVars, fdVars>>

Attach(t) ==
    /\ th[t].at = "attach"
    /\ interests' = IF Fd[th[t].io] = NoFd THEN interests \ {th[t].io}
                    ELSE interests \cup {th[t].io}
    /\ Announce(t)
    /\ UNCHANGED <<now, taskVars, timerVars, ioVars, dirty, wake, lifeVars, rpc,
                   scanVars, pollVars, fdVars>>

\* A poll of the future that gets its connection or line; more may be queued.
Receive(t) ==
    /\ th[t].at = "poll" /\ core[th[t].g] = "live" /\ Fd[th[t].g] \in readable
    /\ ready' = ready \ {th[t].g}
    /\ readable' = readable \ {Fd[th[t].g]}
    /\ UNCHANGED <<now, taskVars, timerVars, core, waiters, wakeVars, lifeVars, th, rpc,
                   scanVars, pollVars, open>>

\* A poll that gets nothing (WouldBlock, or only part of a line) and parks.
TryIo(t) ==
    /\ th[t].at = "poll" /\ core[th[t].g] = "live" /\ Fd[th[t].g] \in open \cup {NoFd}
    /\ ready' = ready \ {th[t].g}
    /\ Goto(t, "flush")
    /\ UNCHANGED <<now, taskVars, timerVars, core, waiters, wakeVars, lifeVars, rpc,
                   scanVars, pollVars, fdVars>>

\* Mutant: a goroutine whose core is marked ready is not queued as a waiter.
ParkFdUnlessReady(t) ==
    /\ th[t].at = "flush"
    /\ waiters' = IF th[t].g \in ready THEN waiters ELSE waiters \cup {th[t].g}
    /\ th' = [th EXCEPT ![t] = Thread("register", Null, th[t].io, FALSE)]
    /\ UNCHANGED <<now, taskVars, timerVars, core, ready, wakeVars, lifeVars, rpc,
                   scanVars, pollVars, fdVars>>

\* drive flushes Park::Fd.
ParkFd(t) ==
    /\ th[t].at = "flush"
    /\ waiters' = waiters \cup {th[t].g}
    /\ th' = [th EXCEPT ![t] = Thread("register", Null, th[t].io, FALSE)]
    /\ UNCHANGED <<now, taskVars, timerVars, core, ready, wakeVars, lifeVars, rpc,
                   scanVars, pollVars, fdVars>>

\* register_fd, after the global lock is gone.
Register(t) ==
    /\ th[t].at = "register"
    /\ \/ /\ Fd[th[t].io] = NoFd
          /\ Goto(t, "wake") /\ UNCHANGED interests
       \/ /\ Fd[th[t].io] # NoFd /\ th[t].io \in interests
          /\ th' = [th EXCEPT ![t] = Return(t)] /\ UNCHANGED interests
       \/ /\ Fd[th[t].io] # NoFd /\ th[t].io \notin interests
          /\ interests' = interests \cup {th[t].io} /\ Announce(t)
    /\ UNCHANGED <<now, taskVars, timerVars, ioVars, dirty, wake, lifeVars, rpc,
                   scanVars, pollVars, fdVars>>

\* drive flushes Park::Timer; the deadline may have passed by now.
ParkTimer(t, at) ==
    /\ th[t].at = "poll"
    /\ timers' = timers \cup {<<at, th[t].g>>} /\ pending' = pending + 1
    /\ th' = [th EXCEPT ![t] = Thread("wake", Null, Null, FALSE)]
    /\ UNCHANGED <<now, taskVars, ioVars, wakeVars, lifeVars, rpc,
                   scanVars, pollVars, fdVars>>

\* The future reaps its result, or fails, and drops its core (async_io_drop).
LeaveIo(t) ==
    /\ th[t].at = "poll" /\ core[th[t].g] = "live"
    /\ th' = [th EXCEPT ![t] = Thread("detach", th[t].g, th[t].g, TRUE)]
    /\ UNCHANGED <<now, taskVars, timerVars, ioVars, wakeVars, lifeVars, rpc,
                   scanVars, pollVars, fdVars>>

\* The poll returns 1: the goroutine is done.
Finish(t) ==
    /\ th[t].at = "poll" /\ core[th[t].g] # "live"
    /\ table' = table \ {th[t].g}
    /\ th' = [th EXCEPT ![t] = Free]
    /\ UNCHANGED <<now, fresh, runnable, timerVars, ioVars, wakeVars, lifeVars, rpc,
                   scanVars, pollVars, fdVars>>

\* core::drop_goroutine takes a goroutine out of the timers and the waiters.
\* Mutants: TIMER_PENDING is left alone; the waiters are.
ForgetUncounted(g) ==
    /\ timers' = {e \in timers : e[2] # g} /\ UNCHANGED pending
    /\ waiters' = waiters \ {g}
ForgetTimers(g) ==
    /\ timers' = {e \in timers : e[2] # g}
    /\ pending' = pending - Cardinality({e \in timers : e[2] = g})
    /\ UNCHANGED waiters
Forget(g) ==
    /\ timers' = {e \in timers : e[2] # g}
    /\ pending' = pending - Cardinality({e \in timers : e[2] = g})
    /\ waiters' = waiters \ {g}

\* ntask_goroutine_drop; then the future is torn down, and drops its core.
DropHandle(t, g) ==
    /\ phase = "up" /\ th[t].at = "free" /\ g \in table \ Polled
    /\ table' = table \ {g}
    /\ Forget(g)
    /\ th' = [th EXCEPT ![t] = IF core[g] = "live" THEN Thread("detach", Null, g, TRUE)
                                                   ELSE Free]
    /\ UNCHANGED <<now, fresh, runnable, core, ready, wakeVars, lifeVars, rpc,
                   scanVars, pollVars, fdVars>>

-----------------------------------------------------------------------------
(* Telling the reactor: the tail of attach_fd, register_fd and detach_fd.   *)

Detach(t) ==
    /\ th[t].at = "detach"
    /\ interests' = interests \ {th[t].io}
    /\ IF th[t].io \in interests THEN Announce(t) ELSE th' = [th EXCEPT ![t] = Return(t)]
    /\ UNCHANGED <<now, taskVars, timerVars, ioVars, dirty, wake, lifeVars, rpc,
                   scanVars, pollVars, fdVars>>

\* drop_io: the core goes, and with it whoever waits on it.
DropIo(t) ==
    /\ th[t].at = "dropio"
    /\ core' = [core EXCEPT ![th[t].io] = "gone"]
    /\ waiters' = waiters \ {th[t].io} /\ ready' = ready \ {th[t].io}
    /\ th' = [th EXCEPT ![t] = IF th[t].g = Null THEN Free
                               ELSE Thread("poll", th[t].g, th[t].io, FALSE)]
    /\ UNCHANGED <<now, taskVars, timerVars, wakeVars, lifeVars, rpc,
                   scanVars, pollVars, fdVars>>

SetDirty(t) ==
    /\ th[t].at = "dirty"
    /\ dirty' = TRUE
    /\ Goto(t, "wake")
    /\ UNCHANGED <<now, taskVars, timerVars, ioVars, interests, wake, lifeVars, rpc,
                   scanVars, pollVars, fdVars>>

\* ensure_reactor_thread: the first caller starts the thread.
StartReactor(t) ==
    /\ th[t].at = "wake" /\ ~started
    /\ started' = TRUE /\ rpc' = "check" /\ due' = {} /\ pollset' = {}
    /\ UNCHANGED <<now, taskVars, timerVars, ioVars, wakeVars, phase, stop, th,
                   seen, wait, left, nval, hits, fdVars>>

\* wake_write.
Wake(t) ==
    /\ th[t].at = "wake" /\ started
    /\ wake' = TRUE
    /\ th' = [th EXCEPT ![t] = Return(t)]
    /\ UNCHANGED <<now, taskVars, timerVars, ioVars, interests, dirty, lifeVars, rpc,
                   scanVars, pollVars, fdVars>>

-----------------------------------------------------------------------------
(* The reactor thread.                                                      *)

worldVars == <<now, fdVars, fresh, table, core, interests, lifeVars, th>>

CheckStop ==
    /\ rpc = "check"
    /\ rpc' = IF stop THEN "exited" ELSE "timers"
    /\ UNCHANGED <<worldVars, runnable, timerVars, waiters, ready, dirty, wake,
                   scanVars, pollVars>>

\* has_pending_timers and now_ms, before the global lock is taken.
LookAtTimers ==
    /\ rpc = "timers"
    /\ \/ pending <= 0 /\ wait' = Never /\ rpc' = "fire" /\ UNCHANGED seen
       \/ pending > 0 /\ seen' = now /\ rpc' = "scan" /\ UNCHANGED wait
    /\ UNCHANGED <<worldVars, runnable, timerVars, waiters, ready, dirty, wake,
                   due, pollVars>>

\* The timers whose deadline has passed, and the others.
Due == {e \in timers : e[1] <= seen}
Rest == {e \in timers : e[1] > seen}

\* The time poll may block: up to the next deadline, but at least 1 ms.
\* Mutant: the timers are not considered.
TimeoutNever == Never
Timeout ==
    IF Rest = {} THEN Never
    ELSE LET next == CHOOSE a \in {e[1] : e \in Rest} : \A e \in Rest : a <= e[1]
             ms == IF next - seen > 1 THEN next - seen ELSE 1
         IN  IF ms > MaxWait THEN MaxWait ELSE ms

ScanTimers ==
    /\ rpc = "scan"
    /\ due' = {e[2] : e \in Due} /\ timers' = Rest /\ wait' = Timeout
    /\ pending' = pending - Cardinality(Due)
    /\ rpc' = "fire"
    /\ UNCHANGED <<worldVars, runnable, waiters, ready, dirty, wake, seen, pollVars>>

FireTimer(g) ==
    /\ rpc = "fire" /\ g \in due
    /\ due' = due \ {g} /\ runnable' = runnable \cup {g}
    /\ UNCHANGED <<worldVars, timerVars, waiters, ready, dirty, wake, rpc, seen, wait,
                   pollVars>>

\* readiness_wait: swap INTERESTS_DIRTY, copy the table if it was set, poll.
SwapDirty ==
    /\ rpc = "fire" /\ due = {}
    /\ dirty' = FALSE
    /\ rpc' = IF dirty THEN "copy" ELSE "enter"
    /\ UNCHANGED <<worldVars, runnable, timerVars, waiters, ready, wake, scanVars, pollVars>>

CopyInterests ==
    /\ rpc = "copy"
    /\ pollset' = interests /\ rpc' = "enter"
    /\ UNCHANGED <<worldVars, runnable, timerVars, waiters, ready, dirty, wake, scanVars,
                   left, nval, hits>>

EnterPoll ==
    /\ rpc = "enter"
    /\ left' = wait
    /\ nval' = {io \in pollset : Fd[io] \notin open}
    /\ rpc' = "poll"
    /\ UNCHANGED <<worldVars, runnable, timerVars, waiters, ready, dirty, wake, scanVars,
                   pollset, hits>>

Readable == {io \in pollset : Fd[io] \in readable}

\* poll returns with events; POLLNVAL counts, and is then ignored.
Events == wake \/ Readable # {} \/ nval # {}
PollEvents ==
    /\ rpc = "poll" /\ Events
    /\ hits' = Readable
    /\ rpc' = IF wake THEN "drain" ELSE "deliver"
    /\ UNCHANGED <<worldVars, runnable, timerVars, waiters, ready, dirty, wake, scanVars,
                   left, pollset, nval>>

\* The timeout expires, or a signal interrupts the call: both end with rc <= 0.
NoEvents ==
    /\ rpc = "poll" /\ ~Events
    /\ hits' = {} /\ rpc' = "drain"
    /\ UNCHANGED <<worldVars, runnable, timerVars, waiters, ready, dirty, wake, scanVars,
                   left, pollset, nval>>
PollExpires == left = 0 /\ NoEvents
PollInterrupted == NoEvents

DrainWake ==
    /\ rpc = "drain"
    /\ wake' = FALSE /\ rpc' = "deliver"
    /\ UNCHANGED <<worldVars, runnable, timerVars, waiters, ready, dirty, scanVars, pollVars>>

\* Mutant: the waiters are made runnable but stay on the list.
WakeWaitersKept(live) ==
    runnable' = runnable \cup (waiters \cap live) /\ UNCHANGED waiters
WakeWaiters(live) ==
    runnable' = runnable \cup (waiters \cap live) /\ waiters' = waiters \ live

\* wake_ready_ios, for the cores that still exist; the locals of this turn of
\* reactor_loop are forgotten, but not the pollfd array.
WakeReadyIos ==
    /\ rpc = "deliver"
    /\ LET live == {io \in hits : core[io] = "live"}
       IN  ready' = ready \cup live /\ WakeWaiters(live)
    /\ rpc' = "check" /\ seen' = 0 /\ wait' = Never /\ left' = Never /\ nval' = {} /\ hits' = {}
    /\ UNCHANGED <<worldVars, timerVars, dirty, wake, due, pollset>>

-----------------------------------------------------------------------------
(* Shutdown: ntsc_runtime_shutdown calls reactor::shutdown and then         *)
(* scheduler::shutdown, which joins the threads and resets the reactor.     *)

StopReactor ==
    /\ MayStop /\ phase = "up" /\ phase' = "stopping" /\ stop' = TRUE
    /\ UNCHANGED <<now, taskVars, timerVars, ioVars, wakeVars, started, th, rpc,
                   scanVars, pollVars, fdVars>>

\* Mutant: the reactor is not woken.
StopWorkersSilently ==
    /\ phase = "stopping" /\ phase' = "joining"
    /\ UNCHANGED <<now, taskVars, timerVars, ioVars, wakeVars, stop, started, th, rpc,
                   scanVars, pollVars, fdVars>>

StopWorkers ==
    /\ phase = "stopping" /\ phase' = "joining" /\ wake' = TRUE
    /\ UNCHANGED <<now, taskVars, timerVars, ioVars, interests, dirty, stop, started, th, rpc,
                   scanVars, pollVars, fdVars>>

\* The threads have ended: reactor::reset, then every goroutine is abandoned,
\* and the future of each drops its core.
Reset ==
    /\ phase = "joining" /\ phase' = "halted"
    /\ \A t \in Threads : th[t].at = "free"
    /\ rpc \in {"off", "exited"}
    /\ started' = FALSE /\ interests' = {} /\ dirty' = TRUE
    /\ table' = {} /\ runnable' = {} /\ timers' = {} /\ pending' = 0
    /\ core' = [g \in Gids |-> IF g \in table /\ core[g] = "live" THEN "gone" ELSE core[g]]
    /\ waiters' = waiters \ table /\ ready' = ready \ table
    /\ UNCHANGED <<now, fresh, wake, stop, th, rpc, scanVars, pollVars, fdVars>>

\* The next test in the same binary spawns again.
Restart ==
    /\ MayRestart /\ phase = "halted" /\ phase' = "up"
    /\ UNCHANGED <<now, taskVars, timerVars, ioVars, wakeVars, stop, started, th, rpc,
                   scanVars, pollVars, fdVars>>

-----------------------------------------------------------------------------

Work(t) ==
    \/ NewIo(t) \/ Receive(t) \/ TryIo(t) \/ LeaveIo(t) \/ Finish(t)
    \/ \E at \in Deadlines : ParkTimer(t, at)
    \/ \E g \in Gids : Take(t, g) \/ DropHandle(t, g)

Errand(t) ==
    \/ Attach(t) \/ ParkFd(t) \/ Register(t) \/ Detach(t) \/ DropIo(t)
    \/ SetDirty(t) \/ StartReactor(t) \/ Wake(t)

ReactorStep ==
    \/ CheckStop \/ LookAtTimers \/ ScanTimers \/ (\E g \in Gids : FireTimer(g))
    \/ SwapDirty \/ CopyInterests \/ EnterPoll \/ PollEvents \/ PollExpires
    \/ DrainWake \/ WakeReadyIos

Next ==
    \/ Tick \/ (\E f \in Fds : Arrive(f) \/ Close(f))
    \/ \E g \in Gids : Spawn(g)
    \/ \E t \in Threads : Work(t) \/ Errand(t)
    \/ ReactorStep \/ PollInterrupted
    \/ StopReactor \/ StopWorkers \/ Reset \/ Restart

Spec == Init /\ [][Next]_vars

\* Every thread gets processor time, and time passes.  Whether a goroutine
\* makes progress, and what arrives, is up to the program and its peers.
Fairness ==
    /\ WF_vars(Tick) /\ WF_vars(ReactorStep) /\ WF_vars(StopWorkers)
    /\ \A t \in Threads : WF_vars(Errand(t))
LiveSpec == Spec /\ Fairness

-----------------------------------------------------------------------------

\* The state is well formed.
TypeOK ==
    /\ now \in 0..Horizon /\ phase \in {"up", "stopping", "joining", "halted"}
    /\ fresh \subseteq Gids /\ table \subseteq Gids /\ runnable \subseteq Gids
    /\ timers \subseteq Deadlines \X Gids /\ IsFiniteSet(timers) /\ pending \in Int
    /\ core \in [Gids -> {"none", "live", "gone"}]
    /\ waiters \subseteq Gids /\ ready \subseteq Gids /\ interests \subseteq Gids
    /\ dirty \in BOOLEAN /\ wake \in BOOLEAN /\ stop \in BOOLEAN /\ started \in BOOLEAN
    /\ th \in [Threads -> [at : Steps, g : Gids \cup {Null}, io : Gids \cup {Null},
                           drop : BOOLEAN]]
    /\ \A t \in Threads :
        /\ th[t].g # Null => th[t].io = th[t].g
        /\ th[t].at \in {"poll", "flush", "attach"} => th[t].g # Null
        /\ th[t].drop \/ th[t].at \in {"register", "detach", "dropio"} => th[t].io # Null
    /\ rpc \in {"off", "check", "timers", "scan", "fire", "copy", "enter", "poll",
                "drain", "deliver", "exited"}
    /\ seen \in 0..Horizon /\ due \subseteq Gids /\ wait \in Int /\ left \in Int
    /\ pollset \subseteq Gids /\ nval \subseteq Gids /\ hits \subseteq Gids
    /\ open \subseteq Fds /\ readable \subseteq Fds

Covers(at) == wait # Never /\ (wait <= at - seen \/ wait <= 1)
Telling(at) == \E t \in Threads : th[t].at = at

\* The reactor never sleeps on news.  When it is inside poll with an empty
\* wake pipe, and no thread is on its way to write to it, the descriptors it
\* polls are the registered interests and its timeout is no longer than the
\* time to any pending deadline, although table, INTERESTS_DIRTY and pipe are
\* three separate writes (register_fd, attach_fd, detach_fd, drive).
NoSleepOnNews ==
    rpc = "poll" /\ ~wake /\ ~Telling("dirty") /\ ~Telling("wake") =>
        /\ pollset = interests /\ ~dirty
        /\ \A e \in timers : Covers(e[1])

\* The lock-free TIMER_PENDING counts the timers exactly, so the fast path of
\* fire_timers_and_next cannot overlook one.
PendingCounts == pending = Cardinality(timers)

Sleeping == {e[2] : e \in timers}

\* A goroutine is in one place at a time: queued, polled, asleep, about to be
\* fired, or waiting for its descriptor.  Were it in two, a second worker would
\* poll it and find its task list taken.
OnePlace ==
    /\ \A t, u \in Threads : th[t].g = th[u].g /\ th[t].g # Null => t = u
    /\ Polled \cap (runnable \cup Sleeping \cup due \cup waiters) = {}
    /\ runnable \cap (Sleeping \cup due \cup waiters) = {}
    /\ Sleeping \cap (due \cup waiters) = {} /\ due \cap waiters = {}
    /\ \A d, e \in timers : d[2] = e[2] => d = e

\* No registered goroutine is forgotten while the runtime is up.
NobodyForgotten ==
    table \subseteq runnable \cup Polled \cup Sleeping \cup due \cup waiters

\* What a parked goroutine waits for is watched: its core is registered, and
\* its descriptor is in the interest table or drive is about to put it there.
Watched ==
    \A g \in waiters :
        /\ core[g] = "live"
        /\ Fd[g] = NoFd \/ g \in interests
             \/ \E t \in Threads : th[t].at = "register" /\ th[t].io = g

\* A timer is never early: fire_timers_and_next picks a sleeping goroutine only
\* when its deadline has passed.
NeverEarly == [][\A e \in timers : e[2] \in due' => e[1] <= now]_vars

\* A sleeping goroutine is fired, whatever the other threads do.
TimersFire ==
    \A g \in Gids : g \in Sleeping ~> (g \notin Sleeping \/ phase # "up")

\* A goroutine parked on a descriptor that has something to read is woken.
ReadinessWakes ==
    \A g \in Gids :
        (g \in waiters /\ Fd[g] \in readable)
            ~> (g \notin waiters \/ Fd[g] \notin readable \/ phase # "up")

\* "Mark shutdown and wake the reactor so it exits promptly."
ReactorStops == stop ~> rpc \in {"off", "exited"}

\* registry.rs, async_io_drop: "Unwatch the fd before the core is removed so the
\* reactor never polls a stale descriptor."
NoStaleInterest == \A g \in interests : core[g] = "live"

\* register_fd, for a core without descriptor: "Wake so the goroutine re-polls
\* and reports ready=false immediately rather than hanging."
Repolled == \A g \in Gids : (g \in waiters /\ Fd[g] = NoFd) ~> g \notin waiters
=============================================================================
