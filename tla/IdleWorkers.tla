---------------------------- MODULE IdleWorkers ----------------------------
(***************************************************************************)
(* Sleeping and waking of the worker pool: worker_loop, wait_for_work,     *)
(* should_wake, the notify functions and join_blocking of scheduler.rs.    *)
(*                                                                         *)
(* Workers and blocked joiners share one condition variable and one packed *)
(* counter, IDLE_STATE.  A push is followed by a separate look at the      *)
(* counter and, if that says so, by a separate notification; has_work      *)
(* looks at one queue after the other.  The inside of a queue is the       *)
(* subject of RunQueue: here a ring is a set that never overflows.         *)
(***************************************************************************)
EXTENDS Integers, FiniteSets, Sequences

CONSTANTS Gids,      \* goroutines
          Order,     \* the workers, in the order of QUEUES
          Outside,   \* threads outside the pool that make goroutines runnable
          Joiners,   \* threads that call join_blocking
          Target,    \* the goroutine they join
          Null,      \* NULL
          Spins,     \* SPIN_BEFORE_PARK
          GlobalCheck,        \* GLOBAL_CHECK_INTERVAL
          Initial, Interval,  \* of notify_spawn_burst
          Unit,      \* 1 << UNPARKED_SHIFT
          Word,      \* the values of a usize
          Yields,    \* bound: how often goroutines yield, in all
          MayStop    \* is shutdown considered?

Workers == {Order[i] : i \in 1..Len(Order)}
Threads == Workers \cup Outside \cup Joiners

ASSUME IdleAssumption ==
    /\ Order \in Seq(Workers) /\ Order # <<>> /\ \A i, j \in 1..Len(Order) : Order[i] = Order[j] => i = j
    /\ Workers \cap (Outside \cup Joiners) = {} /\ Outside \cap Joiners = {}
    /\ IsFiniteSet(Joiners)
    /\ Null \notin Gids /\ MayStop \in BOOLEAN /\ Yields \in Nat
    /\ Spins \in Nat \ {0} /\ GlobalCheck \in Nat \ {0} /\ Initial \in Nat /\ Interval \in Nat \ {0}
    /\ Unit \in Nat /\ Unit > Len(Order)
    /\ Word \in Nat /\ Word % Unit = 0 /\ Word \div Unit > Len(Order) + 1

VARIABLES
    slot,      \* the LIFO slot of each worker
    ring,      \* the ring of each worker
    shared,    \* Global::ready
    fresh,     \* goroutines not spawned yet
    parked,    \* goroutines parked until an outside thread readies them
    finished,  \* goroutines that are done
    run,       \* the goroutine a worker drives
    tick,      \* the tick of worker_loop, modulo GlobalCheck
    burst,     \* LOCAL_SPAWN_COUNT
    yields,    \* how often goroutines have yielded
    idle,      \* IDLE_STATE
    stop,      \* SHUTDOWN
    pc,        \* what a worker or joiner does next
    at,        \* the queue its scan has come to
    spin,      \* rounds of the spin loop left
    tell,      \* the notification a thread owes
    sleeping,  \* threads that wait on the condition variable
    missed     \* history: did the last notification find nobody waiting?

queueVars == <<slot, ring, shared>>
taskVars == <<fresh, parked, finished, run, burst, yields>>
scanVars == <<at, spin>>
vars == <<queueVars, taskVars, tick, idle, stop, pc, scanVars, tell, sleeping, missed>>

Init ==
    /\ slot = [w \in Workers |-> Null] /\ ring = [w \in Workers |-> {}] /\ shared = <<>>
    /\ fresh = Gids /\ parked = {} /\ finished = {}
    /\ run = [w \in Workers |-> Null] /\ burst = [w \in Workers |-> 0]
    /\ tick = [w \in Workers |-> 0] /\ yields = 0
    /\ idle = 0 /\ stop = FALSE
    /\ pc = [t \in Workers \cup Joiners |-> IF t \in Workers THEN "start" ELSE "check"]
    /\ at = [w \in Workers |-> 1] /\ spin = [w \in Workers |-> 0]
    /\ tell = [t \in Threads |-> "nobody"]
    /\ sleeping = {} /\ missed = FALSE

Goto(t, p) == pc' = [pc EXCEPT ![t] = p]
Add(n) == idle' = (idle + n) % Word
Sub(n) == idle' = (idle + Word - n) % Word
Searching == idle % Unit
Unparked == idle \div Unit

\* A thread gives a notification before it does anything else.
Quiet(t) == tell[t] = "nobody"
Owe(t, whom) == tell' = [tell EXCEPT ![t] = whom]

-----------------------------------------------------------------------------
(* Notifications.                                                           *)

ShouldWake == Searching = 0 /\ Unparked < Len(Order)

\* notify_one and notify_all first look at IDLE_STATE.
Decide(t) ==
    /\ tell[t] \in {"one?", "all?"}
    /\ Owe(t, IF ~ShouldWake THEN "nobody" ELSE IF tell[t] = "one?" THEN "one" ELSE "all")
    /\ UNCHANGED <<queueVars, taskVars, idle, stop, pc, scanVars, sleeping, missed, tick>>

Notify(t) ==
    /\ tell[t] \in {"one", "all"}
    /\ Owe(t, "nobody")
    /\ \/ sleeping = {} /\ missed' = TRUE /\ UNCHANGED sleeping
       \/ \E u \in sleeping : tell[t] = "one" /\ sleeping' = sleeping \ {u} /\ UNCHANGED missed
       \/ sleeping # {} /\ tell[t] = "all" /\ sleeping' = {} /\ UNCHANGED missed
    /\ UNCHANGED <<queueVars, taskVars, idle, stop, pc, scanVars, tick>>

-----------------------------------------------------------------------------
(* Running goroutines.                                                      *)

Start(w) ==
    /\ pc[w] = "start" /\ Add(Unit) /\ Goto(w, "top")
    /\ UNCHANGED <<queueVars, taskVars, stop, scanVars, tell, sleeping, missed, tick>>

Top(w) ==
    /\ pc[w] = "top" /\ Quiet(w)
    /\ IF stop THEN Sub(Unit) /\ Goto(w, "exited") /\ UNCHANGED tick
       ELSE /\ Goto(w, "pop") /\ UNCHANGED idle
            /\ tick' = [tick EXCEPT ![w] = (@ + 1) % GlobalCheck]
    /\ UNCHANGED <<queueVars, taskVars, stop, scanVars, tell, sleeping, missed>>

\* drive loads goroutine g.
Drive(w, g) ==
    /\ run' = [run EXCEPT ![w] = g] /\ burst' = [burst EXCEPT ![w] = 0]
    /\ Goto(w, "run")

\* Mutant: the worker takes from its ring and forgets its slot.
PopRing(w) ==
    /\ pc[w] = "pop"
    /\ \/ /\ \E g \in ring[w] : ring' = [ring EXCEPT ![w] = @ \ {g}] /\ Drive(w, g)
          /\ UNCHANGED <<slot, shared>>
       \/ ring[w] = {} /\ Goto(w, "refill") /\ UNCHANGED <<queueVars, run, burst>>
    /\ UNCHANGED <<fresh, parked, finished, yields, idle, stop, scanVars, tell, sleeping, missed, tick>>

\* Every GlobalCheck ticks the shared queue comes first.
Pop(w) ==
    /\ pc[w] = "pop"
    /\ LET global == tick[w] = 0 /\ shared # <<>>
       IN  \/ /\ global /\ shared' = Tail(shared) /\ Drive(w, Head(shared))
              /\ UNCHANGED <<slot, ring>>
           \/ /\ ~global /\ slot[w] # Null
              /\ slot' = [slot EXCEPT ![w] = Null] /\ Drive(w, slot[w])
              /\ UNCHANGED <<ring, shared>>
           \/ /\ ~global /\ slot[w] = Null
              /\ \E g \in ring[w] : ring' = [ring EXCEPT ![w] = @ \ {g}] /\ Drive(w, g)
              /\ UNCHANGED <<slot, shared>>
           \/ /\ ~global /\ slot[w] = Null /\ ring[w] = {} /\ Goto(w, "refill")
              /\ UNCHANGED <<queueVars, run, burst>>
    /\ UNCHANGED <<fresh, parked, finished, yields, idle, stop, scanVars, tell, sleeping, missed, tick>>

\* refill_from_shared: len / workers + 1 of the shared queue, the last to run.
Refill(w) ==
    /\ pc[w] = "refill"
    /\ LET share == Len(shared) \div Len(Order) + 1
           take == IF share < Len(shared) THEN share ELSE Len(shared)
       IN  \/ /\ take = 0 /\ Goto(w, "steal") /\ at' = [at EXCEPT ![w] = 1]
              /\ UNCHANGED <<queueVars, run, burst>>
           \/ /\ take > 0 /\ shared' = SubSeq(shared, take + 1, Len(shared))
              /\ ring' = [ring EXCEPT ![w] = @ \cup {shared[i] : i \in 1..(take - 1)}]
              /\ Drive(w, shared[take]) /\ UNCHANGED <<slot, at>>
    /\ UNCHANGED <<fresh, parked, finished, yields, idle, stop, spin, tell, sleeping, missed, tick>>

\* steal_from_peers: half of a ring, never the LIFO slot.
Steal(w) ==
    /\ pc[w] = "steal"
    /\ LET me == CHOOSE i \in 1..Len(Order) : Order[i] = w
           victim == Order[((me - 1 + at[w]) % Len(Order)) + 1]
           n == Cardinality(ring[victim])
       IN  \/ at[w] = Len(Order) /\ Goto(w, "idle") /\ UNCHANGED <<ring, at, run, burst>>
           \/ /\ at[w] < Len(Order) /\ n = 0 /\ at' = [at EXCEPT ![w] = @ + 1]
              /\ UNCHANGED <<ring, pc, run, burst>>
           \/ /\ at[w] < Len(Order)
              /\ \E b \in SUBSET ring[victim] : \E g \in b :
                    /\ Cardinality(b) = n - n \div 2
                    /\ ring' = [ring EXCEPT ![victim] = @ \ b, ![w] = @ \cup (b \ {g})]
                    /\ Drive(w, g)
              /\ UNCHANGED at
    /\ UNCHANGED <<slot, shared, fresh, parked, finished, yields, idle, stop, spin, tell,
                   sleeping, missed, tick>>

\* A worker makes g runnable: into its slot, which is emptied into its ring,
\* and notify_spawn_burst.
MakeRunnable(w, g) ==
    /\ slot' = [slot EXCEPT ![w] = g]
    /\ ring' = IF slot[w] = Null THEN ring ELSE [ring EXCEPT ![w] = @ \cup {slot[w]}]
    /\ LET next == burst[w] + 1
       IN  /\ burst' = [burst EXCEPT ![w] = next]
           /\ IF next <= Initial \/ next % Interval = 0 THEN Owe(w, "one?") ELSE UNCHANGED tell

\* The goroutine spawns a child.
Spawn(w, g) ==
    /\ pc[w] = "run" /\ Quiet(w) /\ g \in fresh
    /\ fresh' = fresh \ {g} /\ MakeRunnable(w, g)
    /\ UNCHANGED <<shared, parked, finished, run, yields, idle, stop, pc, scanVars, sleeping,
                   missed, tick>>

\* The goroutine yields: it goes back into its worker's slot.
Yield(w) ==
    /\ pc[w] = "run" /\ Quiet(w) /\ yields < Yields
    /\ yields' = yields + 1 /\ MakeRunnable(w, run[w])
    /\ run' = [run EXCEPT ![w] = Null] /\ Goto(w, "top")
    /\ UNCHANGED <<shared, fresh, parked, finished, idle, stop, scanVars, sleeping, missed, tick>>

\* The goroutine parks: nothing became runnable, nobody is told.
Park(w) ==
    /\ pc[w] = "run" /\ Quiet(w)
    /\ parked' = parked \cup {run[w]} /\ run' = [run EXCEPT ![w] = Null]
    /\ Goto(w, "top")
    /\ UNCHANGED <<queueVars, fresh, finished, burst, yields, idle, stop, scanVars, tell, sleeping,
                   missed, tick>>

\* The goroutine parks on a channel whose partner it readies.
Handoff(w, g) ==
    /\ pc[w] = "run" /\ Quiet(w) /\ g \in parked
    /\ parked' = (parked \ {g}) \cup {run[w]} /\ run' = [run EXCEPT ![w] = Null]
    /\ shared' = Append(shared, g)
    /\ Owe(w, "all?") /\ Goto(w, "top")
    /\ UNCHANGED <<slot, ring, fresh, finished, burst, yields, idle, stop, scanVars, sleeping,
                   missed, tick>>

\* The goroutine is done.
Finish(w) ==
    /\ pc[w] = "run" /\ Quiet(w)
    /\ finished' = finished \cup {run[w]} /\ run' = [run EXCEPT ![w] = Null]
    /\ Owe(w, "all?") /\ Goto(w, "top")
    /\ UNCHANGED <<queueVars, fresh, parked, burst, yields, idle, stop, scanVars, sleeping,
                   missed, tick>>

\* An outside thread spawns a goroutine or readies a parked one.
Ready(o, g) ==
    /\ Quiet(o) /\ g \in fresh \cup parked
    /\ shared' = Append(shared, g) /\ fresh' = fresh \ {g} /\ parked' = parked \ {g}
    /\ Owe(o, "one?")
    /\ UNCHANGED <<slot, ring, finished, run, burst, yields, idle, stop, pc, scanVars, sleeping,
                   missed, tick>>

-----------------------------------------------------------------------------
(* Idle workers.                                                            *)

\* has_work looks at the queues in order, and at READY_LEN last.
Places == Len(Order) + 1
Holds(i) == IF i = Places THEN shared # <<>>
            ELSE slot[Order[i]] # Null \/ ring[Order[i]] # {}

\* One look of has_work in a loop that also looks at SHUTDOWN: the scan moves
\* on, ends at `none`, or ends at `found`.
Look(w, from, stopped, found, none) ==
    /\ pc[w] = from
    /\ \/ stopped /\ Goto(w, found) /\ at' = [at EXCEPT ![w] = 1]
       \/ Holds(at[w]) /\ Goto(w, found) /\ at' = [at EXCEPT ![w] = 1]
       \/ ~stopped /\ ~Holds(at[w]) /\ at[w] < Places
            /\ at' = [at EXCEPT ![w] = @ + 1] /\ UNCHANGED pc
       \/ ~stopped /\ ~Holds(at[w]) /\ at[w] = Places
            /\ at' = [at EXCEPT ![w] = 1] /\ Goto(w, none)

\* wait_for_work: the worker counts as searching while it spins.
Search(w) ==
    /\ pc[w] = "idle" /\ Add(1) /\ Goto(w, "spin")
    /\ at' = [at EXCEPT ![w] = 1] /\ spin' = [spin EXCEPT ![w] = Spins]
    /\ UNCHANGED <<queueVars, taskVars, stop, tell, sleeping, missed, tick>>

Spin(w) ==
    /\ Look(w, "spin", stop, "found", IF spin[w] > 1 THEN "spin" ELSE "nothing")
    /\ spin' = [spin EXCEPT ![w] = IF pc'[w] # "spin" THEN 0
                                   ELSE IF at[w] = Places THEN @ - 1 ELSE @]
    /\ UNCHANGED <<queueVars, taskVars, idle, stop, tell, sleeping, missed, tick>>

\* The last searcher to give up looks again.
GiveUp(w) ==
    /\ pc[w] \in {"found", "nothing"} /\ Sub(1)
    /\ Goto(w, IF pc[w] = "found" THEN "top" ELSE IF Searching = 1 THEN "recheck" ELSE "park")
    /\ UNCHANGED <<queueVars, taskVars, stop, scanVars, tell, sleeping, missed, tick>>

Recheck(w) ==
    /\ Look(w, "recheck", FALSE, "top", "park")
    /\ IF pc'[w] = "top" THEN Owe(w, "one?") ELSE UNCHANGED tell
    /\ UNCHANGED <<queueVars, taskVars, idle, stop, spin, sleeping, missed, tick>>

\* Mutant: the worker waits before it looks.
LieDownBlind(w) ==
    /\ pc[w] = "park" /\ Sub(Unit) /\ Goto(w, "gap")
    /\ UNCHANGED <<queueVars, taskVars, stop, scanVars, tell, sleeping, missed, tick>>
LieDown(w) ==
    /\ pc[w] = "park" /\ Sub(Unit) /\ Goto(w, "loop")
    /\ UNCHANGED <<queueVars, taskVars, stop, scanVars, tell, sleeping, missed, tick>>

\* Mutant: the wait loop does not look at SHUTDOWN.
LookOnceMoreStubbornly(w) ==
    /\ Look(w, "loop", FALSE, "rise", "gap")
    /\ UNCHANGED <<queueVars, taskVars, idle, stop, spin, tell, sleeping, missed, tick>>
LookOnceMore(w) ==
    /\ Look(w, "loop", stop, "rise", "gap")
    /\ UNCHANGED <<queueVars, taskVars, idle, stop, spin, tell, sleeping, missed, tick>>

\* The lock is taken and given up for the wait: a notification before this is
\* not seen.
Sleep(t) ==
    /\ pc[t] = "gap" /\ Goto(t, "wait") /\ sleeping' = sleeping \cup {t}
    /\ UNCHANGED <<queueVars, taskVars, idle, stop, scanVars, tell, missed, tick>>

Slept(t) == IF t \in Workers THEN "loop" ELSE "uncount"

\* wait_timeout returns: notified, or after 10 ms.
Awaken(t) ==
    /\ pc[t] = "wait"
    /\ sleeping' = sleeping \ {t} /\ Goto(t, Slept(t)) /\ missed' = (missed /\ t \notin Workers)
    /\ UNCHANGED <<queueVars, taskVars, idle, stop, scanVars, tell, tick>>

Rise(w) ==
    /\ pc[w] = "rise" /\ Add(Unit) /\ Goto(w, "top")
    /\ UNCHANGED <<queueVars, taskVars, stop, scanVars, tell, sleeping, missed, tick>>

-----------------------------------------------------------------------------
(* join_blocking, and shutdown's first lines.                               *)

Check(j) ==
    /\ pc[j] = "check" /\ Goto(j, IF Target \in finished THEN "joined" ELSE "count")
    /\ UNCHANGED <<queueVars, taskVars, idle, stop, scanVars, tell, sleeping, missed, tick>>

CountIdle(j) ==
    /\ pc[j] = "count" /\ Sub(Unit) /\ Goto(j, "gap")
    /\ UNCHANGED <<queueVars, taskVars, stop, scanVars, tell, sleeping, missed, tick>>

\* Mutant: the joiner waits again without a look.
UncountAgain(j) ==
    /\ pc[j] = "uncount" /\ Add(Unit) /\ Goto(j, "count")
    /\ UNCHANGED <<queueVars, taskVars, stop, scanVars, tell, sleeping, missed, tick>>
Uncount(j) ==
    /\ pc[j] = "uncount" /\ Add(Unit) /\ Goto(j, "check")
    /\ UNCHANGED <<queueVars, taskVars, stop, scanVars, tell, sleeping, missed, tick>>

\* shutdown sets SHUTDOWN and notifies all unconditionally, when main returns.
Stop(o) ==
    /\ MayStop /\ ~stop /\ Quiet(o) /\ \A j \in Joiners : pc[j] = "joined"
    /\ stop' = TRUE /\ Owe(o, "all")
    /\ UNCHANGED <<queueVars, taskVars, idle, pc, scanVars, sleeping, missed, tick>>

-----------------------------------------------------------------------------

Tell(t) == Decide(t) \/ Notify(t)
Hunt(w) == Search(w) \/ Spin(w) \/ GiveUp(w) \/ Recheck(w)
Doze(w) == LieDown(w) \/ LookOnceMore(w) \/ Sleep(w) \/ Awaken(w) \/ Rise(w)
Work(w) ==
    \/ Start(w) \/ Top(w) \/ Pop(w) \/ Refill(w) \/ Steal(w) \/ Hunt(w) \/ Doze(w)
Leave(w) == Park(w) \/ Finish(w) \/ Yield(w) \/ \E g \in Gids : Handoff(w, g)
Join(j) == Check(j) \/ CountIdle(j) \/ Sleep(j) \/ Awaken(j) \/ Uncount(j)

\* When main has joined, or shutdown has joined the workers, all is over.
Over ==
    /\ \A w \in Workers : pc[w] = "exited"
    /\ \A t \in Threads : Quiet(t)
    /\ UNCHANGED vars

Next ==
    \/ \E t \in Threads : Tell(t)
    \/ \E w \in Workers : Work(w) \/ Leave(w) \/ \E g \in Gids : Spawn(w, g)
    \/ \E o \in Outside : Stop(o) \/ \E g \in Gids : Ready(o, g)
    \/ \E j \in Joiners : Join(j)
    \/ Over

Spec == Init /\ [][Next]_vars

\* Every thread gets processor time; a goroutine whose poll returns is up to
\* the program, and so is what the outside threads do.
Fairness ==
    /\ \A t \in Threads : WF_vars(Tell(t))
    /\ \A w \in Workers : WF_vars(Work(w))
    /\ \A j \in Joiners : WF_vars(Join(j))
BusySpec == Spec /\ Fairness
PollsReturn == \A w \in Workers : WF_vars(Leave(w))
LiveSpec == BusySpec /\ PollsReturn

-----------------------------------------------------------------------------

Searchers == {w \in Workers : pc[w] \in {"spin", "found", "nothing"}}
Parked == {w \in Workers : pc[w] \in {"loop", "gap", "wait", "rise"}}
Down == Parked \cup {w \in Workers : pc[w] \in {"start", "exited"}}
Counted == {j \in Joiners : pc[j] \in {"gap", "wait", "uncount"}}
Queued == {shared[i] : i \in 1..Len(shared)} \cup UNION {ring[w] \cup ({slot[w]} \ {Null}) : w \in Workers}

\* The state is well formed.
TypeOK ==
    /\ slot \in [Workers -> Gids \cup {Null}] /\ ring \in [Workers -> SUBSET Gids]
    /\ shared \in Seq(Gids) /\ fresh \subseteq Gids /\ parked \subseteq Gids
    /\ finished \subseteq Gids /\ run \in [Workers -> Gids \cup {Null}]
    /\ burst \in [Workers -> Nat] /\ yields \in 0..Yields /\ tick \in [Workers -> 0..(GlobalCheck - 1)]
    /\ idle \in 0..(Word - 1) /\ stop \in BOOLEAN
    /\ pc \in [Workers \cup Joiners ->
               {"start", "top", "pop", "refill", "steal", "run", "idle", "spin", "found",
                "nothing", "recheck", "park", "loop", "gap", "wait", "rise", "exited",
                "check", "count", "uncount", "joined"}]
    /\ at \in [Workers -> 1..Places] /\ spin \in [Workers -> 0..Spins]
    /\ tell \in [Threads -> {"nobody", "one?", "all?", "one", "all"}]
    /\ sleeping \subseteq Workers \cup Joiners /\ missed \in BOOLEAN

\* IDLE_STATE counts exactly: its low bits the workers that search, its high
\* bits, modulo the width of the word, the workers that are up less the blocked
\* joiners.
CountsExact ==
    /\ Searching = Cardinality(Searchers)
    /\ Unparked = (Cardinality(Workers \ Down) - Cardinality(Counted)) % (Word \div Unit)

\* "only when no worker is already hunting for work and at least one is parked"
\* (should_wake).
WakesWhenParked == Searchers = {} /\ Parked # {} => ShouldWake

\* Although a push, the look at IDLE_STATE and the notification are separate
\* steps, and notifications are skipped while someone searches and in a burst,
\* all workers sleep on queued work only when a notification fell into the gap
\* between a worker's last look and its wait (wait_for_work).
LostOnlyInGap ==
    Workers \subseteq sleeping /\ Queued # {} /\ (\A t \in Threads : Quiet(t)) => missed

\* Queued work is run: what falls into the gap waits for the 10 ms of one
\* worker, no longer.
WorkRuns == \A g \in Gids : g \in Queued ~> (g \notin Queued \/ stop)

\* shutdown's join of the workers returns.
WorkersStop == stop ~> \A w \in Workers : pc[w] = "exited"

\* join_blocking returns once the goroutine it waits for is done.
JoinReturns ==
    \A j \in Joiners : (pc[j] # "joined" /\ Target \in finished) ~> pc[j] = "joined"

\* join_blocking: "Counted as idle so the completing worker still wakes us,
\* instead of this thread sitting out the full quantum."
JoinerWoken ==
    Target \in finished /\ (\A t \in Threads : Quiet(t)) => sleeping \cap Joiners = {}

\* notify_one: "Notify a single idle worker, if waking one can help."
IdleWorkerNotified ==
    [][\A t \in Threads : tell[t] = "one" /\ tell'[t] = "nobody" /\ sleeping \cap Workers # {}
          => sleeping \cap Workers # sleeping' \cap Workers]_vars

\* notify_spawn_burst: "The first few children get immediate wakeups so a small
\* CPU fan-out starts in parallel", while their parent still computes.
FanOutStarts == \A g \in Gids : g \in Queued ~> g \notin Queued
=============================================================================
