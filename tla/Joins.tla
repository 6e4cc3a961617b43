------------------------------- MODULE Joins -------------------------------
(***************************************************************************)
(* How goroutines end: the last critical section of drive, join_park and   *)
(* join_blocking, the exceptions that travel from the thread-local slot of *)
(* a worker to the thread that joins, offloaded jobs (async_op_poll, the   *)
(* offload pool, complete_op), drop_goroutine and shutdown.                *)
(*                                                                         *)
(* A goroutine is a stack of tasks that await each other.  Each awaits at  *)
(* most one job in its life, and the job is named after it.  Exception     *)
(* messages and the results of jobs are registry handles, which somebody   *)
(* must own until they are released.  The run queues are one set, of which *)
(* any worker takes any member.                                            *)
(***************************************************************************)
EXTENDS Naturals, Sequences, FiniteSets

CONSTANTS Gids,      \* goroutines
          Detached,  \* those spawned without a handle
          Targets,   \* Targets[g]: the goroutines that g may join
          Workers,   \* worker threads
          Pool,      \* threads of the offload pool
          Main,      \* the main thread
          Null,      \* NULL
          MaxDepth,  \* bound: tasks on the stack of a goroutine
          MaxThrows  \* bound: exceptions raised

ASSUME JoinsAssumption ==
    /\ Null \notin Gids /\ Main \notin Workers
    /\ Detached \subseteq Gids /\ Targets \in [Gids -> SUBSET (Gids \ Detached)]
    /\ Gids \cap {"none", "sentinel", "look", "exited"} = {} /\ IsFiniteSet(Pool)
    /\ MaxDepth \in Nat \ {0} /\ MaxThrows \in Nat

\* An exception message: who raised it, and at which depth of its stack.
Messages == Gids \X (1..MaxDepth)
NoMessage == <<Null, 0>>

VARIABLES
    fresh,     \* goroutines not spawned yet
    table,     \* Global::goroutines
    done,      \* Goroutine::done
    depth,     \* the length of Goroutine::tasks
    handle,    \* goroutines whose wrapper is in the registry
    joiners,   \* Goroutine::joiners
    exc,       \* Goroutine::pending_exception
    runnable,  \* the run queues
    worker,    \* what each worker drives: goroutine, stack, wait target
    tls,       \* PENDING_EXCEPTION of each thread
    op,        \* Global::ops: the job of each goroutine
    waiter,    \* jobs whose AsyncOp::waiter is set
    future,    \* Handle::AsyncOp, the future of the job
    jobs,      \* the queue of the offload pool
    pool,      \* what each thread of the pool does
    result,    \* who owns the result of the job
    released,  \* messages whose handle was released
    raised,    \* messages raised so far
    unseen,    \* those that did not end their goroutine
    phase      \* how far shutdown is

goVars == <<fresh, table, done, depth, handle, joiners, exc, runnable>>
opVars == <<op, waiter, future, jobs, pool, result>>
logVars == <<released, raised, unseen>>
vars == <<goVars, worker, tls, opVars, logVars, phase>>

Idle == [g |-> Null, d |-> 0, park |-> "poll", target |-> Null]
NoJob == "none"
Sentinel == "sentinel"

Init ==
    /\ fresh = Gids /\ table = {} /\ done = {} /\ runnable = {} /\ handle = {}
    /\ depth = [g \in Gids |-> 0]
    /\ joiners = [g \in Gids |-> {}] /\ exc = [g \in Gids |-> NoMessage]
    /\ worker = [w \in Workers |-> Idle]
    /\ tls = [t \in Workers \cup {Main} |-> NoMessage]
    /\ op = [g \in Gids |-> "none"] /\ waiter = {}
    /\ future = [g \in Gids |-> "none"] /\ result = [g \in Gids |-> "none"]
    /\ jobs = <<>> /\ pool = [t \in Pool |-> NoJob]
    /\ released = {} /\ raised = {} /\ unseen = {} /\ phase = "up"

-----------------------------------------------------------------------------
(* Spawn, and the poll of a goroutine.                                      *)

\* spawn_goroutine and ntask_go_detached.
Spawn(g) ==
    /\ phase = "up" /\ g \in fresh
    /\ fresh' = fresh \ {g} /\ table' = table \cup {g} /\ runnable' = runnable \cup {g}
    /\ depth' = [depth EXCEPT ![g] = 1]
    /\ handle' = handle \cup ({g} \ Detached)
    /\ UNCHANGED <<done, joiners, exc, worker, tls, opVars, logVars, phase>>

\* drive takes the tasks of a goroutine, unless it was dropped.
Load(w, g) ==
    /\ phase = "up" /\ worker[w] = Idle /\ g \in runnable
    /\ runnable' = runnable \ {g}
    /\ IF g \in table
       THEN /\ worker' = [worker EXCEPT ![w] =
                           [g |-> g, d |-> depth[g], park |-> "poll", target |-> Null]]
            /\ depth' = [depth EXCEPT ![g] = 0]
       ELSE UNCHANGED <<worker, depth>>
    /\ UNCHANGED <<fresh, table, done, handle, joiners, exc, tls, opVars, logVars, phase>>

Polling(w) == worker[w].g # Null /\ worker[w].park = "poll"

\* A task of the program is polled, not the future of a job, and it has taken
\* the result of the job it awaited.
Acting(w) == Polling(w) /\ future[worker[w].g] \in {"none", "gone"}

\* The poll ends with d tasks and a wait target.
Return(w, d, park, target) ==
    worker' = [worker EXCEPT ![w] = [g |-> @.g, d |-> d, park |-> park, target |-> target]]

\* poll_async_tasks_once: a task that is done is popped.
Popped(d) == d - 1

\* Pending without a wait target, with or without a new child.
Yield(w) ==
    /\ Acting(w)
    /\ \E d \in {worker[w].d, worker[w].d + 1} : d <= MaxDepth /\ Return(w, d, "none", Null)
    /\ UNCHANGED <<goVars, tls, opVars, logVars, phase>>

Finish(w) ==
    /\ Acting(w) /\ Return(w, Popped(worker[w].d), "none", Null)
    /\ UNCHANGED <<goVars, tls, opVars, logVars, phase>>

\* ntsc_throw: the message replaces what is in the slot of the thread.
Raise(w, m) ==
    /\ Acting(w) /\ m = <<worker[w].g, worker[w].d>>
    /\ m \notin raised /\ Cardinality(raised) < MaxThrows
    /\ tls' = [tls EXCEPT ![w] = m] /\ raised' = raised \cup {m}

\* An exception ends the task.  Async code never looks at the slot: the task
\* below goes on, and so does a task that called a function which threw.
Throw(w, m) ==
    /\ Raise(w, m) /\ unseen' = IF worker[w].d = 1 THEN unseen ELSE unseen \cup {m}
    /\ Return(w, Popped(worker[w].d), "none", Null)
    /\ UNCHANGED <<goVars, opVars, released, phase>>
ThrowUnseen(w, m) ==
    /\ Raise(w, m) /\ unseen' = unseen \cup {m}
    /\ UNCHANGED <<goVars, worker, opVars, released, phase>>

\* ntask_join_park
JoinPark(w, t) ==
    /\ Acting(w) /\ t \in Targets[worker[w].g] \cap handle
    /\ Return(w, worker[w].d, "join", t)
    /\ UNCHANGED <<goVars, tls, opVars, logVars, phase>>

-----------------------------------------------------------------------------
(* Jobs.                                                                    *)

\* A task awaits a job: the future becomes the topmost task.
AwaitJob(w) ==
    LET g == worker[w].g IN
    /\ Polling(w) /\ future[g] = "none" /\ worker[w].d < MaxDepth
    /\ future' = [future EXCEPT ![g] = "new"]
    /\ Return(w, worker[w].d + 1, "none", Null)
    /\ UNCHANGED <<goVars, tls, op, waiter, jobs, pool, result, logVars, phase>>

\* async_op_poll, first poll: register_op, run_offload, park_op.
StartJob(w) ==
    LET g == worker[w].g IN
    /\ Polling(w) /\ future[g] = "new"
    /\ future' = [future EXCEPT ![g] = "started"]
    /\ op' = [op EXCEPT ![g] = "open"] /\ jobs' = Append(jobs, g)
    /\ Return(w, worker[w].d, "job", Null)
    /\ UNCHANGED <<goVars, tls, waiter, pool, result, logVars, phase>>

\* op_done
OpDone(g) == op[g] = "done"

\* async_op_poll, later polls: op_result, or park_op again.
PollJob(w) ==
    LET g == worker[w].g IN
    /\ Polling(w) /\ future[g] = "started"
    /\ IF OpDone(g)
       THEN /\ op' = [op EXCEPT ![g] = "none"] /\ future' = [future EXCEPT ![g] = "ready"]
            /\ result' = [result EXCEPT ![g] = IF @ = "op" THEN "future" ELSE @]
            /\ Return(w, Popped(worker[w].d), "none", Null)
       ELSE Return(w, worker[w].d, "job", Null) /\ UNCHANGED <<op, result, future>>
    /\ UNCHANGED <<goVars, tls, waiter, jobs, pool, logVars, phase>>

\* async_op_result, async_op_drop: the awaiting task takes the result.
Reap(w) ==
    LET g == worker[w].g IN
    /\ Polling(w) /\ future[g] = "ready"
    /\ future' = [future EXCEPT ![g] = "gone"]
    /\ result' = [result EXCEPT ![g] = IF @ = "future" THEN "task" ELSE @]
    /\ UNCHANGED <<goVars, worker, tls, op, waiter, jobs, pool, logVars, phase>>

\* offload_worker: recv
TakeJob(t) ==
    /\ pool[t] = NoJob /\ jobs # <<>>
    /\ pool' = [pool EXCEPT ![t] = Head(jobs)] /\ jobs' = Tail(jobs)
    /\ UNCHANGED <<goVars, worker, tls, op, waiter, future, result, logVars, phase>>

\* Mutant: complete_op leaves the waiter in the op.
RunJobKept(t) ==
    /\ pool[t] \in Gids /\ op[pool[t]] = "open"
    /\ pool' = [pool EXCEPT ![t] = "look"]
    /\ result' = [result EXCEPT ![pool[t]] = "op"] /\ op' = [op EXCEPT ![pool[t]] = "done"]
    /\ runnable' = runnable \cup (waiter \cap {pool[t]})
    /\ UNCHANGED <<fresh, table, done, depth, handle, joiners, exc, worker, tls, waiter, future,
                   jobs, logVars, phase>>

\* The job ends with complete_op.  Nobody hears of it when the op was dropped.
RunJob(t) ==
    LET g == pool[t] IN
    /\ pool[t] \in Gids
    /\ pool' = [pool EXCEPT ![t] = "look"]
    /\ IF op[g] = "none"
       THEN result' = [result EXCEPT ![g] = "lost"] /\ UNCHANGED <<op, waiter, runnable>>
       ELSE /\ result' = [result EXCEPT ![g] = "op"] /\ op' = [op EXCEPT ![g] = "done"]
            /\ waiter' = waiter \ {g} /\ runnable' = runnable \cup (waiter \cap {g})
    /\ UNCHANGED <<fresh, table, done, depth, handle, joiners, exc, worker, tls, future, jobs,
                   logVars, phase>>

\* OFFLOAD_STOP
Stopped == phase = "offload"

LookAtStop(t) ==
    /\ pool[t] \in {"look", Sentinel}
    /\ pool' = [pool EXCEPT ![t] = IF Stopped THEN "exited" ELSE NoJob]
    /\ UNCHANGED <<goVars, worker, tls, op, waiter, future, jobs, result, logVars, phase>>

-----------------------------------------------------------------------------
(* The end of drive: one critical section.                                  *)

\* What drive does with a goroutine that returned from its poll.
Flush(w) == worker[w].g # Null /\ worker[w].park # "poll" /\ worker' = [worker EXCEPT ![w] = Idle]

\* It was dropped meanwhile.
FlushGone(w) ==
    /\ Flush(w) /\ worker[w].g \notin table
    /\ UNCHANGED <<goVars, tls, opVars, logVars, phase>>

\* Mutant: what a goroutine waits for is not looked at again.
WaitsBlindly(w) == worker[w].park \in {"job", "join"}

\* Its wait is not over yet: Park::Job and join_park.
Waits(w) ==
    \/ worker[w].park = "job" /\ op[worker[w].g] = "open"
    \/ worker[w].park = "join" /\ worker[w].target \in table \ done

FlushRequeue(w) ==
    LET g == worker[w].g IN
    /\ Flush(w) /\ g \in table /\ worker[w].d > 0 /\ ~Waits(w)
    /\ depth' = [depth EXCEPT ![g] = worker[w].d] /\ runnable' = runnable \cup {g}
    /\ UNCHANGED <<fresh, table, done, handle, joiners, exc, tls, opVars, logVars, phase>>

FlushWait(w) ==
    LET g == worker[w].g IN
    /\ Flush(w) /\ g \in table /\ worker[w].d > 0 /\ Waits(w)
    /\ depth' = [depth EXCEPT ![g] = worker[w].d]
    /\ waiter' = IF worker[w].park = "job" THEN waiter \cup {g} ELSE waiter
    /\ joiners' = [t \in Gids |-> IF t = worker[w].target THEN joiners[t] \cup {g} ELSE joiners[t]]
    /\ UNCHANGED <<fresh, table, done, handle, exc, runnable, tls, op, future, jobs, pool, result,
                   logVars, phase>>

\* Mutant: only a goroutine that somebody can join takes its exception.
ThrownIfHandled(w) == IF worker[w].g \in Detached THEN NoMessage ELSE tls[w]

\* take_pending_exception_message
Thrown(w) == tls[w]

\* The goroutine takes the exception in the slot of the thread, its joiners
\* become runnable, and a detached one without either leaves the table.
FlushDone(w) ==
    LET g == worker[w].g
        m == Thrown(w)
        reclaim == g \in Detached /\ m = NoMessage /\ joiners[g] = {}
    IN
    /\ Flush(w) /\ g \in table /\ worker[w].d = 0
    /\ exc' = [exc EXCEPT ![g] = m]
    /\ tls' = IF m = NoMessage THEN tls ELSE [tls EXCEPT ![w] = NoMessage]
    /\ runnable' = runnable \cup joiners[g] /\ joiners' = [joiners EXCEPT ![g] = {}]
    /\ done' = IF reclaim THEN done ELSE done \cup {g}
    /\ table' = IF reclaim THEN table \ {g} ELSE table
    /\ UNCHANGED <<fresh, depth, handle, opVars, logVars, phase>>

-----------------------------------------------------------------------------
(* The main thread: join_blocking, goroutine_drop, shutdown.                *)

\* Mutant: the goroutine keeps the exception that its joiner raises again.
NotTaken(g) == exc

\* std::mem::take(&mut gr.pending_exception)
Taken(g) == [exc EXCEPT ![g] = NoMessage]

\* join_blocking returns, and ntsc_throw raises the exception again.
Join(g) ==
    /\ phase = "up" /\ g \in handle \cap done /\ tls[Main] = NoMessage
    /\ tls' = [tls EXCEPT ![Main] = exc[g]] /\ exc' = Taken(g)
    /\ UNCHANGED <<fresh, table, done, depth, handle, joiners, runnable, worker, opVars,
                   logVars, phase>>

\* ntsc_exception_clear, or a handler that drops the message.
Catch ==
    /\ tls[Main] # NoMessage
    /\ released' = released \cup {tls[Main]} /\ tls' = [tls EXCEPT ![Main] = NoMessage]
    /\ UNCHANGED <<goVars, worker, opVars, raised, unseen, phase>>

\* async_op_drop of the futures of gs: drop_op, unless the table of ops was
\* cleared before.  "A completed result handle is left for the caller to reap."
DropFutures(gs, cleared) ==
    /\ future' = [g \in Gids |-> IF g \in gs /\ future[g] # "none" THEN "gone" ELSE future[g]]
    /\ op' = [g \in Gids |-> IF cleared \/ g \in gs THEN "none" ELSE op[g]]
    /\ result' = [g \in Gids |->
            CASE g \in gs /\ result[g] = "op" /\ ~cleared -> "released"
              [] cleared /\ result[g] = "op" -> "lost"
              [] g \in gs /\ result[g] = "future" -> "lost"
              [] OTHER -> result[g]]

\* goroutine_drop, by a program that does not drop a goroutine others have
\* joined (they would wait for good), nor one in the middle of a poll (see
\* Channels) or after its last (the future is gone by then).
DropHandle(g) ==
    /\ phase = "up" /\ g \in handle /\ joiners[g] = {}
    /\ \A w \in Workers : worker[w].g = g => worker[w].park # "poll" /\ worker[w].d > 0
    /\ handle' = handle \ {g} /\ table' = table \ {g} /\ done' = done \ {g}
    /\ depth' = [depth EXCEPT ![g] = 0]
    /\ released' = released \cup ({exc[g]} \ {NoMessage})
    /\ exc' = [exc EXCEPT ![g] = NoMessage]
    /\ DropFutures({g} \ done, FALSE) /\ waiter' = waiter \ {g}
    /\ UNCHANGED <<fresh, joiners, runnable, worker, tls, jobs, pool, raised, unseen, phase>>

\* SHUTDOWN is set: the workers finish what they drive.
Shutdown ==
    /\ phase = "up" /\ phase' = "workers"
    /\ UNCHANGED <<goVars, worker, tls, opVars, logVars>>

\* Mutant: the threads of the pool are not woken.
NoSentinel == 0

Sentinels == Cardinality(Pool)

\* The workers are joined.  OFFLOAD_STOP, and a sentinel for each thread.
StopPool ==
    /\ phase = "workers" /\ \A w \in Workers : worker[w] = Idle
    /\ phase' = "offload" /\ jobs' = jobs \o [i \in 1..Sentinels |-> Sentinel]
    /\ UNCHANGED <<goVars, worker, tls, op, waiter, future, pool, result, logVars>>

\* The pool is joined, the tables are cleared, and what the goroutines still
\* own is released.
Reclaim ==
    /\ phase = "offload" /\ \A t \in Pool : pool[t] = "exited"
    /\ phase' = "down" /\ jobs' = <<>>
    /\ table' = {} /\ done' = {} /\ runnable' = {} /\ waiter' = {} /\ handle' = handle \ table
    /\ depth' = [g \in Gids |-> 0] /\ joiners' = [g \in Gids |-> {}]
    /\ released' = released \cup ({exc[g] : g \in table} \ {NoMessage})
    /\ exc' = [g \in Gids |-> NoMessage]
    /\ DropFutures(table \ done, TRUE)
    /\ UNCHANGED <<fresh, worker, tls, pool, raised, unseen>>

-----------------------------------------------------------------------------

Poll(w) ==
    \/ Yield(w) \/ Finish(w) \/ (\E t \in Gids : JoinPark(w, t))
    \/ (\E m \in Messages : Throw(w, m) \/ ThrowUnseen(w, m))
    \/ AwaitJob(w) \/ StartJob(w) \/ PollJob(w) \/ Reap(w)
EndPoll(w) == FlushGone(w) \/ FlushRequeue(w) \/ FlushWait(w) \/ FlushDone(w)
Offload(t) == TakeJob(t) \/ RunJob(t) \/ LookAtStop(t)

Next ==
    \/ \E w \in Workers : Poll(w) \/ EndPoll(w) \/ \E g \in Gids : Load(w, g)
    \/ \E t \in Pool : Offload(t)
    \/ \E g \in Gids : Spawn(g) \/ Join(g) \/ DropHandle(g)
    \/ Catch \/ Shutdown \/ StopPool \/ Reclaim

Spec == Init /\ [][Next]_vars

\* Polls and jobs end, and shutdown goes on once it has begun.  That some worker
\* and some thread of the pool make progress is enough.
Fairness ==
    /\ WF_vars(\E w \in Workers : Poll(w) \/ EndPoll(w))
    /\ WF_vars(\E t \in Pool : Offload(t))
    /\ WF_vars(StopPool \/ Reclaim)
LiveSpec == Spec /\ Fairness

-----------------------------------------------------------------------------

Threads == Workers \cup {Main}

\* The state is well formed.
TypeOK ==
    /\ fresh \subseteq Gids /\ table \subseteq Gids /\ done \subseteq Gids
    /\ runnable \subseteq Gids /\ handle \subseteq Gids /\ waiter \subseteq Gids
    /\ depth \in [Gids -> 0..MaxDepth] /\ joiners \in [Gids -> SUBSET Gids]
    /\ exc \in [Gids -> Messages \cup {NoMessage}]
    /\ worker \in [Workers -> [g : Gids \cup {Null}, d : 0..MaxDepth,
                               park : {"poll", "none", "job", "join"}, target : Gids \cup {Null}]]
    /\ tls \in [Threads -> Messages \cup {NoMessage}]
    /\ op \in [Gids -> {"none", "open", "done"}]
    /\ future \in [Gids -> {"none", "new", "started", "ready", "gone"}]
    /\ result \in [Gids -> {"none", "op", "future", "task", "released", "lost"}]
    /\ jobs \in Seq(Gids \cup {Sentinel})
    /\ pool \in [Pool -> Gids \cup {NoJob, Sentinel, "look", "exited"}]
    /\ released \subseteq Messages /\ raised \subseteq Messages /\ unseen \subseteq raised
    /\ phase \in {"up", "workers", "offload", "down"}

Driven == {worker[w].g : w \in Workers} \ {Null}
InPool == {jobs[i] : i \in 1..Len(jobs)} \cup {pool[t] : t \in Pool}

\* A goroutine is never forgotten: until it is done or dropped it is runnable,
\* driven, waits for a job that the pool still has, or has joined a goroutine
\* that is going to wake it.
NoneForgotten ==
    \A g \in table \ done :
        \/ g \in runnable \cup Driven
        \/ g \in waiter \cap InPool /\ op[g] = "open"
        \/ \E t \in table \ done : g \in joiners[t]

\* An exception that ends a goroutine is not taken for another's: drive hands
\* it from the slot of the worker to that goroutine before the worker goes on.
ExceptionHome ==
    \A g \in Gids : exc[g] \in raised \ unseen => exc[g][1] = g

\* drive: "Capture it so the thread that joins the goroutine can re-raise it".
\* Whatever a goroutine hands to its joiner was raised by that goroutine.
ExceptionsOwn == \A g \in Gids : exc[g] # NoMessage => exc[g][1] = g

\* An exception message never has two owners and is never released under one,
\* as it moves from the slot of a worker to a goroutine, to the thread that
\* joins it, or to a drop or shutdown.  One that ends its goroutine is not lost.
MessageOwned ==
    \A m \in raised :
        LET owners == Cardinality({t \in Threads : tls[t] = m})
                        + Cardinality({g \in table : exc[g] = m})
        IN  /\ owners <= IF m \in released THEN 0 ELSE 1
            /\ owners = 0 => m \in released \cup unseen

\* The result of a job reaches the task that awaits it: only a goroutine that
\* was dropped, or that shutdown abandons, loses one.  A future that is ready
\* has its result, and an op that is done is waited for by nobody.
ResultKept ==
    \A g \in Gids :
        /\ g \in table => result[g] # "lost"
        /\ future[g] = "ready" => result[g] = "future"
        /\ op[g] = "done" => result[g] = "op" /\ g \notin waiter

\* shutdown returns: the workers end their polls, and every thread of the pool
\* gets a job or a sentinel to wake up for, whatever is still in the queue.
ShutdownEnds == (phase = "workers") ~> (phase = "down")
=============================================================================
