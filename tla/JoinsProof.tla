----------------------------- MODULE JoinsProof -----------------------------
(***************************************************************************)
(* The properties of Joins, for any goroutines, workers and offload pool,  *)
(* any depth of stacks and any number of exceptions: where a goroutine is, *)
(* that none is forgotten, that the result of a job reaches its goroutine, *)
(* and that an exception message has one owner.                            *)
(***************************************************************************)
EXTENDS Joins, FiniteSetTheorems, TLAPS

\* Where a goroutine may be: nowhere before it is spawned, and then in one
\* place at a time until it is done.
Places ==
    /\ done \subseteq table /\ handle \subseteq table \ Detached
    /\ fresh \cap (table \cup runnable \cup waiter) = {}
    /\ runnable \cap (waiter \cup done) = {} /\ waiter \cap done = {}
    /\ \A g, t \in Gids : g \in joiners[t] =>
        /\ t \in table \ done
        /\ g \notin fresh \cup runnable \cup waiter \cup done
        /\ \A u \in Gids : g \in joiners[u] => t = u
    /\ \A w \in Workers : worker[w].g # Null =>
        /\ worker[w].g \notin fresh \cup runnable \cup waiter \cup done
        /\ \A t \in Gids : worker[w].g \notin joiners[t]
        /\ \A v \in Workers : worker[v].g = worker[w].g => v = w
        /\ worker[w].park = "poll" \/ worker[w].d = 0 => worker[w].g \in table

\* A goroutine that is neither done nor dropped is in one of those places.
Somewhere ==
    \A g \in table \ done :
        \/ g \in runnable \cup waiter \/ \E w \in Workers : worker[w].g = g
        \/ \E t \in Gids : g \in joiners[t]

\* A goroutine that is to be polled has tasks, and the workers are idle before
\* the pool is stopped.
Stacks ==
    /\ \A g \in table \ done : depth[g] > 0 \/ \E w \in Workers : worker[w].g = g
    /\ \A w \in Workers :
        /\ worker[w].park # "join" => worker[w].target = Null
        /\ worker[w].g = Null => worker[w] = Idle
        /\ Polling(w) => worker[w].d > 0
        /\ phase \in {"offload", "down"} => worker[w].g = Null

Where == TypeOK /\ Places /\ Somewhere /\ Stacks
-----------------------------------------------------------------------------
\* A poll of worker w ends: it still has its goroutine, and a wait target or none.
Polled(w) ==
    /\ Polling(w) /\ worker'[w].g = worker[w].g /\ worker'[w].park # "poll"
    /\ worker'[w].park # "join" => worker'[w].target = Null
    /\ \A v \in Workers : v # w => worker'[v] = worker[v]

\* The start of the program: nothing is spawned.
LEMMA InitWhere == Init => Where
<1> SUFFICES ASSUME Init PROVE Where
    BY Zenon
<1>1. TypeOK
    BY JoinsAssumption DEF Init, TypeOK, Idle, NoJob, Threads
<1>2. Places /\ Somewhere /\ Stacks
    BY Zenon DEF Init, Places, Somewhere, Stacks, Idle, Polling
<1> QED
    BY Zenon, <1>1, <1>2 DEF Where

\* Every action keeps the types; a pop needs a task on the stack.
LEMMA TypeStep ==
    ASSUME TypeOK, Stacks, [Next]_vars
    PROVE  TypeOK'
<1>0. CASE UNCHANGED vars
    BY Zenon, <1>0 DEF vars, goVars, opVars, logVars, TypeOK
<1>1. ASSUME NEW w \in Workers, Yield(w) PROVE TypeOK'
  <2>1. worker' \in [Workers -> [g : Gids \cup {Null}, d : 0..MaxDepth,
                             park : {"poll", "none", "job", "join"}, target : Gids \cup {Null}]]
      BY <1>1, JoinsAssumption DEF Yield, Acting, Polling, Return, Popped, Stacks, Raise, TypeOK
  <2> QED
      BY Zenon, <1>1, <2>1 DEF Yield, Raise, goVars, opVars, logVars, TypeOK
<1>2. ASSUME NEW w \in Workers, Finish(w) PROVE TypeOK'
  <2>1. worker' \in [Workers -> [g : Gids \cup {Null}, d : 0..MaxDepth,
                             park : {"poll", "none", "job", "join"}, target : Gids \cup {Null}]]
      BY <1>2, JoinsAssumption DEF Finish, Acting, Polling, Return, Popped, Stacks, Raise, TypeOK
  <2> QED
      BY Zenon, <1>2, <2>1 DEF Finish, Raise, goVars, opVars, logVars, TypeOK
<1>3. ASSUME NEW w \in Workers, NEW t \in Gids, JoinPark(w, t) PROVE TypeOK'
  <2>1. worker' \in [Workers -> [g : Gids \cup {Null}, d : 0..MaxDepth,
                             park : {"poll", "none", "job", "join"}, target : Gids \cup {Null}]]
      BY <1>3, JoinsAssumption DEF JoinPark, Acting, Polling, Return, Popped, Stacks, Raise, TypeOK
  <2> QED
      BY Zenon, <1>3, <2>1 DEF JoinPark, Raise, goVars, opVars, logVars, TypeOK
<1>4. ASSUME NEW w \in Workers, NEW m \in Messages, Throw(w, m) PROVE TypeOK'
  <2>1. worker' \in [Workers -> [g : Gids \cup {Null}, d : 0..MaxDepth,
                             park : {"poll", "none", "job", "join"}, target : Gids \cup {Null}]]
      BY <1>4, JoinsAssumption DEF Throw, Acting, Polling, Return, Popped, Stacks, Raise, TypeOK
  <2> QED
      BY Zenon, <1>4, <2>1 DEF Throw, Raise, goVars, opVars, logVars, TypeOK
<1>5. ASSUME NEW w \in Workers, NEW m \in Messages, ThrowUnseen(w, m) PROVE TypeOK'
    BY Zenon, <1>5, JoinsAssumption DEF ThrowUnseen, Raise, goVars, opVars, logVars, TypeOK
<1>6. ASSUME NEW w \in Workers, AwaitJob(w) PROVE TypeOK'
  <2>1. worker' \in [Workers -> [g : Gids \cup {Null}, d : 0..MaxDepth,
                             park : {"poll", "none", "job", "join"}, target : Gids \cup {Null}]]
      BY <1>6, JoinsAssumption DEF AwaitJob, Acting, Polling, Return, Popped, Stacks, Raise, TypeOK
  <2> QED
      BY Zenon, <1>6, <2>1 DEF AwaitJob, Raise, goVars, opVars, logVars, TypeOK
<1>7. ASSUME NEW w \in Workers, StartJob(w) PROVE TypeOK'
  <2>1. worker[w].g \in Gids /\ worker[w].d \in 0..MaxDepth
      BY Zenon, <1>7 DEF StartJob, Polling, TypeOK
  <2>2. worker' \in [Workers -> [g : Gids \cup {Null}, d : 0..MaxDepth,
                             park : {"poll", "none", "job", "join"}, target : Gids \cup {Null}]]
      BY Zenon, <1>7, <2>1 DEF StartJob, Return, TypeOK
  <2>3. jobs' \in Seq(Gids \cup {Sentinel}) /\ op' \in [Gids -> {"none", "open", "done"}]
      BY <1>7, <2>1 DEF StartJob, TypeOK
  <2> QED
      BY Zenon, <1>7, <2>1, <2>2, <2>3 DEF StartJob, goVars, logVars, TypeOK
<1>8. ASSUME NEW w \in Workers, PollJob(w) PROVE TypeOK'
  <2>1. worker[w].g \in Gids /\ worker[w].d \in 1..MaxDepth
      BY <1>8, JoinsAssumption DEF PollJob, Polling, Stacks, TypeOK
  <2>2. /\ worker' = [worker EXCEPT ![w] = worker'[w]]
        /\ worker'[w] \in [g : Gids \cup {Null}, d : 0..MaxDepth,
                           park : {"poll", "none", "job", "join"}, target : Gids \cup {Null}]
    <3>1. \E d \in 0..MaxDepth, p \in {"none", "job"} : Return(w, d, p, Null)
        BY <1>8, <2>1, JoinsAssumption DEF PollJob, Popped
    <3> QED
        BY <2>1, <3>1 DEF Return, TypeOK
  <2>3. /\ op' \in [Gids -> {"none", "open", "done"}]
        /\ future' \in [Gids -> {"none", "new", "started", "ready", "gone"}]
        /\ result' \in [Gids -> {"none", "op", "future", "task", "released", "lost"}]
    <3>1. CASE OpDone(worker[w].g)
      <4>1. /\ op' = [op EXCEPT ![worker[w].g] = "none"]
            /\ future' = [future EXCEPT ![worker[w].g] = "ready"]
            /\ result' = [result EXCEPT ![worker[w].g] =
                             IF result[worker[w].g] = "op" THEN "future" ELSE result[worker[w].g]]
          BY Zenon, <1>8, <3>1 DEF PollJob
      <4> QED
          BY Zenon, <2>1, <4>1 DEF TypeOK
    <3>2. CASE ~OpDone(worker[w].g)
        BY ZenonT(60), <1>8, <3>2 DEF PollJob, TypeOK
    <3> QED
        BY Zenon, <3>1, <3>2
  <2> QED
      BY ZenonT(40), <1>8, <2>2, <2>3 DEF PollJob, goVars, logVars, TypeOK
<1>9. ASSUME NEW w \in Workers, Reap(w) PROVE TypeOK'
    BY Zenon, <1>9, JoinsAssumption DEF Reap, goVars, opVars, logVars, TypeOK
<1>10. ASSUME NEW w \in Workers, FlushGone(w) PROVE TypeOK'
    BY <1>10, JoinsAssumption DEF FlushGone, Flush, Idle, goVars, opVars, logVars, TypeOK
<1>11. ASSUME NEW w \in Workers, FlushRequeue(w) PROVE TypeOK'
    BY <1>11, JoinsAssumption DEF FlushRequeue, Flush, Idle, goVars, opVars, logVars, TypeOK
<1>12. ASSUME NEW w \in Workers, FlushWait(w) PROVE TypeOK'
    BY <1>12, JoinsAssumption DEF FlushWait, Flush, Idle, goVars, opVars, logVars, TypeOK
<1>13. ASSUME NEW w \in Workers, FlushDone(w) PROVE TypeOK'
    BY <1>13, JoinsAssumption DEF FlushDone, Flush, Idle, Thrown, Threads, goVars, opVars, logVars, TypeOK
<1>14. ASSUME NEW w \in Workers, NEW g \in Gids, Load(w, g) PROVE TypeOK'
  <2>1. CASE g \in table
    <3>1. [g |-> g, d |-> depth[g], park |-> "poll", target |-> Null] \in
              [g : Gids \cup {Null}, d : 0..MaxDepth,
               park : {"poll", "none", "job", "join"}, target : Gids \cup {Null}]
        BY Zenon DEF TypeOK
    <3>2. depth' \in [Gids -> 0..MaxDepth]
      <4>1. depth' = [depth EXCEPT ![g] = 0] /\ 0 \in 0..MaxDepth
          BY <1>14, <2>1, JoinsAssumption DEF Load
      <4> QED
          BY Zenon, <4>1 DEF TypeOK
    <3> QED
        BY ZenonT(40), <1>14, <2>1, <3>1, <3>2 DEF Load, opVars, logVars, TypeOK
  <2>2. CASE g \notin table
      BY Zenon, <1>14, <2>2 DEF Load, opVars, logVars, TypeOK
  <2> QED
      BY Zenon, <2>1, <2>2
<1>15. ASSUME NEW t \in Pool, TakeJob(t) PROVE TypeOK'
    BY <1>15, JoinsAssumption DEF TakeJob, goVars, opVars, logVars, TypeOK
<1>16. ASSUME NEW t \in Pool, RunJob(t) PROVE TypeOK'
  <2>1. CASE op[pool[t]] = "none"
      BY ZenonT(60), <1>16, <2>1 DEF RunJob, logVars, TypeOK
  <2>2. CASE op[pool[t]] # "none"
      BY ZenonT(60), <1>16, <2>2 DEF RunJob, logVars, TypeOK
  <2> QED
      BY Zenon, <2>1, <2>2
<1>17. ASSUME NEW t \in Pool, LookAtStop(t) PROVE TypeOK'
    BY Zenon, <1>17, JoinsAssumption DEF LookAtStop, NoJob, goVars, opVars, logVars, TypeOK
<1>18. ASSUME NEW g \in Gids, Spawn(g) PROVE TypeOK'
    BY <1>18, JoinsAssumption DEF Spawn, goVars, opVars, logVars, TypeOK
<1>19. ASSUME NEW g \in Gids, Join(g) PROVE TypeOK'
    BY Zenon, <1>19, JoinsAssumption DEF Join, Taken, Threads, goVars, opVars, logVars, TypeOK
<1>20. ASSUME NEW g \in Gids, DropHandle(g) PROVE TypeOK'
    BY <1>20, JoinsAssumption DEF DropHandle, DropFutures, goVars, opVars, logVars, TypeOK
<1>21. CASE Catch
    BY ZenonT(60), <1>21, JoinsAssumption DEF Catch, Threads, goVars, opVars, logVars, TypeOK
<1>22. CASE Shutdown
    BY Zenon, <1>22, JoinsAssumption DEF Shutdown, goVars, opVars, logVars, TypeOK
<1>23. CASE StopPool
  <2>1. Sentinels \in Nat
      BY Zenon, JoinsAssumption, FS_CardinalityType DEF Sentinels
  <2>2. [i \in 1..Sentinels |-> Sentinel] \in Seq(Gids \cup {Sentinel})
      BY <2>1
  <2>3. jobs' \in Seq(Gids \cup {Sentinel})
      BY <1>23, <2>2 DEF StopPool, TypeOK
  <2> QED
      BY Zenon, <1>23, <2>3 DEF StopPool, goVars, logVars, TypeOK
<1>24. CASE Reclaim
    BY <1>24, JoinsAssumption DEF Reclaim, DropFutures, goVars, opVars, logVars, TypeOK
<1> QED
    BY ZenonT(60), <1>0, <1>1, <1>2, <1>3, <1>4, <1>5, <1>6, <1>7, <1>8,
       <1>9, <1>10, <1>11, <1>12, <1>13, <1>14, <1>15, <1>16, <1>17,
       <1>18, <1>19, <1>20, <1>21, <1>22, <1>23, <1>24 DEF Next, Poll, EndPoll, Offload

\* A step of one worker or of the pool that moves no goroutine.
LEMMA PlacesKept ==
    ASSUME TypeOK, Places, UNCHANGED <<fresh, table, done, handle, joiners, runnable, waiter>>,
           \A v \in Workers : worker'[v].g = worker[v].g,
           \A v \in Workers : worker'[v] = worker[v] \/ Polling(v)
    PROVE  Places'
<1>1. /\ fresh' = fresh /\ table' = table /\ done' = done /\ handle' = handle
      /\ joiners' = joiners /\ runnable' = runnable /\ waiter' = waiter
    BY Zenon
<1>2. \A v \in Workers : worker'[v].g # Null /\ (worker'[v].park = "poll" \/ worker'[v].d = 0) =>
          worker'[v].g \in table
    BY Zenon DEF Places, Polling
<1> QED
    BY Zenon, <1>1, <1>2 DEF Places

\* Every action moves a goroutine from one place to another, or leaves it.
LEMMA PlacesStep ==
    ASSUME TypeOK, Places, Stacks, [Next]_vars
    PROVE  Places'
<1>0. CASE UNCHANGED vars
    BY Zenon, <1>0, PlacesKept DEF vars, goVars, opVars
<1>1. ASSUME NEW w \in Workers, Yield(w) PROVE Places'
  <2>1. Polled(w)
      BY <1>1 DEF Yield, Polled, Return, TypeOK, Acting
  <2>2. UNCHANGED <<fresh, table, done, handle, joiners, runnable, waiter>>
      BY Zenon, <1>1 DEF Yield, goVars, opVars
  <2> QED
      BY Zenon, <2>1, <2>2, PlacesKept DEF Polled
<1>2. ASSUME NEW w \in Workers, Finish(w) PROVE Places'
  <2>1. Polled(w)
      BY Zenon, <1>2 DEF Finish, Polled, Return, TypeOK, Acting
  <2>2. UNCHANGED <<fresh, table, done, handle, joiners, runnable, waiter>>
      BY Zenon, <1>2 DEF Finish, goVars, opVars
  <2> QED
      BY <2>1, <2>2, PlacesKept DEF Polled
<1>3. ASSUME NEW w \in Workers, NEW t \in Gids, JoinPark(w, t) PROVE Places'
  <2>1. Polled(w)
      BY Zenon, <1>3 DEF JoinPark, Polled, Return, TypeOK, Acting
  <2>2. UNCHANGED <<fresh, table, done, handle, joiners, runnable, waiter>>
      BY Zenon, <1>3 DEF JoinPark, goVars, opVars
  <2> QED
      BY Zenon, <2>1, <2>2, PlacesKept DEF Polled
<1>4. ASSUME NEW w \in Workers, NEW m \in Messages, Throw(w, m) PROVE Places'
  <2>1. Polled(w)
      BY Zenon, <1>4 DEF Throw, Polled, Return, TypeOK, Raise, Acting
  <2>2. UNCHANGED <<fresh, table, done, handle, joiners, runnable, waiter>>
      BY Zenon, <1>4 DEF Throw, goVars, opVars
  <2> QED
      BY Zenon, <2>1, <2>2, PlacesKept DEF Polled
<1>5. ASSUME NEW w \in Workers, NEW m \in Messages, ThrowUnseen(w, m) PROVE Places'
    BY Zenon, <1>5, PlacesKept DEF ThrowUnseen, goVars, opVars
<1>6. ASSUME NEW w \in Workers, AwaitJob(w) PROVE Places'
  <2>1. Polled(w)
      BY Zenon, <1>6 DEF AwaitJob, Polled, Return, TypeOK, Polling
  <2>2. UNCHANGED <<fresh, table, done, handle, joiners, runnable, waiter>>
      BY Zenon, <1>6 DEF AwaitJob, goVars, opVars
  <2> QED
      BY <2>1, <2>2, PlacesKept DEF Polled
<1>7. ASSUME NEW w \in Workers, StartJob(w) PROVE Places'
  <2>1. Polled(w)
      BY Zenon, <1>7 DEF StartJob, Polled, Return, TypeOK, Polling
  <2>2. UNCHANGED <<fresh, table, done, handle, joiners, runnable, waiter>>
      BY Zenon, <1>7 DEF StartJob, goVars, opVars
  <2> QED
      BY <2>1, <2>2, PlacesKept DEF Polled
<1>8. ASSUME NEW w \in Workers, PollJob(w) PROVE Places'
  <2>1. Polled(w)
      BY <1>8 DEF PollJob, Polled, Return, TypeOK, Polling
  <2>2. UNCHANGED <<fresh, table, done, handle, joiners, runnable, waiter>>
      BY Zenon, <1>8 DEF PollJob, goVars, opVars
  <2> QED
      BY <2>1, <2>2, PlacesKept DEF Polled
<1>9. ASSUME NEW w \in Workers, Reap(w) PROVE Places'
    BY Zenon, <1>9, PlacesKept DEF Reap, goVars
<1>10. ASSUME NEW w \in Workers, FlushGone(w) PROVE Places'
    BY ZenonT(60), <1>10 DEF FlushGone, goVars, opVars, Places, Flush, Idle, TypeOK
<1>11. ASSUME NEW w \in Workers, FlushRequeue(w) PROVE Places'
    BY SMTT(30), Z3T(30), <1>11 DEF FlushRequeue, opVars, Places, Flush, Idle, TypeOK
<1>12. ASSUME NEW w \in Workers, FlushWait(w) PROVE Places'
  <2> DEFINE h == worker[w].g
             x == worker[w].target
  <2>1. /\ h \in Gids /\ h # Null /\ h \in table /\ worker'[w] = Idle
        /\ \A v \in Workers : v # w => worker'[v] = worker[v]
        /\ fresh' = fresh /\ table' = table /\ done' = done /\ handle' = handle
        /\ runnable' = runnable
      BY Zenon, <1>12 DEF FlushWait, Flush, TypeOK
  <2>2. CASE worker[w].park = "job"
    <3>1. joiners' = joiners /\ waiter' = waiter \cup {h}
        BY SMTT(30), Z3T(30), <1>12, <2>2, JoinsAssumption DEF FlushWait, Stacks, TypeOK
    <3> QED
        BY SMTT(30), Z3T(30), <2>1, <3>1 DEF Places, Idle
  <2>3. CASE worker[w].park = "join"
    <3>1. waiter' = waiter /\ x \in table \ done /\ x \in Gids /\ h \notin done
        BY Zenon, <1>12, <2>1, <2>3 DEF FlushWait, Waits, Places, TypeOK
    <3>2. \A g, k \in Gids : k \in joiners'[g] <=> k \in joiners[g] \/ (g = x /\ k = h)
        BY Zenon, <1>12, <2>1 DEF FlushWait
    <3>3. h \notin fresh \cup runnable \cup waiter \cup done /\ \A g \in Gids : h \notin joiners[g]
        BY Zenon, <2>1 DEF Places
    <3>4. \A g, y \in Gids : g \in joiners'[y] =>
            /\ y \in table \ done
            /\ g \notin fresh \cup runnable \cup waiter \cup done
            /\ \A u \in Gids : g \in joiners'[u] => y = u
        BY SMTT(30), Z3T(30), <3>1, <3>2, <3>3 DEF Places
    <3>5. \A v \in Workers : worker'[v].g # Null =>
              worker'[v] = worker[v] /\ worker[v].g \in Gids /\ worker[v].g # h
        BY SMTT(30), Z3T(30), <2>1 DEF Places, Idle, TypeOK
    <3>6. \A v \in Workers : worker'[v].g # Null =>
              worker'[v].g \in Gids /\ \A y \in Gids : worker'[v].g \notin joiners'[y]
        BY SMTT(30), Z3T(30), <3>2, <3>5 DEF Places
    <3> QED
        BY SMTT(30), Z3T(30), <2>1, <3>1, <3>4, <3>5, <3>6 DEF Places
  <2> QED
      BY Zenon, <1>12, <2>2, <2>3 DEF FlushWait, Waits
<1>13. ASSUME NEW w \in Workers, FlushDone(w) PROVE Places'
    BY SMTT(30), Z3T(30), <1>13 DEF FlushDone, opVars, Places, Flush, Idle, TypeOK
<1>14. ASSUME NEW w \in Workers, NEW g \in Gids, Load(w, g) PROVE Places'
  <2>1. /\ fresh' = fresh /\ table' = table /\ done' = done /\ handle' = handle
        /\ joiners' = joiners /\ waiter' = waiter /\ runnable' = runnable \ {g}
        /\ g \in runnable /\ worker[w] = Idle
      BY Zenon, <1>14 DEF Load, opVars
  <2>2. CASE g \in table
    <3>1. worker'[w].g = g /\ \A v \in Workers : v # w => worker'[v] = worker[v]
        BY <1>14, <2>2 DEF Load, TypeOK
    <3> QED
        BY SMTT(30), Z3T(30), <2>1, <2>2, <3>1 DEF Places, Idle
  <2>3. CASE g \notin table
    <3>1. worker' = worker
        BY Zenon, <1>14, <2>3 DEF Load
    <3> QED
        BY Zenon, <2>1, <3>1 DEF Places
  <2> QED
      BY Zenon, <2>2, <2>3
<1>15. ASSUME NEW t \in Pool, TakeJob(t) PROVE Places'
    BY Zenon, <1>15, PlacesKept DEF TakeJob, goVars
<1>16. ASSUME NEW t \in Pool, RunJob(t) PROVE Places'
    BY SMTT(30), Z3T(30), <1>16 DEF RunJob, Places, TypeOK
<1>17. ASSUME NEW t \in Pool, LookAtStop(t) PROVE Places'
    BY Zenon, <1>17, PlacesKept DEF LookAtStop, goVars
<1>18. ASSUME NEW g \in Gids, Spawn(g) PROVE Places'
    BY <1>18 DEF Spawn, opVars, Places, TypeOK
<1>19. ASSUME NEW g \in Gids, Join(g) PROVE Places'
    BY Zenon, <1>19, PlacesKept DEF Join, opVars
<1>20. ASSUME NEW g \in Gids, DropHandle(g) PROVE Places'
    BY <1>20 DEF DropHandle, Places, TypeOK
<1>21. CASE Catch
    BY Zenon, <1>21, PlacesKept DEF Catch, goVars, opVars
<1>22. CASE Shutdown
    BY Zenon, <1>22, PlacesKept DEF Shutdown, goVars, opVars
<1>23. CASE StopPool
    BY Zenon, <1>23, PlacesKept DEF StopPool, goVars
<1>24. CASE Reclaim
    BY Zenon, <1>24 DEF Reclaim, Places, Stacks
<1> QED
    BY ZenonT(60), <1>0, <1>1, <1>2, <1>3, <1>4, <1>5, <1>6, <1>7, <1>8,
       <1>9, <1>10, <1>11, <1>12, <1>13, <1>14, <1>15, <1>16, <1>17,
       <1>18, <1>19, <1>20, <1>21, <1>22, <1>23, <1>24 DEF Next, Poll, EndPoll, Offload

\* A step that takes no goroutine out of its place.
LEMMA SomewhereKept ==
    ASSUME Somewhere, table' \ done' \subseteq table \ done, runnable \subseteq runnable',
           waiter \subseteq waiter', joiners' = joiners,
           \A v \in Workers : worker'[v].g = worker[v].g
    PROVE  Somewhere'
    BY Zenon DEF Somewhere

\* An action that takes a goroutine out of a place puts it into the next one.
LEMMA SomewhereStep ==
    ASSUME TypeOK, Somewhere, [Next]_vars
    PROVE  Somewhere'
<1>0. CASE UNCHANGED vars
    BY Zenon, <1>0, SomewhereKept DEF vars, goVars, opVars
<1>1. ASSUME NEW w \in Workers, Yield(w) PROVE Somewhere'
  <2>1. UNCHANGED <<table, done, runnable, waiter, joiners>>
      BY Zenon, <1>1 DEF Yield, goVars, opVars
  <2>2. \A v \in Workers : worker'[v].g = worker[v].g
      BY <1>1 DEF Yield, Return, TypeOK
  <2> QED
      BY Zenon, <2>1, <2>2, SomewhereKept
<1>2. ASSUME NEW w \in Workers, Finish(w) PROVE Somewhere'
  <2>1. UNCHANGED <<table, done, runnable, waiter, joiners>>
      BY Zenon, <1>2 DEF Finish, goVars, opVars
  <2>2. \A v \in Workers : worker'[v].g = worker[v].g
      BY Zenon, <1>2 DEF Finish, Return, TypeOK
  <2> QED
      BY <2>1, <2>2, SomewhereKept
<1>3. ASSUME NEW w \in Workers, NEW t \in Gids, JoinPark(w, t) PROVE Somewhere'
  <2>1. UNCHANGED <<table, done, runnable, waiter, joiners>>
      BY Zenon, <1>3 DEF JoinPark, goVars, opVars
  <2>2. \A v \in Workers : worker'[v].g = worker[v].g
      BY Zenon, <1>3 DEF JoinPark, Return, TypeOK
  <2> QED
      BY Zenon, <2>1, <2>2, SomewhereKept
<1>4. ASSUME NEW w \in Workers, NEW m \in Messages, Throw(w, m) PROVE Somewhere'
  <2>1. UNCHANGED <<table, done, runnable, waiter, joiners>>
      BY Zenon, <1>4 DEF Throw, goVars, opVars
  <2>2. \A v \in Workers : worker'[v].g = worker[v].g
      BY Zenon, <1>4 DEF Throw, Return, TypeOK
  <2> QED
      BY Zenon, <2>1, <2>2, SomewhereKept
<1>5. ASSUME NEW w \in Workers, NEW m \in Messages, ThrowUnseen(w, m) PROVE Somewhere'
    BY Zenon, <1>5, SomewhereKept DEF ThrowUnseen, goVars, opVars
<1>6. ASSUME NEW w \in Workers, AwaitJob(w) PROVE Somewhere'
  <2>1. UNCHANGED <<table, done, runnable, waiter, joiners>>
      BY Zenon, <1>6 DEF AwaitJob, goVars, opVars
  <2>2. \A v \in Workers : worker'[v].g = worker[v].g
      BY Zenon, <1>6 DEF AwaitJob, Return, TypeOK
  <2> QED
      BY <2>1, <2>2, SomewhereKept
<1>7. ASSUME NEW w \in Workers, StartJob(w) PROVE Somewhere'
  <2>1. UNCHANGED <<table, done, runnable, waiter, joiners>>
      BY Zenon, <1>7 DEF StartJob, goVars, opVars
  <2>2. \A v \in Workers : worker'[v].g = worker[v].g
      BY Zenon, <1>7 DEF StartJob, Return, TypeOK
  <2> QED
      BY <2>1, <2>2, SomewhereKept
<1>8. ASSUME NEW w \in Workers, PollJob(w) PROVE Somewhere'
  <2>1. UNCHANGED <<table, done, runnable, waiter, joiners>>
      BY Zenon, <1>8 DEF PollJob, goVars, opVars
  <2>2. \E d, p : Return(w, d, p, Null)
      BY Zenon, <1>8 DEF PollJob
  <2>3. \A v \in Workers : worker'[v].g = worker[v].g
      BY SMTT(30), Z3T(30), <2>2 DEF Return, TypeOK
  <2> QED
      BY <2>1, <2>3, SomewhereKept
<1>9. ASSUME NEW w \in Workers, Reap(w) PROVE Somewhere'
    BY Zenon, <1>9, SomewhereKept DEF Reap, goVars
<1>10. ASSUME NEW w \in Workers, FlushGone(w) PROVE Somewhere'
  <2>1. /\ table' = table /\ done' = done /\ runnable' = runnable /\ waiter' = waiter
        /\ joiners' = joiners /\ worker[w].g \notin table
      BY Zenon, <1>10 DEF FlushGone, goVars, opVars
  <2>2. \A v \in Workers : v # w => worker'[v] = worker[v]
      BY Zenon, <1>10 DEF FlushGone, Flush, TypeOK
  <2> QED
      BY ZenonT(60), <2>1, <2>2 DEF Somewhere
<1>11. ASSUME NEW w \in Workers, FlushRequeue(w) PROVE Somewhere'
    BY Zenon, <1>11 DEF FlushRequeue, opVars, Flush, Idle, Somewhere, TypeOK
<1>12. ASSUME NEW w \in Workers, FlushWait(w) PROVE Somewhere'
  <2> DEFINE h == worker[w].g
  <2>1. /\ h \in Gids /\ table' = table /\ done' = done /\ runnable' = runnable
        /\ waiter \subseteq waiter' /\ \A k, t \in Gids : k \in joiners[t] => k \in joiners'[t]
        /\ \A v \in Workers : v # w => worker'[v] = worker[v]
      BY Zenon, <1>12 DEF FlushWait, Flush, TypeOK
  <2>2. h \in waiter' \/ \E t \in Gids : h \in joiners'[t]
      BY Zenon, <1>12, <2>1 DEF FlushWait, Waits, TypeOK
  <2>3. table \subseteq Gids
      BY Zenon DEF TypeOK
  <2> QED
      BY <2>1, <2>2, <2>3 DEF Somewhere
<1>13. ASSUME NEW w \in Workers, FlushDone(w) PROVE Somewhere'
  <2> DEFINE h == worker[w].g
  <2>1. /\ h \in Gids /\ waiter' = waiter /\ \A v \in Workers : v # w => worker'[v] = worker[v]
      BY Zenon, <1>13 DEF FlushDone, Flush, opVars, TypeOK
  <2>2. h \notin table' \ done' /\ table' \ done' \subseteq table \ done
      BY Zenon, <1>13 DEF FlushDone
  <2>3. runnable \subseteq runnable' /\ joiners[h] \subseteq runnable'
        /\ \A t \in Gids : t # h => joiners'[t] = joiners[t]
      BY Zenon, <1>13, <2>1 DEF FlushDone, TypeOK
  <2> QED
      BY Zenon, <2>1, <2>2, <2>3 DEF Somewhere
<1>14. ASSUME NEW w \in Workers, NEW g \in Gids, Load(w, g) PROVE Somewhere'
  <2>1. /\ table' = table /\ done' = done /\ waiter' = waiter /\ joiners' = joiners
        /\ runnable' = runnable \ {g} /\ worker[w].g = Null
        /\ \A v \in Workers : v # w => worker'[v] = worker[v]
        /\ g \in table => worker'[w].g = g
      BY SMTT(30), Z3T(30), <1>14 DEF Load, opVars, Idle, TypeOK
  <2>2. Null \notin table
      BY Zenon, JoinsAssumption DEF TypeOK
  <2> QED
      BY ZenonT(60), <2>1, <2>2 DEF Somewhere
<1>15. ASSUME NEW t \in Pool, TakeJob(t) PROVE Somewhere'
    BY Zenon, <1>15, SomewhereKept DEF TakeJob, goVars
<1>16. ASSUME NEW t \in Pool, RunJob(t) PROVE Somewhere'
  <2>1. /\ table' = table /\ done' = done /\ worker' = worker /\ joiners' = joiners
        /\ runnable \subseteq runnable' /\ waiter \subseteq waiter' \cup runnable'
      BY Zenon, <1>16 DEF RunJob
  <2> QED
      BY Zenon, <2>1 DEF Somewhere
<1>17. ASSUME NEW t \in Pool, LookAtStop(t) PROVE Somewhere'
    BY Zenon, <1>17, SomewhereKept DEF LookAtStop, goVars
<1>18. ASSUME NEW g \in Gids, Spawn(g) PROVE Somewhere'
    BY Zenon, <1>18 DEF Spawn, opVars, Somewhere
<1>19. ASSUME NEW g \in Gids, Join(g) PROVE Somewhere'
    BY Zenon, <1>19, SomewhereKept DEF Join, opVars
<1>20. ASSUME NEW g \in Gids, DropHandle(g) PROVE Somewhere'
  <2>1. /\ table' \ done' = (table \ done) \ {g} /\ worker' = worker /\ joiners' = joiners
        /\ runnable' = runnable /\ waiter' = waiter \ {g}
      BY Zenon, <1>20 DEF DropHandle
  <2> QED
      BY Zenon, <2>1 DEF Somewhere
<1>21. CASE Catch
    BY Zenon, <1>21, SomewhereKept DEF Catch, goVars, opVars
<1>22. CASE Shutdown
    BY Zenon, <1>22, SomewhereKept DEF Shutdown, goVars, opVars
<1>23. CASE StopPool
    BY Zenon, <1>23, SomewhereKept DEF StopPool, goVars
<1>24. CASE Reclaim
    BY Zenon, <1>24 DEF Reclaim, Somewhere
<1> QED
    BY ZenonT(60), <1>0, <1>1, <1>2, <1>3, <1>4, <1>5, <1>6, <1>7, <1>8,
       <1>9, <1>10, <1>11, <1>12, <1>13, <1>14, <1>15, <1>16, <1>17,
       <1>18, <1>19, <1>20, <1>21, <1>22, <1>23, <1>24 DEF Next, Poll, EndPoll, Offload

\* A step that leaves stacks and workers alone.
LEMMA StacksKept ==
    ASSUME TypeOK, Stacks, table' \ done' \subseteq table \ done, depth' = depth, phase' = phase,
           \A v \in Workers : worker'[v].g = worker[v].g,
           \A v \in Workers : worker'[v] # worker[v] =>
               /\ Polling(v) /\ worker'[v].park # "poll"
               /\ worker'[v].park # "join" => worker'[v].target = Null
    PROVE  Stacks'
<1>1. \A v \in Workers : Polling(v)' => worker'[v].d > 0
    BY Zenon DEF Stacks, Polling
<1>2. \A v \in Workers : worker'[v].g = Null => worker'[v] = Idle
    BY Zenon DEF Stacks, Polling
<1> QED
    BY ZenonT(60), <1>1, <1>2 DEF Stacks

\* drive takes the stack of a goroutine and gives it back with the tasks left.
LEMMA StacksStep ==
    ASSUME TypeOK, Places, Stacks, [Next]_vars
    PROVE  Stacks'
<1>0. CASE UNCHANGED vars
    BY Zenon, <1>0, StacksKept DEF vars, goVars
<1>1. ASSUME NEW w \in Workers, Yield(w) PROVE Stacks'
  <2>1. Polled(w)
      BY <1>1 DEF Yield, Polled, Return, TypeOK, Acting
  <2>2. table' = table /\ done' = done /\ depth' = depth /\ phase' = phase
      BY ZenonT(60), <1>1 DEF Yield, goVars
  <2> QED
      BY Zenon, <2>1, <2>2, StacksKept DEF Polled
<1>2. ASSUME NEW w \in Workers, Finish(w) PROVE Stacks'
  <2>1. Polled(w)
      BY <1>2 DEF Finish, Polled, Return, TypeOK, Acting
  <2>2. table' = table /\ done' = done /\ depth' = depth /\ phase' = phase
      BY Zenon, <1>2 DEF Finish, goVars
  <2> QED
      BY Zenon, <2>1, <2>2, StacksKept DEF Polled
<1>3. ASSUME NEW w \in Workers, NEW t \in Gids, JoinPark(w, t) PROVE Stacks'
  <2>1. Polled(w)
      BY <1>3 DEF JoinPark, Polled, Return, TypeOK, Acting
  <2>2. table' = table /\ done' = done /\ depth' = depth /\ phase' = phase
      BY Zenon, <1>3 DEF JoinPark, goVars
  <2> QED
      BY Zenon, <2>1, <2>2, StacksKept DEF Polled
<1>4. ASSUME NEW w \in Workers, NEW m \in Messages, Throw(w, m) PROVE Stacks'
  <2>1. Polled(w)
      BY <1>4 DEF Throw, Polled, Return, TypeOK, Raise, Acting
  <2>2. table' = table /\ done' = done /\ depth' = depth /\ phase' = phase
      BY Zenon, <1>4 DEF Throw, goVars
  <2> QED
      BY Zenon, <2>1, <2>2, StacksKept DEF Polled
<1>5. ASSUME NEW w \in Workers, NEW m \in Messages, ThrowUnseen(w, m) PROVE Stacks'
    BY Zenon, <1>5, StacksKept DEF ThrowUnseen, goVars
<1>6. ASSUME NEW w \in Workers, AwaitJob(w) PROVE Stacks'
  <2>1. Polled(w)
      BY <1>6 DEF AwaitJob, Polled, Return, TypeOK, Polling
  <2>2. table' = table /\ done' = done /\ depth' = depth /\ phase' = phase
      BY Zenon, <1>6 DEF AwaitJob, goVars
  <2> QED
      BY Zenon, <2>1, <2>2, StacksKept DEF Polled
<1>7. ASSUME NEW w \in Workers, StartJob(w) PROVE Stacks'
  <2>1. Polled(w)
      BY <1>7 DEF StartJob, Polled, Return, TypeOK, Polling
  <2>2. table' = table /\ done' = done /\ depth' = depth /\ phase' = phase
      BY Zenon, <1>7 DEF StartJob, goVars
  <2> QED
      BY Zenon, <2>1, <2>2, StacksKept DEF Polled
<1>8. ASSUME NEW w \in Workers, PollJob(w) PROVE Stacks'
  <2>1. Polled(w)
      BY <1>8 DEF PollJob, Polled, Return, TypeOK, Polling
  <2>2. table' = table /\ done' = done /\ depth' = depth /\ phase' = phase
      BY Zenon, <1>8 DEF PollJob, goVars
  <2> QED
      BY Zenon, <2>1, <2>2, StacksKept DEF Polled
<1>9. ASSUME NEW w \in Workers, Reap(w) PROVE Stacks'
    BY Zenon, <1>9, StacksKept DEF Reap, goVars
<1>10. ASSUME NEW w \in Workers, FlushGone(w) PROVE Stacks'
    BY SMTT(30), Z3T(30), <1>10 DEF FlushGone, goVars, Stacks, Polling, Flush, Idle, TypeOK
<1>11. ASSUME NEW w \in Workers, FlushRequeue(w) PROVE Stacks'
    BY ZenonT(40), <1>11, JoinsAssumption DEF FlushRequeue, Stacks, Polling, Flush, Idle, TypeOK
<1>12. ASSUME NEW w \in Workers, FlushWait(w) PROVE Stacks'
    BY ZenonT(40), <1>12, JoinsAssumption DEF FlushWait, Stacks, Polling, Flush, Idle, TypeOK
<1>13. ASSUME NEW w \in Workers, FlushDone(w) PROVE Stacks'
    BY Zenon, <1>13 DEF FlushDone, Stacks, Polling, Flush, Idle, TypeOK
<1>14. ASSUME NEW w \in Workers, NEW g \in Gids, Load(w, g) PROVE Stacks'
  <2>1. CASE g \in table
    <3>1. /\ worker'[w] = [g |-> g, d |-> depth[g], park |-> "poll", target |-> Null]
          /\ \A v \in Workers : v # w => worker'[v] = worker[v]
          /\ \A k \in Gids : k # g => depth'[k] = depth[k]
        BY Zenon, <1>14, <2>1 DEF Load, TypeOK
    <3>2. depth[g] > 0
      <4>1. g \in table \ done /\ \A v \in Workers : worker[v].g # g
          BY SMTT(30), Z3T(30), <1>14, <2>1, JoinsAssumption DEF Load, Places
      <4> QED
          BY Zenon, <4>1 DEF Stacks
    <3>3. \A k \in table \ done : depth'[k] > 0 \/ \E v \in Workers : worker'[v].g = k
      <4>1. ASSUME NEW k \in table \ done, k # g
            PROVE  depth'[k] > 0 \/ \E v \in Workers : worker'[v].g = k
        <5>1. k \in Gids /\ depth'[k] = depth[k] /\ worker[w].g # k
            BY SMTT(30), Z3T(30), <1>14, <3>1, <4>1, JoinsAssumption DEF Load, Idle, TypeOK
        <5> QED
            BY SMTT(30), Z3T(30), <3>1, <5>1 DEF Stacks
      <4> QED
          BY SMTT(30), Z3T(30), <3>1, <4>1
    <3> QED
        BY SMTT(30), Z3T(30), <1>14, <3>1, <3>2, <3>3, JoinsAssumption DEF Load, Stacks, Polling
  <2>2. CASE g \notin table
      BY <1>14, <2>2 DEF Load, Stacks, Polling
  <2> QED
      BY Zenon, <2>1, <2>2
<1>15. ASSUME NEW t \in Pool, TakeJob(t) PROVE Stacks'
    BY Zenon, <1>15, StacksKept DEF TakeJob, goVars
<1>16. ASSUME NEW t \in Pool, RunJob(t) PROVE Stacks'
    BY Zenon, <1>16, StacksKept DEF RunJob, goVars
<1>17. ASSUME NEW t \in Pool, LookAtStop(t) PROVE Stacks'
    BY Zenon, <1>17, StacksKept DEF LookAtStop, goVars
<1>18. ASSUME NEW g \in Gids, Spawn(g) PROVE Stacks'
    BY SMTT(30), Z3T(30), <1>18 DEF Spawn, Stacks, Polling, TypeOK
<1>19. ASSUME NEW g \in Gids, Join(g) PROVE Stacks'
    BY Zenon, <1>19, StacksKept DEF Join, goVars
<1>20. ASSUME NEW g \in Gids, DropHandle(g) PROVE Stacks'
    BY ZenonT(60), <1>20 DEF DropHandle, Stacks, Polling, TypeOK
<1>21. CASE Catch
    BY Zenon, <1>21, StacksKept DEF Catch, goVars
<1>22. CASE Shutdown
    BY Zenon, <1>22 DEF Shutdown, Stacks, Polling, goVars
<1>23. CASE StopPool
    BY SMTT(30), Z3T(30), <1>23 DEF StopPool, Stacks, Polling, Idle, goVars
<1>24. CASE Reclaim
    BY Zenon, <1>24 DEF Reclaim, Stacks, Polling
<1> QED
    BY Zenon, <1>0, <1>1, <1>2, <1>3, <1>4, <1>5, <1>6, <1>7, <1>8,
       <1>9, <1>10, <1>11, <1>12, <1>13, <1>14, <1>15, <1>16, <1>17,
       <1>18, <1>19, <1>20, <1>21, <1>22, <1>23, <1>24 DEF Next, Poll, EndPoll, Offload

\* The invariant of the places is inductive.
LEMMA NextWhere == Where /\ [Next]_vars => Where'
    BY Zenon, TypeStep, PlacesStep, SomewhereStep, StacksStep DEF Where

\* spawn, drive, the park primitives, complete_op and shutdown keep the types
\* of the tables they share, and a stack never goes below its last task.
THEOREM JoinsTypes == Spec => []TypeOK
<1>1. Where => TypeOK
    BY Zenon DEF Where
<1> QED
    BY InitWhere, NextWhere, <1>1, PTL DEF Spec


\* The job of a goroutine is in the pool at most once.
Once ==
    /\ \A i, j \in 1..Len(jobs) : jobs[i] = jobs[j] /\ jobs[i] \in Gids => i = j
    /\ \A i \in 1..Len(jobs), t \in Pool : pool[t] = jobs[i] => jobs[i] \notin Gids
    /\ \A t, u \in Pool : pool[t] = pool[u] /\ pool[t] \in Gids => t = u

\* It is there from the first poll of its future until its op is done, even
\* when nobody hears of it any more, and the result goes from owner to owner.
Ops ==
    \A g \in Gids :
        /\ g \in InPool => /\ future[g] \in {"started", "gone"} /\ op[g] # "done"
                           /\ g \in table => op[g] = "open"
        /\ op[g] # "none" => future[g] = "started"
        /\ op[g] = "open" => g \in InPool
        /\ op[g] = "done" => result[g] = "op"
        /\ future[g] = "ready" => result[g] = "future"
        /\ g \in waiter => op[g] = "open"
        /\ g \in table => result[g] # "lost"
        /\ g \in fresh => future[g] = "none" /\ result[g] = "none"

\* A thread or a goroutine has the message m.
Held(m) == (\E t \in Threads : tls[t] = m) \/ (\E g \in Gids : exc[g] = m)

\* A message has at most one owner.  A worker whose slot holds the exception
\* that ends a goroutine is about to hand it over.
Owners ==
    /\ released \subseteq raised
    /\ \A t \in Threads : tls[t] # NoMessage =>
        /\ tls[t] \in raised \ released
        /\ \A u \in Threads : tls[u] = tls[t] => u = t
        /\ \A g \in Gids : exc[g] # tls[t]
    /\ \A g \in Gids : exc[g] # NoMessage =>
        /\ exc[g] \in raised \ released /\ g \in done
        /\ exc[g] \in unseen \/ exc[g][1] = g
        /\ \A h \in Gids : exc[h] = exc[g] => h = g
    /\ \A m \in raised : m \in released \cup unseen \/ Held(m)
    /\ \A w \in Workers : tls[w] \in raised \ unseen =>
        worker[w].g = tls[w][1] /\ worker[w].park # "poll" /\ worker[w].d = 0

Inv == Where /\ Once /\ Ops /\ Owners
-----------------------------------------------------------------------------
\* No message is the empty slot, and a message names the goroutine that raised it.
LEMMA MessageFacts == NoMessage \notin Messages /\ \A m \in Messages : m[1] \in Gids
    BY Zenon, JoinsAssumption DEF NoMessage, Messages

\* The start of the program: no job, no exception.
LEMMA InitInv == Init => Inv
<1> SUFFICES ASSUME Init PROVE Inv
    BY Zenon
<1>1. Once /\ Ops
    BY JoinsAssumption DEF Init, Once, Ops, InPool, NoJob
<1>2. Owners
    BY Zenon DEF Init, Owners, Threads
<1> QED
    BY Zenon, InitWhere, <1>1, <1>2 DEF Inv

\* run_offload puts the job at the end of the queue.
LEMMA Started ==
    ASSUME TypeOK, NEW w \in Workers, StartJob(w)
    PROVE  /\ worker[w].g \in Gids /\ pool' = pool
           /\ Len(jobs') = Len(jobs) + 1 /\ jobs'[Len(jobs) + 1] = worker[w].g
           /\ \A i \in 1..Len(jobs) : jobs'[i] = jobs[i]
           /\ Len(jobs) \in Nat
           /\ \A k \in Gids : k \in InPool' <=> k \in InPool \/ k = worker[w].g
<1>1. worker[w].g \in Gids /\ pool' = pool /\ jobs' = Append(jobs, worker[w].g)
    BY Zenon DEF StartJob, Polling, TypeOK
<1>2. /\ Len(jobs') = Len(jobs) + 1 /\ jobs'[Len(jobs) + 1] = worker[w].g
      /\ \A i \in 1..Len(jobs) : jobs'[i] = jobs[i]
      /\ Len(jobs) \in Nat
    BY <1>1 DEF TypeOK
<1>3. \A k \in Gids : k \in InPool' <=> k \in InPool \/ k = worker[w].g
    BY <1>1, <1>2 DEF InPool
<1> QED
    BY Zenon, <1>1, <1>2, <1>3

\* A thread of the pool takes the first job of the queue.
LEMMA Fetched ==
    ASSUME TypeOK, NEW t \in Pool, TakeJob(t)
    PROVE  /\ Len(jobs) \in Nat \ {0} /\ Len(jobs') = Len(jobs) - 1
           /\ \A i \in 1..Len(jobs') : jobs'[i] = jobs[i + 1]
           /\ pool[t] \notin Gids /\ pool'[t] = jobs[1]
           /\ \A u \in Pool : u # t => pool'[u] = pool[u]
           /\ \A k \in Gids : k \in InPool' <=> k \in InPool
<1>1. /\ Len(jobs) \in Nat \ {0} /\ Len(jobs') = Len(jobs) - 1
      /\ \A i \in 1..Len(jobs') : jobs'[i] = jobs[i + 1]
    BY DEF TakeJob, TypeOK
<1>2. /\ pool[t] \notin Gids /\ pool'[t] = jobs[1]
      /\ \A u \in Pool : u # t => pool'[u] = pool[u]
    BY JoinsAssumption DEF TakeJob, NoJob, TypeOK
<1>3. ASSUME NEW k \in Gids PROVE k \in InPool' <=> k \in InPool
  <2>1. ASSUME k \in InPool PROVE k \in InPool'
    <3>1. ASSUME NEW i \in 1..Len(jobs), jobs[i] = k PROVE k \in InPool'
      <4>1. CASE i = 1
          BY Zenon, <1>2, <3>1, <4>1 DEF InPool
      <4>2. CASE i # 1
        <5>1. i - 1 \in 1..Len(jobs') /\ jobs'[i - 1] = k
            BY <1>1, <3>1, <4>2
        <5> QED
            BY Zenon, <5>1 DEF InPool
      <4> QED
          BY Zenon, <4>1, <4>2
    <3>2. ASSUME NEW u \in Pool, pool[u] = k PROVE k \in InPool'
        BY Zenon, <1>2, <3>2 DEF InPool
    <3> QED
        BY Zenon, <2>1, <3>1, <3>2 DEF InPool
  <2>2. ASSUME k \in InPool' PROVE k \in InPool
    <3>1. 1 \in 1..Len(jobs) /\ \A i \in 1..Len(jobs') : i + 1 \in 1..Len(jobs)
        BY <1>1
    <3> QED
        BY SMTT(30), Z3T(30), <1>1, <1>2, <2>2, <3>1 DEF InPool
  <2> QED
      BY Zenon, <2>1, <2>2
<1> QED
    BY Zenon, <1>1, <1>2, <1>3

\* complete_op: the job has left the pool, and no other job has.
LEMMA Ran ==
    ASSUME TypeOK, Once, NEW t \in Pool, RunJob(t)
    PROVE  /\ pool[t] \in Gids /\ pool[t] \in InPool /\ jobs' = jobs
           /\ pool'[t] \notin Gids /\ \A u \in Pool : u # t => pool'[u] = pool[u]
           /\ \A k \in Gids : k \in InPool' <=> k \in InPool /\ k # pool[t]
<1>1. /\ pool[t] \in Gids /\ jobs' = jobs /\ pool'[t] \notin Gids
      /\ \A u \in Pool : u # t => pool'[u] = pool[u]
    BY Zenon, JoinsAssumption DEF RunJob, TypeOK
<1> QED
    BY Zenon, <1>1 DEF InPool, Once

\* A thread that looks at the stop flag has no job.
LEMMA Looked ==
    ASSUME TypeOK, NEW t \in Pool, LookAtStop(t)
    PROVE  /\ jobs' = jobs /\ pool[t] \notin Gids /\ pool'[t] \notin Gids
           /\ \A u \in Pool : u # t => pool'[u] = pool[u]
           /\ \A k \in Gids : k \in InPool' <=> k \in InPool
<1>1. /\ jobs' = jobs /\ pool[t] \notin Gids /\ pool'[t] \notin Gids
      /\ \A u \in Pool : u # t => pool'[u] = pool[u]
    BY Zenon, JoinsAssumption DEF LookAtStop, Sentinel, NoJob, TypeOK
<1> QED
    BY Zenon, <1>1 DEF InPool

\* stop_offload appends one sentinel for each thread and no job.
LEMMA PoolStopped ==
    ASSUME TypeOK, StopPool
    PROVE  /\ pool' = pool /\ Len(jobs) \in Nat /\ Len(jobs') \in Nat /\ Len(jobs) <= Len(jobs')
           /\ \A i \in 1..Len(jobs) : jobs'[i] = jobs[i]
           /\ \A i \in 1..Len(jobs') : i \in 1..Len(jobs) \/ jobs'[i] \notin Gids
           /\ \A k \in Gids : k \in InPool' <=> k \in InPool
<1> DEFINE s == [i \in 1..Sentinels |-> Sentinel]
<1>1. Sentinels \in Nat
    BY Zenon, JoinsAssumption, FS_CardinalityType DEF Sentinels
<1>2. s \in Seq(Gids \cup {Sentinel}) /\ Len(s) = Sentinels
    BY <1>1
<1>3. pool' = pool /\ jobs' = jobs \o s
    BY Zenon DEF StopPool
<1>4. \A i \in 1..Sentinels : s[i] \notin Gids
    BY Zenon, JoinsAssumption DEF Sentinel
<1> HIDE DEF s
<1>5. /\ Len(jobs') = Len(jobs) + Sentinels /\ Len(jobs) \in Nat
      /\ \A i \in 1..Len(jobs') : jobs'[i] = IF i <= Len(jobs) THEN jobs[i] ELSE s[i - Len(jobs)]
    BY <1>2, <1>3 DEF TypeOK
<1>6. /\ \A i \in 1..Len(jobs) : jobs'[i] = jobs[i]
      /\ \A i \in 1..Len(jobs') : i \in 1..Len(jobs) \/ jobs'[i] \notin Gids
    BY <1>1, <1>4, <1>5
<1>7. \A k \in Gids : k \in InPool' <=> k \in InPool
    BY SMTT(30), Z3T(30), <1>1, <1>3, <1>4, <1>6 DEF InPool
<1> QED
    BY <1>1, <1>3, <1>4, <1>6, <1>7

\* A job enters the pool once and is handed to one thread.
LEMMA OnceStep ==
    ASSUME TypeOK, Once, Ops, [Next]_vars
    PROVE  Once'
<1>0. CASE UNCHANGED vars
    BY Zenon, <1>0 DEF vars, opVars, Once
<1>1. ASSUME NEW w \in Workers, Yield(w) PROVE Once'
    BY Zenon, <1>1 DEF Yield, opVars, Once
<1>2. ASSUME NEW w \in Workers, Finish(w) PROVE Once'
    BY Zenon, <1>2 DEF Finish, opVars, Once
<1>3. ASSUME NEW w \in Workers, NEW t \in Gids, JoinPark(w, t) PROVE Once'
    BY Zenon, <1>3 DEF JoinPark, opVars, Once
<1>4. ASSUME NEW w \in Workers, NEW m \in Messages, Throw(w, m) PROVE Once'
    BY Zenon, <1>4 DEF Throw, opVars, Once
<1>5. ASSUME NEW w \in Workers, NEW m \in Messages, ThrowUnseen(w, m) PROVE Once'
    BY Zenon, <1>5 DEF ThrowUnseen, opVars, Once
<1>6. ASSUME NEW w \in Workers, AwaitJob(w) PROVE Once'
    BY Zenon, <1>6 DEF AwaitJob, Once
<1>7. ASSUME NEW w \in Workers, StartJob(w) PROVE Once'
  <2>0. worker[w].g \notin InPool
      BY Zenon, <1>7, Started DEF StartJob, Ops
  <2>1. \A i \in 1..Len(jobs) : jobs[i] # worker[w].g
      BY Zenon, <2>0 DEF InPool
  <2>2. \A t \in Pool : pool[t] # worker[w].g
      BY Zenon, <2>0 DEF InPool
  <2>3. \A i \in 1..Len(jobs') : i \in 1..Len(jobs) \/ i = Len(jobs) + 1
      BY <1>7, Started
  <2> QED
      BY <1>7, <2>1, <2>2, <2>3, Started DEF Once
<1>8. ASSUME NEW w \in Workers, PollJob(w) PROVE Once'
    BY Zenon, <1>8 DEF PollJob, Once
<1>9. ASSUME NEW w \in Workers, Reap(w) PROVE Once'
    BY Zenon, <1>9 DEF Reap, Once
<1>10. ASSUME NEW w \in Workers, FlushGone(w) PROVE Once'
    BY Zenon, <1>10 DEF FlushGone, opVars, Once
<1>11. ASSUME NEW w \in Workers, FlushRequeue(w) PROVE Once'
    BY Zenon, <1>11 DEF FlushRequeue, opVars, Once
<1>12. ASSUME NEW w \in Workers, FlushWait(w) PROVE Once'
    BY Zenon, <1>12 DEF FlushWait, Once
<1>13. ASSUME NEW w \in Workers, FlushDone(w) PROVE Once'
    BY ZenonT(60), <1>13 DEF FlushDone, opVars, Once
<1>14. ASSUME NEW w \in Workers, NEW g \in Gids, Load(w, g) PROVE Once'
    BY Zenon, <1>14 DEF Load, opVars, Once
<1>15. ASSUME NEW t \in Pool, TakeJob(t) PROVE Once'
  <2>1. 1 \in 1..Len(jobs) /\ \A i \in 1..Len(jobs') : i + 1 \in 1..Len(jobs) /\ i + 1 # 1
      BY <1>15, Fetched
  <2>2. \A i, j \in 1..Len(jobs') : i + 1 = j + 1 => i = j
      OBVIOUS
  <2>3. \A i \in 1..Len(jobs') : jobs[1] \in Gids => jobs'[i] # jobs[1]
      BY SMTT(30), Z3T(30), <1>15, <2>1, Fetched DEF Once
  <2>4. \A i, j \in 1..Len(jobs') : jobs'[i] = jobs'[j] /\ jobs'[i] \in Gids => i = j
      BY SMTT(30), Z3T(30), <1>15, <2>1, <2>2, Fetched DEF Once
  <2>5. \A i \in 1..Len(jobs'), u \in Pool : pool'[u] = jobs'[i] => jobs'[i] \notin Gids
      BY SMTT(30), Z3T(30), <1>15, <2>1, <2>3, Fetched DEF Once
  <2>6. \A u, v \in Pool : pool'[u] = pool'[v] /\ pool'[u] \in Gids => u = v
      BY SMTT(30), Z3T(30), <1>15, <2>1, Fetched DEF Once
  <2> QED
      BY Zenon, <2>4, <2>5, <2>6 DEF Once
<1>16. ASSUME NEW t \in Pool, RunJob(t) PROVE Once'
    BY <1>16, Ran DEF Once
<1>17. ASSUME NEW t \in Pool, LookAtStop(t) PROVE Once'
    BY Zenon, <1>17, Looked DEF Once
<1>18. ASSUME NEW g \in Gids, Spawn(g) PROVE Once'
    BY Zenon, <1>18 DEF Spawn, opVars, Once
<1>19. ASSUME NEW g \in Gids, Join(g) PROVE Once'
    BY Zenon, <1>19 DEF Join, opVars, Once
<1>20. ASSUME NEW g \in Gids, DropHandle(g) PROVE Once'
    BY Zenon, <1>20 DEF DropHandle, Once
<1>21. CASE Catch
    BY Zenon, <1>21 DEF Catch, opVars, Once
<1>22. CASE Shutdown
    BY Zenon, <1>22 DEF Shutdown, opVars, Once
<1>23. CASE StopPool
    BY Zenon, <1>23, PoolStopped DEF Once
<1>24. CASE Reclaim
  <2>1. Len(jobs') = 0 /\ pool' = pool
      BY Zenon, <1>24 DEF Reclaim
  <2> QED
      BY <2>1 DEF Once
<1> QED
    BY Zenon, <1>0, <1>1, <1>2, <1>3, <1>4, <1>5, <1>6, <1>7, <1>8,
       <1>9, <1>10, <1>11, <1>12, <1>13, <1>14, <1>15, <1>16, <1>17,
       <1>18, <1>19, <1>20, <1>21, <1>22, <1>23, <1>24 DEF Next, Poll, EndPoll, Offload

\* A step that leaves the jobs alone and takes no goroutine back.
LEMMA OpsKept ==
    ASSUME TypeOK, Ops, UNCHANGED <<op, future, result>>,
           \A k \in Gids : k \in InPool' <=> k \in InPool,
           \A k \in Gids : k \in waiter' => op[k] = "open",
           table' \subseteq table \cup fresh, fresh' \subseteq fresh
    PROVE  Ops'
    BY Zenon DEF Ops

\* Queue and threads alone say which jobs the pool has.
LEMMA InPoolKept ==
    ASSUME jobs' = jobs, pool' = pool
    PROVE  InPool' = InPool
    BY Zenon DEF InPool

\* Every action keeps a job, its future, its waiter and its result in step.
LEMMA OpsStep ==
    ASSUME TypeOK, Places, Once, Ops, [Next]_vars
    PROVE  Ops'
<1>0. CASE UNCHANGED vars
  <2>1. UNCHANGED <<op, future, result, jobs, pool, waiter, table, fresh>>
      BY Zenon, <1>0 DEF vars, goVars, opVars
  <2> QED
      BY Zenon, <2>1, InPoolKept, OpsKept DEF Ops
<1>1. ASSUME NEW w \in Workers, Yield(w) PROVE Ops'
  <2>1. UNCHANGED <<op, future, result, jobs, pool>>
      BY Zenon, <1>1 DEF Yield, opVars
  <2>2. \A k \in Gids : k \in waiter' => op[k] = "open"
      BY Zenon, <1>1 DEF Yield, opVars, Ops
  <2>3. table' \subseteq table \cup fresh /\ fresh' \subseteq fresh
      BY Zenon, <1>1 DEF Yield, goVars
  <2> QED
      BY Zenon, <2>1, <2>2, <2>3, InPoolKept, OpsKept
<1>2. ASSUME NEW w \in Workers, Finish(w) PROVE Ops'
  <2>1. UNCHANGED <<op, future, result, jobs, pool>>
      BY Zenon, <1>2 DEF Finish, opVars
  <2>2. \A k \in Gids : k \in waiter' => op[k] = "open"
      BY Zenon, <1>2 DEF Finish, opVars, Ops
  <2>3. table' \subseteq table \cup fresh /\ fresh' \subseteq fresh
      BY Zenon, <1>2 DEF Finish, goVars
  <2> QED
      BY <2>1, <2>2, <2>3, InPoolKept, OpsKept
<1>3. ASSUME NEW w \in Workers, NEW t \in Gids, JoinPark(w, t) PROVE Ops'
  <2>1. UNCHANGED <<op, future, result, jobs, pool>>
      BY Zenon, <1>3 DEF JoinPark, opVars
  <2>2. \A k \in Gids : k \in waiter' => op[k] = "open"
      BY Zenon, <1>3 DEF JoinPark, opVars, Ops
  <2>3. table' \subseteq table \cup fresh /\ fresh' \subseteq fresh
      BY Zenon, <1>3 DEF JoinPark, goVars
  <2> QED
      BY Zenon, <2>1, <2>2, <2>3, InPoolKept, OpsKept
<1>4. ASSUME NEW w \in Workers, NEW m \in Messages, Throw(w, m) PROVE Ops'
  <2>1. UNCHANGED <<op, future, result, jobs, pool>>
      BY Zenon, <1>4 DEF Throw, opVars
  <2>2. \A k \in Gids : k \in waiter' => op[k] = "open"
      BY Zenon, <1>4 DEF Throw, opVars, Ops
  <2>3. table' \subseteq table \cup fresh /\ fresh' \subseteq fresh
      BY Zenon, <1>4 DEF Throw, goVars
  <2> QED
      BY Zenon, <2>1, <2>2, <2>3, InPoolKept, OpsKept
<1>5. ASSUME NEW w \in Workers, NEW m \in Messages, ThrowUnseen(w, m) PROVE Ops'
  <2>1. UNCHANGED <<op, future, result, jobs, pool>>
      BY Zenon, <1>5 DEF ThrowUnseen, opVars
  <2>2. \A k \in Gids : k \in waiter' => op[k] = "open"
      BY Zenon, <1>5 DEF ThrowUnseen, opVars, Ops
  <2>3. table' \subseteq table \cup fresh /\ fresh' \subseteq fresh
      BY Zenon, <1>5 DEF ThrowUnseen, goVars
  <2> QED
      BY <2>1, <2>2, <2>3, InPoolKept, OpsKept
<1>6. ASSUME NEW w \in Workers, AwaitJob(w) PROVE Ops'
  <2>1. worker[w].g \in Gids /\ worker[w].g \notin fresh /\ InPool' = InPool
      BY ZenonT(60), <1>6, InPoolKept DEF AwaitJob, Polling, Places, TypeOK
  <2> QED
      BY <1>6, <2>1 DEF AwaitJob, goVars, Ops, TypeOK
<1>7. ASSUME NEW w \in Workers, StartJob(w) PROVE Ops'
  <2>1. worker[w].g \in Gids /\ worker[w].g \notin fresh
      BY Zenon, <1>7 DEF StartJob, Polling, Places, TypeOK
  <2>2. UNCHANGED <<table, fresh, waiter, result>>
      BY Zenon, <1>7 DEF StartJob, goVars
  <2>3. \A k \in Gids : k \in InPool' <=> k \in InPool \/ k = worker[w].g
      BY Zenon, <1>7, Started
  <2>4. /\ future[worker[w].g] = "new"
        /\ \A k \in Gids : /\ op'[k] = IF k = worker[w].g THEN "open" ELSE op[k]
                           /\ future'[k] = IF k = worker[w].g THEN "started" ELSE future[k]
      BY Zenon, <1>7, <2>1 DEF StartJob, TypeOK
  <2> QED
      BY <2>1, <2>2, <2>3, <2>4 DEF Ops
<1>8. ASSUME NEW w \in Workers, PollJob(w) PROVE Ops'
  <2>1. worker[w].g \in Gids /\ worker[w].g \notin fresh \cup waiter /\ InPool' = InPool
      BY Zenon, <1>8, InPoolKept DEF PollJob, Polling, Places, TypeOK
  <2>2. UNCHANGED <<table, fresh, waiter>>
      BY Zenon, <1>8 DEF PollJob, goVars
  <2>3. CASE OpDone(worker[w].g)
    <3>1. PICK g \in Gids : g = worker[w].g
        BY Zenon, <2>1
    <3>2. op[g] = "done" /\ result[g] = "op" /\ future[g] = "started"
        BY Zenon, <2>3, <3>1 DEF OpDone, Ops
    <3>3. /\ op' = [op EXCEPT ![g] = "none"] /\ future' = [future EXCEPT ![g] = "ready"]
          /\ result' = [result EXCEPT ![g] = IF result[g] = "op" THEN "future" ELSE result[g]]
        BY Zenon, <1>8, <2>3, <3>1 DEF PollJob
    <3>4. /\ op'[g] = "none" /\ future'[g] = "ready" /\ result'[g] = "future"
          /\ \A k \in Gids : k # g => op'[k] = op[k] /\ future'[k] = future[k] /\ result'[k] = result[k]
        BY Zenon, <3>2, <3>3 DEF TypeOK
    <3>5. g \notin InPool' /\ g \notin waiter' /\ g \notin fresh'
        BY Zenon, <2>1, <2>2, <3>1, <3>2 DEF Ops
    <3> QED
        BY ZenonT(60), <2>1, <2>2, <3>4, <3>5 DEF Ops
  <2>4. CASE ~OpDone(worker[w].g)
      BY ZenonT(60), <1>8, <2>1, <2>2, <2>4 DEF PollJob, Ops
  <2> QED
      BY Zenon, <2>3, <2>4
<1>9. ASSUME NEW w \in Workers, Reap(w) PROVE Ops'
  <2>1. worker[w].g \in Gids /\ worker[w].g \notin fresh /\ InPool' = InPool
      BY Zenon, <1>9, InPoolKept DEF Reap, Polling, Places, TypeOK
  <2> QED
      BY <1>9, <2>1 DEF Reap, goVars, Ops, TypeOK
<1>10. ASSUME NEW w \in Workers, FlushGone(w) PROVE Ops'
  <2>1. UNCHANGED <<op, future, result, jobs, pool>>
      BY Zenon, <1>10 DEF FlushGone, opVars
  <2>2. \A k \in Gids : k \in waiter' => op[k] = "open"
      BY Zenon, <1>10 DEF FlushGone, opVars, Ops
  <2>3. table' \subseteq table \cup fresh /\ fresh' \subseteq fresh
      BY Zenon, <1>10 DEF FlushGone, goVars
  <2> QED
      BY <2>1, <2>2, <2>3, InPoolKept, OpsKept
<1>11. ASSUME NEW w \in Workers, FlushRequeue(w) PROVE Ops'
  <2>1. UNCHANGED <<op, future, result, jobs, pool>>
      BY Zenon, <1>11 DEF FlushRequeue, opVars
  <2>2. \A k \in Gids : k \in waiter' => op[k] = "open"
      BY Zenon, <1>11 DEF FlushRequeue, opVars, Ops
  <2>3. table' \subseteq table \cup fresh /\ fresh' \subseteq fresh
      BY Zenon, <1>11 DEF FlushRequeue, goVars
  <2> QED
      BY <2>1, <2>2, <2>3, InPoolKept, OpsKept
<1>12. ASSUME NEW w \in Workers, FlushWait(w) PROVE Ops'
  <2>1. UNCHANGED <<op, future, result, jobs, pool>>
      BY Zenon, <1>12 DEF FlushWait
  <2>2. \A k \in Gids : k \in waiter' => op[k] = "open"
      BY Zenon, <1>12 DEF FlushWait, Waits, Ops
  <2>3. table' \subseteq table \cup fresh /\ fresh' \subseteq fresh
      BY Zenon, <1>12 DEF FlushWait, goVars
  <2> QED
      BY <2>1, <2>2, <2>3, InPoolKept, OpsKept
<1>13. ASSUME NEW w \in Workers, FlushDone(w) PROVE Ops'
  <2>1. UNCHANGED <<op, future, result, jobs, pool>>
      BY Zenon, <1>13 DEF FlushDone, opVars
  <2>2. \A k \in Gids : k \in waiter' => op[k] = "open"
      BY Zenon, <1>13 DEF FlushDone, opVars, Ops
  <2>3. table' \subseteq table \cup fresh /\ fresh' \subseteq fresh
      BY Zenon, <1>13 DEF FlushDone, goVars
  <2> QED
      BY <2>1, <2>2, <2>3, InPoolKept, OpsKept
<1>14. ASSUME NEW w \in Workers, NEW g \in Gids, Load(w, g) PROVE Ops'
  <2>1. UNCHANGED <<op, future, result, jobs, pool>>
      BY Zenon, <1>14 DEF Load, opVars
  <2>2. \A k \in Gids : k \in waiter' => op[k] = "open"
      BY Zenon, <1>14 DEF Load, opVars, Ops
  <2>3. table' \subseteq table \cup fresh /\ fresh' \subseteq fresh
      BY Zenon, <1>14 DEF Load, goVars
  <2> QED
      BY <2>1, <2>2, <2>3, InPoolKept, OpsKept
<1>15. ASSUME NEW t \in Pool, TakeJob(t) PROVE Ops'
  <2>1. UNCHANGED <<op, future, result, waiter, table, fresh>>
      BY Zenon, <1>15 DEF TakeJob, goVars
  <2> QED
      BY Zenon, <1>15, <2>1, Fetched, OpsKept DEF Ops
<1>16. ASSUME NEW t \in Pool, RunJob(t) PROVE Ops'
  <2> DEFINE h == pool[t]
  <2>1. UNCHANGED <<table, fresh, future>>
      BY Zenon, <1>16 DEF RunJob
  <2>2. h \in Gids /\ h \in InPool /\ \A k \in Gids : k \in InPool' <=> k \in InPool /\ k # h
      BY Zenon, <1>16, Ran
  <2>3. CASE op[h] = "none"
    <3>1. /\ op' = op /\ waiter' = waiter
          /\ \A k \in Gids : result'[k] = IF k = h THEN "lost" ELSE result[k]
        BY ZenonT(60), <1>16, <2>2, <2>3 DEF RunJob, TypeOK
    <3> QED
        BY Zenon, <2>1, <2>2, <2>3, <3>1 DEF Ops
  <2>4. CASE op[h] # "none"
    <3>1. /\ waiter' = waiter \ {h}
          /\ \A k \in Gids : /\ op'[k] = IF k = h THEN "done" ELSE op[k]
                             /\ result'[k] = IF k = h THEN "op" ELSE result[k]
        BY ZenonT(60), <1>16, <2>2, <2>4 DEF RunJob, TypeOK
    <3>2. h \notin fresh /\ future[h] = "started"
        BY Zenon, <2>2, <2>4 DEF Ops
    <3> QED
        BY <2>1, <2>2, <2>4, <3>1, <3>2 DEF Ops
  <2> QED
      BY Zenon, <2>3, <2>4
<1>17. ASSUME NEW t \in Pool, LookAtStop(t) PROVE Ops'
  <2>1. UNCHANGED <<op, future, result, waiter, table, fresh>>
      BY Zenon, <1>17 DEF LookAtStop, goVars
  <2> QED
      BY Zenon, <1>17, <2>1, Looked, OpsKept DEF Ops
<1>18. ASSUME NEW g \in Gids, Spawn(g) PROVE Ops'
  <2>1. UNCHANGED <<op, future, result, jobs, pool>>
      BY Zenon, <1>18 DEF Spawn, opVars
  <2>2. \A k \in Gids : k \in waiter' => op[k] = "open"
      BY Zenon, <1>18 DEF Spawn, opVars, Ops
  <2>3. table' \subseteq table \cup fresh /\ fresh' \subseteq fresh
      BY Zenon, <1>18 DEF Spawn, goVars
  <2> QED
      BY Zenon, <2>1, <2>2, <2>3, InPoolKept, OpsKept
<1>19. ASSUME NEW g \in Gids, Join(g) PROVE Ops'
  <2>1. UNCHANGED <<op, future, result, jobs, pool>>
      BY Zenon, <1>19 DEF Join, opVars
  <2>2. \A k \in Gids : k \in waiter' => op[k] = "open"
      BY Zenon, <1>19 DEF Join, opVars, Ops
  <2>3. table' \subseteq table \cup fresh /\ fresh' \subseteq fresh
      BY Zenon, <1>19 DEF Join, goVars
  <2> QED
      BY <2>1, <2>2, <2>3, InPoolKept, OpsKept
<1>20. ASSUME NEW g \in Gids, DropHandle(g) PROVE Ops'
  <2>1. InPool' = InPool /\ fresh' = fresh /\ table' = table \ {g} /\ waiter' = waiter \ {g}
      BY Zenon, <1>20, InPoolKept DEF DropHandle
  <2>2. g \notin fresh
      BY Zenon, <1>20 DEF DropHandle, Places
  <2> QED
      BY Zenon, <1>20, <2>1, <2>2 DEF DropHandle, DropFutures, Ops, TypeOK
<1>21. CASE Catch
  <2>1. UNCHANGED <<op, future, result, jobs, pool>>
      BY Zenon, <1>21 DEF Catch, opVars
  <2>2. \A k \in Gids : k \in waiter' => op[k] = "open"
      BY Zenon, <1>21 DEF Catch, opVars, Ops
  <2>3. table' \subseteq table \cup fresh /\ fresh' \subseteq fresh
      BY Zenon, <1>21 DEF Catch, goVars
  <2> QED
      BY Zenon, <2>1, <2>2, <2>3, InPoolKept, OpsKept
<1>22. CASE Shutdown
  <2>1. UNCHANGED <<op, future, result, jobs, pool>>
      BY Zenon, <1>22 DEF Shutdown, opVars
  <2>2. \A k \in Gids : k \in waiter' => op[k] = "open"
      BY Zenon, <1>22 DEF Shutdown, opVars, Ops
  <2>3. table' \subseteq table \cup fresh /\ fresh' \subseteq fresh
      BY Zenon, <1>22 DEF Shutdown, goVars
  <2> QED
      BY <2>1, <2>2, <2>3, InPoolKept, OpsKept
<1>23. CASE StopPool
  <2>1. UNCHANGED <<op, future, result, waiter, table, fresh>>
      BY Zenon, <1>23 DEF StopPool, goVars
  <2> QED
      BY Zenon, <1>23, <2>1, PoolStopped, OpsKept DEF Ops
<1>24. CASE Reclaim
  <2>1. InPool' \cap Gids = {} /\ table' = {} /\ waiter' = {} /\ fresh' = fresh /\ fresh \cap table = {}
      BY SMTT(30), Z3T(30), <1>24, JoinsAssumption DEF Reclaim, InPool, Places
  <2> QED
      BY ZenonT(60), <1>24, <2>1 DEF Reclaim, DropFutures, Ops, TypeOK
<1> QED
    BY ZenonT(60), <1>0, <1>1, <1>2, <1>3, <1>4, <1>5, <1>6, <1>7, <1>8,
       <1>9, <1>10, <1>11, <1>12, <1>13, <1>14, <1>15, <1>16, <1>17,
       <1>18, <1>19, <1>20, <1>21, <1>22, <1>23, <1>24 DEF Next, Poll, EndPoll, Offload

\* A step that moves no message.
LEMMA OwnersKept ==
    ASSUME Owners, UNCHANGED <<tls, exc, released, raised, unseen>>, done \subseteq done',
           \A v \in Workers : worker'[v] = worker[v] \/ tls[v] \notin raised \ unseen
    PROVE  Owners'
<1>1. /\ tls' = tls /\ exc' = exc /\ released' = released /\ raised' = raised /\ unseen' = unseen
      /\ \A m : Held(m)' <=> Held(m)
    BY ZenonT(60) DEF Held
<1> QED
    BY <1>1 DEF Owners

\* What ends a goroutine is in the slot of a worker that has ended its poll.
LEMMA Ended ==
    ASSUME TypeOK, Places, Owners, NEW w \in Workers, tls[w] \in raised \ unseen
    PROVE  /\ worker[w].g \in table /\ worker[w].g # Null
           /\ worker[w].park # "poll" /\ worker[w].d = 0
<1>1. tls[w][1] \in Gids
    BY ZenonT(60), MessageFacts DEF TypeOK
<1> QED
    BY <1>1, JoinsAssumption DEF Owners, Places

\* Every action passes a message from one owner to the next, or releases it.
LEMMA OwnersStep ==
    ASSUME TypeOK, Places, Owners, [Next]_vars
    PROVE  Owners'
<1>0. CASE UNCHANGED vars
    BY Zenon, <1>0, OwnersKept DEF vars, goVars, logVars
<1>1. ASSUME NEW w \in Workers, Yield(w) PROVE Owners'
  <2>1. \A v \in Workers : worker'[v] = worker[v] \/ v = w
      BY Zenon, <1>1 DEF Yield, Acting, Polling, Return, TypeOK
  <2>2. tls[w] \notin raised \ unseen
      BY Zenon, <1>1, Ended DEF Yield, Acting, Polling, TypeOK
  <2>3. UNCHANGED <<tls, exc, released, raised, unseen, done>>
      BY Zenon, <1>1 DEF Yield, goVars, logVars
  <2> QED
      BY Zenon, <2>1, <2>2, <2>3, OwnersKept
<1>2. ASSUME NEW w \in Workers, Finish(w) PROVE Owners'
  <2>1. \A v \in Workers : worker'[v] = worker[v] \/ v = w
      BY Zenon, <1>2 DEF Finish, Acting, Polling, Return, TypeOK
  <2>2. tls[w] \notin raised \ unseen
      BY Zenon, <1>2, Ended DEF Finish, Acting, Polling, TypeOK
  <2>3. UNCHANGED <<tls, exc, released, raised, unseen, done>>
      BY Zenon, <1>2 DEF Finish, goVars, logVars
  <2> QED
      BY <2>1, <2>2, <2>3, OwnersKept
<1>3. ASSUME NEW w \in Workers, NEW t \in Gids, JoinPark(w, t) PROVE Owners'
  <2>1. \A v \in Workers : worker'[v] = worker[v] \/ v = w
      BY Zenon, <1>3 DEF JoinPark, Acting, Polling, Return, TypeOK
  <2>2. tls[w] \notin raised \ unseen
      BY Zenon, <1>3, Ended DEF JoinPark, Acting, Polling, TypeOK
  <2>3. UNCHANGED <<tls, exc, released, raised, unseen, done>>
      BY ZenonT(60), <1>3 DEF JoinPark, goVars, logVars
  <2> QED
      BY Zenon, <2>1, <2>2, <2>3, OwnersKept
<1>4. ASSUME NEW w \in Workers, NEW m \in Messages, Throw(w, m) PROVE Owners'
  <2>1. /\ m \notin raised /\ m # NoMessage /\ raised' = raised \cup {m} /\ released' = released
        /\ tls'[w] = m /\ \A v \in Threads : v # w => tls'[v] = tls[v]
        /\ exc' = exc /\ done' = done
      BY Zenon, <1>4, MessageFacts DEF Throw, Raise, goVars, Threads, TypeOK
  <2>2. tls[w] \notin raised \ unseen
      BY Zenon, <1>4, Ended DEF Throw, Raise, Acting, Polling
  <2>3. w \in Threads /\ unseen \subseteq raised
      BY Zenon DEF Threads, TypeOK
  <2>4. \/ unseen' = unseen \cup {m}
        \/ /\ unseen' = unseen /\ worker'[w].g = m[1] /\ worker'[w].park # "poll"
           /\ worker'[w].d = 0
      BY SMTT(30), Z3T(30), <1>4 DEF Throw, Raise, Return, Popped, TypeOK
  <2>5. \A v \in Workers : v # w => worker'[v] = worker[v]
      BY Zenon, <1>4 DEF Throw, Return, TypeOK
  <2>6. \A k \in raised' : k \in released' \cup unseen' \/ Held(k)'
      BY SMTT(30), Z3T(30), <2>1, <2>2, <2>3, <2>4 DEF Owners, Held
  <2>7. \A v \in Workers : v \in Threads
      BY ZenonT(60) DEF Threads
  <2> QED
      BY SMTT(30), Z3T(30), <2>1, <2>3, <2>4, <2>5, <2>6, <2>7 DEF Owners
<1>5. ASSUME NEW w \in Workers, NEW m \in Messages, ThrowUnseen(w, m) PROVE Owners'
  <2>1. /\ m \notin raised /\ m # NoMessage /\ raised' = raised \cup {m} /\ released' = released
        /\ tls'[w] = m /\ \A v \in Threads : v # w => tls'[v] = tls[v]
        /\ exc' = exc /\ done' = done
      BY Zenon, <1>5, MessageFacts DEF ThrowUnseen, Raise, goVars, Threads, TypeOK
  <2>2. tls[w] \notin raised \ unseen
      BY Zenon, <1>5, Ended DEF ThrowUnseen, Raise, Acting, Polling
  <2>3. w \in Threads /\ unseen \subseteq raised
      BY DEF Threads, TypeOK
  <2>4. unseen' = unseen \cup {m}
      BY Zenon, <1>5 DEF ThrowUnseen
  <2>5. \A v \in Workers : v # w => worker'[v] = worker[v]
      BY ZenonT(60), <1>5 DEF ThrowUnseen
  <2>6. \A k \in raised' : k \in released' \cup unseen' \/ Held(k)'
      BY <2>1, <2>2, <2>3, <2>4 DEF Owners, Held
  <2>7. \A v \in Workers : v \in Threads
      BY DEF Threads
  <2> QED
      BY SMTT(30), Z3T(30), <2>1, <2>3, <2>4, <2>5, <2>6, <2>7 DEF Owners
<1>6. ASSUME NEW w \in Workers, AwaitJob(w) PROVE Owners'
  <2>1. \A v \in Workers : worker'[v] = worker[v] \/ v = w
      BY Zenon, <1>6 DEF AwaitJob, Polling, Return, TypeOK
  <2>2. tls[w] \notin raised \ unseen
      BY Zenon, <1>6, Ended DEF AwaitJob, Polling, TypeOK
  <2>3. UNCHANGED <<tls, exc, released, raised, unseen, done>>
      BY Zenon, <1>6 DEF AwaitJob, goVars, logVars
  <2> QED
      BY <2>1, <2>2, <2>3, OwnersKept
<1>7. ASSUME NEW w \in Workers, StartJob(w) PROVE Owners'
  <2>1. \A v \in Workers : worker'[v] = worker[v] \/ v = w
      BY Zenon, <1>7 DEF StartJob, Polling, Return, TypeOK
  <2>2. tls[w] \notin raised \ unseen
      BY Zenon, <1>7, Ended DEF StartJob, Polling, TypeOK
  <2>3. UNCHANGED <<tls, exc, released, raised, unseen, done>>
      BY Zenon, <1>7 DEF StartJob, goVars, logVars
  <2> QED
      BY <2>1, <2>2, <2>3, OwnersKept
<1>8. ASSUME NEW w \in Workers, PollJob(w) PROVE Owners'
  <2>1. \A v \in Workers : worker'[v] = worker[v] \/ v = w
      BY Zenon, <1>8 DEF PollJob, Polling, Return, TypeOK
  <2>2. tls[w] \notin raised \ unseen
      BY Zenon, <1>8, Ended DEF PollJob, Polling, TypeOK
  <2>3. UNCHANGED <<tls, exc, released, raised, unseen, done>>
      BY Zenon, <1>8 DEF PollJob, goVars, logVars
  <2> QED
      BY <2>1, <2>2, <2>3, OwnersKept
<1>9. ASSUME NEW w \in Workers, Reap(w) PROVE Owners'
  <2>1. UNCHANGED <<tls, exc, released, raised, unseen, done, worker>>
      BY Zenon, <1>9 DEF Reap, goVars, logVars
  <2> QED
      BY Zenon, <2>1, OwnersKept
<1>10. ASSUME NEW w \in Workers, FlushGone(w) PROVE Owners'
  <2>1. \A v \in Workers : worker'[v] = worker[v] \/ v = w
      BY Zenon, <1>10 DEF FlushGone, Flush, TypeOK
  <2>2. tls[w] \notin raised \ unseen
      BY Zenon, <1>10, Ended DEF FlushGone, Flush, TypeOK
  <2>3. UNCHANGED <<tls, exc, released, raised, unseen, done>>
      BY Zenon, <1>10 DEF FlushGone, goVars, logVars
  <2> QED
      BY <2>1, <2>2, <2>3, OwnersKept
<1>11. ASSUME NEW w \in Workers, FlushRequeue(w) PROVE Owners'
  <2>1. \A v \in Workers : worker'[v] = worker[v] \/ v = w
      BY ZenonT(60), <1>11 DEF FlushRequeue, Flush, TypeOK
  <2>2. tls[w] \notin raised \ unseen
      BY SMTT(30), Z3T(30), <1>11, Ended DEF FlushRequeue, Flush, TypeOK
  <2>3. UNCHANGED <<tls, exc, released, raised, unseen, done>>
      BY Zenon, <1>11 DEF FlushRequeue, goVars, logVars
  <2> QED
      BY <2>1, <2>2, <2>3, OwnersKept
<1>12. ASSUME NEW w \in Workers, FlushWait(w) PROVE Owners'
  <2>1. \A v \in Workers : worker'[v] = worker[v] \/ v = w
      BY ZenonT(60), <1>12 DEF FlushWait, Flush, TypeOK
  <2>2. tls[w] \notin raised \ unseen
      BY SMTT(30), Z3T(30), <1>12, Ended DEF FlushWait, Flush, TypeOK
  <2>3. UNCHANGED <<tls, exc, released, raised, unseen, done>>
      BY Zenon, <1>12 DEF FlushWait, goVars, logVars
  <2> QED
      BY <2>1, <2>2, <2>3, OwnersKept
<1>13. ASSUME NEW w \in Workers, FlushDone(w) PROVE Owners'
  <2> DEFINE h == worker[w].g
  <2>1. /\ h \in Gids /\ w \in Threads /\ h \in table \ done /\ exc[h] = NoMessage
        /\ worker'[w] = Idle /\ \A v \in Workers : v # w => worker'[v] = worker[v]
      BY SMTT(30), Z3T(30), <1>13 DEF FlushDone, Flush, Threads, Places, Owners, TypeOK
  <2>2. /\ released' = released /\ raised' = raised /\ unseen' = unseen
        /\ \A k \in Gids : exc'[k] = IF k = h THEN tls[w] ELSE exc[k]
        /\ \A u \in Threads : tls'[u] = IF u = w THEN NoMessage ELSE tls[u]
      BY Zenon, <1>13, <2>1 DEF FlushDone, Thrown, logVars, TypeOK
  <2>3. done \subseteq done' /\ (tls[w] # NoMessage => h \in done')
      BY Zenon, <1>13 DEF FlushDone, Thrown
  <2>4. tls[w] # NoMessage => tls[w] \in unseen \/ tls[w][1] = h
      BY Zenon, <2>1 DEF Owners
  <2>5. \A k \in raised' : k \in released' \cup unseen' \/ Held(k)'
    <3>1. ASSUME NEW k \in Messages, Held(k) PROVE Held(k)'
      <4>1. k # NoMessage
          BY Zenon, MessageFacts
      <4>2. ASSUME NEW t \in Threads, tls[t] = k PROVE Held(k)'
        <5>1. CASE t = w
            BY Zenon, <2>1, <2>2, <4>2, <5>1 DEF Held
        <5>2. CASE t # w
            BY Zenon, <2>2, <4>2, <5>2 DEF Held
        <5> QED
            BY Zenon, <5>1, <5>2
      <4>3. ASSUME NEW g \in Gids, exc[g] = k PROVE Held(k)'
        <5>1. g # h
            BY Zenon, <2>1, <4>1, <4>3
        <5> QED
            BY Zenon, <2>2, <4>3, <5>1 DEF Held
      <4> QED
          BY Zenon, <3>1, <4>2, <4>3 DEF Held
    <3> QED
        BY Zenon, <2>2, <3>1 DEF Owners, TypeOK
  <2>6. NoMessage \notin raised
      BY Zenon, MessageFacts DEF TypeOK
  <2>7. \A v \in Workers : v \in Threads
      BY Zenon DEF Threads
  <2> HIDE DEF h
  <2>8. ASSUME NEW t \in Threads, tls'[t] # NoMessage
        PROVE  /\ tls'[t] \in raised' \ released' /\ \A u \in Threads : tls'[u] = tls'[t] => u = t
               /\ \A g \in Gids : exc'[g] # tls'[t]
    <3>1. t # w /\ tls'[t] = tls[t]
        BY Zenon, <2>2, <2>8
    <3>2. /\ tls[t] # NoMessage /\ tls[t] \in raised \ released
          /\ \A u \in Threads : tls[u] = tls[t] => u = t
          /\ \A g \in Gids : exc[g] # tls[t]
        BY Zenon, <2>8, <3>1 DEF Owners
    <3>3. \A u \in Threads : tls'[u] = tls'[t] => u = t
        BY Zenon, <2>2, <2>8, <3>1, <3>2
    <3>4. \A g \in Gids : exc'[g] # tls'[t]
        BY Zenon, <2>1, <2>2, <3>1, <3>2
    <3> QED
        BY Zenon, <2>2, <3>1, <3>2, <3>3, <3>4
  <2>9. ASSUME NEW g \in Gids, exc'[g] # NoMessage
        PROVE  /\ exc'[g] \in raised' \ released' /\ g \in done'
               /\ exc'[g] \in unseen' \/ exc'[g][1] = g
               /\ \A k \in Gids : exc'[k] = exc'[g] => k = g
    <3>1. CASE g = h
      <4>1. exc'[g] = tls[w] /\ tls[w] # NoMessage
          BY Zenon, <2>2, <2>9, <3>1
      <4>2. tls[w] \in raised \ released /\ \A k \in Gids : exc[k] # tls[w]
          BY Zenon, <2>1, <4>1 DEF Owners
      <4>3. \A k \in Gids : exc'[k] = exc'[g] => k = g
          BY Zenon, <2>2, <3>1, <4>1, <4>2
      <4> QED
          BY Zenon, <2>2, <2>3, <2>4, <3>1, <4>1, <4>2, <4>3
    <3>2. CASE g # h
      <4>1. exc'[g] = exc[g] /\ exc[g] # NoMessage
          BY Zenon, <2>2, <2>9, <3>2
      <4>2. /\ exc[g] \in raised \ released /\ g \in done
            /\ exc[g] \in unseen \/ exc[g][1] = g
            /\ \A k \in Gids : exc[k] = exc[g] => k = g
          BY Zenon, <4>1 DEF Owners
      <4>3. exc[g] # tls[w]
          BY Zenon, <2>1, <4>1 DEF Owners
      <4>4. \A k \in Gids : exc'[k] = exc'[g] => k = g
          BY Zenon, <2>2, <4>1, <4>2, <4>3
      <4> QED
          BY Zenon, <2>2, <2>3, <4>1, <4>2, <4>4
    <3> QED
        BY Zenon, <3>1, <3>2
  <2>10. ASSUME NEW v \in Workers, tls'[v] \in raised' \ unseen'
         PROVE  worker'[v].g = tls'[v][1] /\ worker'[v].park # "poll" /\ worker'[v].d = 0
    <3>1. v # w
        BY Zenon, <2>2, <2>6, <2>7, <2>10
    <3> QED
        BY Zenon, <2>1, <2>2, <2>7, <2>10, <3>1 DEF Owners
  <2>11. released' \subseteq raised'
      BY Zenon, <2>2 DEF Owners
  <2> QED
      BY ZenonT(60), <2>5, <2>8, <2>9, <2>10, <2>11 DEF Owners
<1>14. ASSUME NEW w \in Workers, NEW g \in Gids, Load(w, g) PROVE Owners'
  <2>1. \A v \in Workers : worker'[v] = worker[v] \/ v = w
      BY ZenonT(60), <1>14 DEF Load, Idle, TypeOK
  <2>2. tls[w] \notin raised \ unseen
      BY <1>14, Ended DEF Load, Idle, TypeOK
  <2>3. UNCHANGED <<tls, exc, released, raised, unseen, done>>
      BY Zenon, <1>14 DEF Load, goVars, logVars
  <2> QED
      BY <2>1, <2>2, <2>3, OwnersKept
<1>15. ASSUME NEW t \in Pool, TakeJob(t) PROVE Owners'
  <2>1. UNCHANGED <<tls, exc, released, raised, unseen, done, worker>>
      BY Zenon, <1>15 DEF TakeJob, goVars, logVars
  <2> QED
      BY Zenon, <2>1, OwnersKept
<1>16. ASSUME NEW t \in Pool, RunJob(t) PROVE Owners'
  <2>1. UNCHANGED <<tls, exc, released, raised, unseen, done, worker>>
      BY Zenon, <1>16 DEF RunJob, goVars, logVars
  <2> QED
      BY <2>1, OwnersKept
<1>17. ASSUME NEW t \in Pool, LookAtStop(t) PROVE Owners'
  <2>1. UNCHANGED <<tls, exc, released, raised, unseen, done, worker>>
      BY Zenon, <1>17 DEF LookAtStop, goVars, logVars
  <2> QED
      BY <2>1, OwnersKept
<1>18. ASSUME NEW g \in Gids, Spawn(g) PROVE Owners'
  <2>1. UNCHANGED <<tls, exc, released, raised, unseen, done, worker>>
      BY ZenonT(60), <1>18 DEF Spawn, goVars, logVars
  <2> QED
      BY <2>1, OwnersKept
<1>19. ASSUME NEW g \in Gids, Join(g) PROVE Owners'
  <2>1. /\ released' = released /\ raised' = raised /\ unseen' = unseen /\ done' = done
        /\ worker' = worker /\ tls[Main] = NoMessage /\ Main \in Threads /\ Main \notin Workers
        /\ \A k \in Gids : exc'[k] = IF k = g THEN NoMessage ELSE exc[k]
        /\ \A u \in Threads : tls'[u] = IF u = Main THEN exc[g] ELSE tls[u]
      BY Zenon, <1>19, JoinsAssumption DEF Join, Taken, Threads, logVars, TypeOK
  <2>2. \A k \in raised' : k \in released' \cup unseen' \/ Held(k)'
    <3>1. \A k \in Messages : Held(k) => Held(k)'
        BY Zenon, <2>1, MessageFacts DEF Held
    <3> QED
        BY Zenon, <2>1, <3>1 DEF Owners, TypeOK
  <2>3. \A v \in Workers : v \in Threads
      BY ZenonT(60) DEF Threads
  <2> QED
      BY SMTT(30), Z3T(30), <2>1, <2>2, <2>3 DEF Owners
<1>20. ASSUME NEW g \in Gids, DropHandle(g) PROVE Owners'
  <2>1. /\ released' = released \cup ({exc[g]} \ {NoMessage}) /\ raised' = raised
        /\ unseen' = unseen /\ done' = done \ {g} /\ tls' = tls /\ worker' = worker
        /\ \A k \in Gids : exc'[k] = IF k = g THEN NoMessage ELSE exc[k]
      BY Zenon, <1>20 DEF DropHandle, TypeOK
  <2>2. \A k \in raised' : k \in released' \cup unseen' \/ Held(k)'
    <3>1. \A k \in Messages : Held(k) => Held(k)' \/ k = exc[g]
        BY Zenon, <2>1 DEF Held
    <3>2. ASSUME NEW k \in raised PROVE k \in released' \cup unseen' \/ Held(k)'
      <4>1. k \in Messages /\ k # NoMessage
          BY Zenon, MessageFacts DEF TypeOK
      <4>2. k \in released \cup unseen \/ Held(k)
          BY Zenon DEF Owners
      <4> QED
          BY Zenon, <2>1, <3>1, <4>1, <4>2
    <3> QED
        BY Zenon, <2>1, <3>2
  <2> QED
      BY <2>1, <2>2 DEF Owners
<1>21. CASE Catch
  <2>1. /\ released' = released \cup {tls[Main]} /\ raised' = raised /\ unseen' = unseen
        /\ done' = done /\ exc' = exc
        /\ worker' = worker /\ tls[Main] # NoMessage /\ Main \in Threads /\ Main \notin Workers
        /\ \A u \in Threads : tls'[u] = IF u = Main THEN NoMessage ELSE tls[u]
      BY ZenonT(60), <1>21, JoinsAssumption DEF Catch, Threads, goVars, TypeOK
  <2>2. \A k \in raised' : k \in released' \cup unseen' \/ Held(k)'
      BY SMTT(30), Z3T(30), <2>1 DEF Owners, Held
  <2>3. \A v \in Workers : v \in Threads
      BY Zenon DEF Threads
  <2> QED
      BY SMTT(30), Z3T(30), <2>1, <2>2, <2>3 DEF Owners
<1>22. CASE Shutdown
  <2>1. UNCHANGED <<tls, exc, released, raised, unseen, done, worker>>
      BY Zenon, <1>22 DEF Shutdown, goVars, logVars
  <2> QED
      BY Zenon, <2>1, OwnersKept
<1>23. CASE StopPool
  <2>1. UNCHANGED <<tls, exc, released, raised, unseen, done, worker>>
      BY Zenon, <1>23 DEF StopPool, goVars, logVars
  <2> QED
      BY <2>1, OwnersKept
<1>24. CASE Reclaim
  <2>1. /\ released' = released \cup ({exc[k] : k \in table} \ {NoMessage}) /\ raised' = raised
        /\ unseen' = unseen /\ tls' = tls /\ worker' = worker
        /\ \A k \in Gids : exc'[k] = NoMessage
      BY Zenon, <1>24 DEF Reclaim
  <2>2. \A k \in table : k \in Gids /\ exc[k] # NoMessage => exc[k] \in raised
      BY Zenon DEF Owners, TypeOK
  <2>3. \A k \in Gids : exc[k] # NoMessage => exc[k] \in released'
      BY Zenon, <2>1 DEF Owners, Places
  <2>4. \A k \in raised' : k \in released' \cup unseen' \/ Held(k)'
    <3>1. \A k \in Messages : Held(k) => Held(k)' \/ k \in released'
        BY Zenon, <2>1, <2>3, MessageFacts DEF Held
    <3> QED
        BY Zenon, <2>1, <3>1 DEF Owners, TypeOK
  <2>5. \A u \in Threads : tls[u] # NoMessage => \A k \in table : exc[k] # tls[u]
      BY ZenonT(60) DEF Owners, TypeOK
  <2>6. released' \subseteq raised'
      BY SMTT(30), Z3T(30), <2>1, <2>2 DEF Owners, TypeOK
  <2> QED
      BY ZenonT(60), <2>1, <2>4, <2>5, <2>6 DEF Owners
<1> QED
    BY Zenon, <1>0, <1>1, <1>2, <1>3, <1>4, <1>5, <1>6, <1>7, <1>8,
       <1>9, <1>10, <1>11, <1>12, <1>13, <1>14, <1>15, <1>16, <1>17,
       <1>18, <1>19, <1>20, <1>21, <1>22, <1>23, <1>24 DEF Next, Poll, EndPoll, Offload

-----------------------------------------------------------------------------
\* The invariant is inductive.
LEMMA Invariance == Spec => []Inv
<1>1. Inv /\ [Next]_vars => Inv'
    BY Zenon, NextWhere, OnceStep, OpsStep, OwnersStep DEF Inv, Where
<1> QED
    BY InitInv, <1>1, PTL DEF Spec

\* drive, complete_op and the last section of a goroutine that others joined
\* leave nobody behind: whoever is not done is runnable, driven, or waits for a
\* job or a goroutine that will wake it.
THEOREM GoroutinesAreFound == Spec => []NoneForgotten
<1>1. Inv => NoneForgotten
  <2> SUFFICES ASSUME Inv, NEW g \in table \ done
               PROVE  \/ g \in runnable \cup Driven
                      \/ g \in waiter \cap InPool /\ op[g] = "open"
                      \/ \E t \in table \ done : g \in joiners[t]
      BY Zenon DEF NoneForgotten
  <2>1. g \in Gids /\ g # Null
      BY Zenon, JoinsAssumption DEF Inv, Where, TypeOK
  <2>2. CASE g \in waiter
      BY Zenon, <2>1, <2>2 DEF Inv, Where, Ops
  <2>3. CASE \E w \in Workers : worker[w].g = g
      BY Zenon, <2>1, <2>3 DEF Driven
  <2>4. CASE \E t \in Gids : g \in joiners[t]
      BY Zenon, <2>1, <2>4 DEF Inv, Where, Places
  <2> QED
      BY Zenon, <2>2, <2>3, <2>4 DEF Inv, Where, Somewhere
<1> QED
    BY <1>1, Invariance, PTL

\* drive hands the exception that ends a goroutine from the slot of the worker
\* to that goroutine, never to the next one the worker polls.
THEOREM ExceptionsGoHome == Spec => []ExceptionHome
<1>1. Inv => ExceptionHome
  <2>1. NoMessage \notin Messages
      BY Zenon, MessageFacts
  <2> QED
      BY ZenonT(60), <2>1 DEF Inv, Where, Owners, ExceptionHome, TypeOK
<1> QED
    BY <1>1, Invariance, PTL

\* Throw, the end of drive, join_blocking, goroutine_drop and shutdown pass an
\* exception message on: it never has two owners, is never released under one,
\* and one that ends its goroutine is not lost.
THEOREM MessagesHaveOneOwner == Spec => []MessageOwned
<1>1. Inv => MessageOwned
  <2> SUFFICES ASSUME Inv, NEW m \in raised
               PROVE  LET owners == Cardinality({t \in Threads : tls[t] = m})
                                      + Cardinality({g \in table : exc[g] = m})
                      IN  /\ owners <= IF m \in released THEN 0 ELSE 1
                          /\ owners = 0 => m \in released \cup unseen
      BY Zenon DEF MessageOwned
  <2> DEFINE ts == {t \in Threads : tls[t] = m}
             gs == {g \in table : exc[g] = m}
  <2>1. m # NoMessage /\ table \subseteq Gids
      BY Zenon, MessageFacts DEF Inv, Where, TypeOK
  <2>2. Cardinality({}) = 0 /\ \A x : Cardinality({x}) = 1
      BY Zenon, FS_EmptySet, FS_Singleton
  <2>3. CASE \E t \in Threads : tls[t] = m
    <3>1. PICK t \in Threads : tls[t] = m
        BY Zenon, <2>3
    <3>2. ts = {t} /\ gs = {} /\ m \notin released
        BY Zenon, <2>1, <3>1 DEF Inv, Where, Owners
    <3>3. Cardinality(ts) = 1 /\ Cardinality(gs) = 0
        BY Zenon, <2>2, <3>2
    <3> HIDE DEF ts, gs
    <3>4. /\ Cardinality(ts) + Cardinality(gs) <= IF m \in released THEN 0 ELSE 1
          /\ Cardinality(ts) + Cardinality(gs) # 0
        BY <3>2, <3>3
    <3> QED
        BY Zenon, <3>4 DEF ts, gs
  <2>4. CASE ~(\E t \in Threads : tls[t] = m) /\ \E g \in Gids : exc[g] = m
    <3>1. PICK g \in Gids : exc[g] = m
        BY ZenonT(60), <2>4
    <3>2. ts = {} /\ gs = {g} /\ m \notin released
        BY SMTT(30), Z3T(30), <2>1, <2>4, <3>1 DEF Inv, Where, Owners, Places
    <3>3. Cardinality(ts) = 0 /\ Cardinality(gs) = 1
        BY Zenon, <2>2, <3>2
    <3> HIDE DEF ts, gs
    <3>4. /\ Cardinality(ts) + Cardinality(gs) <= IF m \in released THEN 0 ELSE 1
          /\ Cardinality(ts) + Cardinality(gs) # 0
        BY <3>2, <3>3
    <3> QED
        BY Zenon, <3>4 DEF ts, gs
  <2>5. CASE ~Held(m)
    <3>1. ts = {} /\ gs = {} /\ m \in released \cup unseen
        BY Zenon, <2>1, <2>5 DEF Inv, Where, Owners, Held
    <3>2. Cardinality(ts) = 0 /\ Cardinality(gs) = 0
        BY Zenon, <2>2, <3>1
    <3> HIDE DEF ts, gs
    <3>3. Cardinality(ts) + Cardinality(gs) <= IF m \in released THEN 0 ELSE 1
        BY <3>2
    <3> QED
        BY Zenon, <3>1, <3>3 DEF ts, gs
  <2> QED
      BY Zenon, <2>3, <2>4, <2>5 DEF Held
<1> QED
    BY <1>1, Invariance, PTL

\* complete_op, op_result and async_op_result pass the result of a job to the
\* task that awaits it; only a goroutine that was dropped loses one, and an op
\* that is done has no waiter.
THEOREM ResultsAreKept == Spec => []ResultKept
<1>1. Inv => ResultKept
    BY Zenon DEF Inv, Where, Ops, ResultKept
<1> QED
    BY <1>1, Invariance, PTL
=============================================================================
