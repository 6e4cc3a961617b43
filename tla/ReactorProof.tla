---------------------------- MODULE ReactorProof ----------------------------
(***************************************************************************)
(* For any number of goroutines, threads and descriptors, any deadlines    *)
(* and any clock: a goroutine is in one place, none is forgotten, the      *)
(* timers are counted, the reactor never sleeps on news, and whoever waits *)
(* for a descriptor is watched.                                            *)
(***************************************************************************)
EXTENDS Reactor, FiniteSetTheorems, WellFoundedInduction, TLAPS

-----------------------------------------------------------------------------
(* The timeout. *)

\* The keys of a BTreeMap have a least element.
LEMMA Least ==
    ASSUME NEW S, S \subseteq Nat, S # {}
    PROVE  \E m \in S : \A n \in S : m <= n
<1> DEFINE R == OpToRel(<, Nat)
<1>1. IsWellFoundedOn(R, Nat)
  BY Zenon, NatLessThanWellFounded
<1>2. PICK m \in S : \A n \in S : ~(<<n, m>> \in R)
  <2> HIDE DEF R
  <2> QED
    BY Zenon, <1>1, WFMin
<1>3. \A n \in S : ~(n < m)
  BY Zenon, <1>2 DEF OpToRel
<1> QED
  BY <1>3

\* The timeout fire_timers_and_next returns covers every timer it left.
LEMMA TimeoutCovers ==
    ASSUME TypeOK
    PROVE  /\ Timeout \in Int /\ Timeout >= -1
           /\ \A e \in Rest : Timeout # Never /\ (Timeout <= e[1] - seen \/ Timeout <= 1)
<1> USE ReactorAssumption
<1> DEFINE D == {e[1] : e \in Rest}
<1>1. D \subseteq Nat /\ seen \in Nat
  <2>1. ASSUME NEW e \in Rest PROVE e[1] \in Deadlines
    <3>1. e \in Deadlines \X Gids
      BY Zenon DEF TypeOK, Rest
    <3> QED
      BY Zenon, <3>1
  <2>2. Deadlines \subseteq Nat /\ seen \in Nat
    BY DEF TypeOK
  <2> QED
    BY Zenon, <2>1, <2>2
<1>2. CASE Rest = {}
  BY <1>2 DEF Timeout, Never
<1>3. CASE Rest # {}
  <2>0. D # {}
    BY <1>3
  <2>1. \E m \in D : \A n \in D : m <= n
    <3> HIDE DEF D
    <3> QED
      BY Zenon, <1>1, <2>0, Least
  <2> DEFINE next == CHOOSE a \in D : \A e \in Rest : a <= e[1]
             ms == IF next - seen > 1 THEN next - seen ELSE 1
  <2>2. next \in D /\ \A e \in Rest : next <= e[1]
    BY <2>1
  <2>3. Timeout = IF ms > MaxWait THEN MaxWait ELSE ms
    BY Zenon, <1>3 DEF Timeout
  <2> HIDE DEF next
  <2>4. \A e \in Rest : e[1] \in Nat
    BY Zenon, <1>1
  <2> QED
    BY <1>1, <2>2, <2>3, <2>4 DEF Never
<1> QED
  BY Zenon, <1>2, <1>3

-----------------------------------------------------------------------------
(* Types. *)

ThreadOK(r) ==
    /\ r \in [at : Steps, g : Gids \cup {Null}, io : Gids \cup {Null}, drop : BOOLEAN]
    /\ r.g # Null => r.io = r.g
    /\ r.at \in {"poll", "flush", "attach"} => r.g # Null
    /\ r.drop \/ r.at \in {"register", "detach", "dropio"} => r.io # Null

ThreadsOK ==
    /\ th \in [Threads -> [at : Steps, g : Gids \cup {Null}, io : Gids \cup {Null},
                           drop : BOOLEAN]]
    /\ \A t \in Threads : ThreadOK(th[t])

\* A step of one thread keeps the threads well formed.
LEMMA ThreadStep ==
    ASSUME TypeOK, NEW t \in Threads, NEW r, ThreadOK(r), th' = [th EXCEPT ![t] = r]
    PROVE  ThreadsOK'
  BY Zenon DEF TypeOK, ThreadsOK, ThreadOK

\* Every thread state the actions build is well formed.
LEMMA ThreadStates ==
    ASSUME TypeOK, NEW t \in Threads
    PROVE  /\ ThreadOK(th[t]) /\ ThreadOK(Free)
           /\ \A at \in {"free", "dirty", "wake"} : ThreadOK(At(t, at))
           /\ th[t].g # Null => \A at \in {"attach", "flush"} : ThreadOK(At(t, at))
           /\ ThreadOK(Thread("wake", Null, Null, FALSE))
           /\ \A g \in Gids : /\ ThreadOK(Thread("poll", g, g, FALSE))
                              /\ ThreadOK(Thread("register", Null, g, FALSE))
                              /\ ThreadOK(Thread("detach", g, g, TRUE))
                              /\ ThreadOK(Thread("detach", Null, g, TRUE))
           /\ ThreadOK(Return(t))
<1> USE ReactorAssumption
<1>1. ThreadOK(th[t])
  BY Zenon DEF TypeOK, ThreadOK
<1>4. ThreadOK(Free) /\ ThreadOK(Thread("wake", Null, Null, FALSE))
  BY Zenon DEF ThreadOK, Free, Thread, Steps
<1>5. ASSUME NEW at \in {"free", "dirty", "wake"} PROVE ThreadOK(At(t, at))
  BY Zenon, <1>1 DEF ThreadOK, At, Thread, Steps
<1>6. ASSUME th[t].g # Null, NEW at \in {"attach", "flush"} PROVE ThreadOK(At(t, at))
  BY Zenon, <1>1, <1>6 DEF ThreadOK, At, Thread, Steps
<1>7. ASSUME NEW g \in Gids
      PROVE  /\ ThreadOK(Thread("poll", g, g, FALSE))
             /\ ThreadOK(Thread("register", Null, g, FALSE))
             /\ ThreadOK(Thread("detach", g, g, TRUE))
             /\ ThreadOK(Thread("detach", Null, g, TRUE))
  BY Zenon DEF ThreadOK, Thread, Steps
<1>8. ThreadOK(Return(t))
  <2>1. CASE th[t].drop
    BY Zenon, <1>1, <2>1 DEF Return, At, Thread, ThreadOK, Steps
  <2>2. CASE ~th[t].drop /\ th[t].g = Null
    BY Zenon, <1>4, <2>2 DEF Return
  <2>3. CASE ~th[t].drop /\ th[t].g # Null
    BY ZenonT(40), <1>1, <1>7, <2>3 DEF Return, ThreadOK
  <2> QED
    BY Zenon, <2>1, <2>2, <2>3
<1> QED
  BY Zenon, <1>1, <1>4, <1>5, <1>6, <1>7, <1>8

\* Each action keeps the types.
LEMMA NextType == TypeOK /\ [Next]_vars => TypeOK'
<1> SUFFICES ASSUME TypeOK, [Next]_vars PROVE TypeOK'
  BY Zenon
<1> USE ReactorAssumption
<1> USE DEF taskVars, timerVars, ioVars, wakeVars, lifeVars, scanVars, pollVars, fdVars, worldVars
<1>1. CASE UNCHANGED vars
  BY <1>1 DEF vars, TypeOK
<1>2. CASE Tick
  BY <1>2 DEF Tick, TypeOK
<1>3. ASSUME NEW f \in Fds, Arrive(f) PROVE TypeOK'
  BY <1>3 DEF Arrive, TypeOK
<1>4. ASSUME NEW f \in Fds, Close(f) PROVE TypeOK'
  BY <1>4 DEF Close, TypeOK
<1>5. ASSUME NEW g \in Gids, Spawn(g) PROVE TypeOK'
  BY Zenon, <1>5 DEF Spawn, TypeOK
<1>6. ASSUME NEW t \in Threads, NewIo(t) PROVE TypeOK'
  <2>0. th[t].g # Null
    BY Zenon, <1>6 DEF NewIo, TypeOK
  <2>1. ThreadOK(At(t, "attach")) /\ th' = [th EXCEPT ![t] = At(t, "attach")]
    BY Zenon, <1>6, <2>0, ThreadStates DEF NewIo, Goto
  <2>9. ThreadsOK'
    BY Zenon, <2>1, ThreadStep
  <2> QED
    BY <1>6, <2>0, <2>9 DEF NewIo, TypeOK, ThreadsOK, ThreadOK
<1>7. ASSUME NEW t \in Threads, Attach(t) PROVE TypeOK'
  <2>1. ThreadOK(At(t, "dirty")) /\ th' = [th EXCEPT ![t] = At(t, "dirty")]
    BY Zenon, <1>7, ThreadStates DEF Attach, Announce, Goto
  <2>9. ThreadsOK'
    BY Zenon, <2>1, ThreadStep
  <2> QED
    BY <1>7, <2>9 DEF Attach, TypeOK, ThreadsOK, ThreadOK
<1>8. ASSUME NEW t \in Threads, Receive(t) PROVE TypeOK'
  BY <1>8 DEF Receive, TypeOK
<1>9. ASSUME NEW t \in Threads, TryIo(t) PROVE TypeOK'
  <2>0. th[t].g # Null
    BY Zenon, <1>9 DEF TryIo, TypeOK
  <2>1. ThreadOK(At(t, "flush")) /\ th' = [th EXCEPT ![t] = At(t, "flush")]
    BY Zenon, <1>9, <2>0, ThreadStates DEF TryIo, Goto
  <2>9. ThreadsOK'
    BY Zenon, <2>1, ThreadStep
  <2> QED
    BY <1>9, <2>0, <2>9 DEF TryIo, TypeOK, ThreadsOK, ThreadOK
<1>10. ASSUME NEW t \in Threads, ParkFd(t) PROVE TypeOK'
  <2>0. th[t].g \in Gids /\ th[t].io = th[t].g
    BY Zenon, <1>10 DEF ParkFd, TypeOK
  <2>1. ThreadOK(Thread("register", Null, th[t].io, FALSE)) /\ th' = [th EXCEPT ![t] = Thread("register", Null, th[t].io, FALSE)]
    BY Zenon, <1>10, <2>0, ThreadStates DEF ParkFd
  <2>9. ThreadsOK'
    BY Zenon, <2>1, ThreadStep
  <2> QED
    BY ZenonT(40), <1>10, <2>0, <2>9 DEF ParkFd, TypeOK, ThreadsOK, ThreadOK
<1>11. ASSUME NEW t \in Threads, LeaveIo(t) PROVE TypeOK'
  <2>0. th[t].g \in Gids
    BY Zenon, <1>11 DEF LeaveIo, TypeOK
  <2>1. ThreadOK(Thread("detach", th[t].g, th[t].g, TRUE)) /\ th' = [th EXCEPT ![t] = Thread("detach", th[t].g, th[t].g, TRUE)]
    BY Zenon, <1>11, <2>0, ThreadStates DEF LeaveIo
  <2>9. ThreadsOK'
    BY Zenon, <2>1, ThreadStep
  <2> QED
    BY ZenonT(40), <1>11, <2>0, <2>9 DEF LeaveIo, TypeOK, ThreadsOK, ThreadOK
<1>12. ASSUME NEW t \in Threads, Finish(t) PROVE TypeOK'
  <2>1. ThreadOK(Free) /\ th' = [th EXCEPT ![t] = Free]
    BY Zenon, <1>12, ThreadStates DEF Finish
  <2>9. ThreadsOK'
    BY Zenon, <2>1, ThreadStep
  <2> QED
    BY <1>12, <2>9 DEF Finish, TypeOK, ThreadsOK, ThreadOK
<1>13. ASSUME NEW t \in Threads, DropIo(t) PROVE TypeOK'
  <2> DEFINE r == IF th[t].g = Null THEN Free ELSE Thread("poll", th[t].g, th[t].io, FALSE)
  <2>0. ThreadOK(th[t]) /\ ThreadOK(Free)
    BY Zenon, ThreadStates
  <2>1. ThreadOK(r) /\ th' = [th EXCEPT ![t] = r]
    BY <1>13, <2>0, ThreadStates DEF DropIo, ThreadOK, Thread, Free
  <2> HIDE DEF r
  <2>9. ThreadsOK'
    BY Zenon, <2>1, ThreadStep
  <2> QED
    BY ZenonT(40), <1>13, <2>9 DEF DropIo, TypeOK, ThreadsOK, ThreadOK
<1>14. ASSUME NEW t \in Threads, SetDirty(t) PROVE TypeOK'
  <2>1. ThreadOK(At(t, "wake")) /\ th' = [th EXCEPT ![t] = At(t, "wake")]
    BY Zenon, <1>14, ThreadStates DEF SetDirty, Goto
  <2>9. ThreadsOK'
    BY Zenon, <2>1, ThreadStep
  <2> QED
    BY Zenon, <1>14, <2>9 DEF SetDirty, TypeOK, ThreadsOK, ThreadOK
<1>15. ASSUME NEW t \in Threads, StartReactor(t) PROVE TypeOK'
  BY Zenon, <1>15 DEF StartReactor, TypeOK
<1>16. ASSUME NEW t \in Threads, Wake(t) PROVE TypeOK'
  <2>1. ThreadOK(Return(t)) /\ th' = [th EXCEPT ![t] = Return(t)]
    BY Zenon, <1>16, ThreadStates DEF Wake
  <2>9. ThreadsOK'
    BY Zenon, <2>1, ThreadStep
  <2> QED
    BY Zenon, <1>16, <2>9 DEF Wake, TypeOK, ThreadsOK, ThreadOK
<1>17. ASSUME NEW t \in Threads, NEW g \in Gids, Take(t, g) PROVE TypeOK'
  <2>1. CASE g \in table
    <3>1. ThreadOK(Thread("poll", g, g, FALSE)) /\ th' = [th EXCEPT ![t] = Thread("poll", g, g, FALSE)]
      BY Zenon, <1>17, <2>1, ThreadStates DEF Take
    <3>9. ThreadsOK'
      BY Zenon, <3>1, ThreadStep
    <3> QED
      BY <1>17, <3>9 DEF Take, TypeOK, ThreadsOK, ThreadOK
  <2>2. CASE g \notin table
    BY ZenonT(40), <1>17, <2>2 DEF Take, TypeOK
  <2> QED
    BY Zenon, <2>1, <2>2
<1>18. ASSUME NEW t \in Threads, Register(t) PROVE TypeOK'
  <2>1. \E r : ThreadOK(r) /\ th' = [th EXCEPT ![t] = r]
    BY Zenon, <1>18, ThreadStates DEF Register, Goto, Announce
  <2>2. interests' \subseteq Gids
    BY <1>18 DEF Register, TypeOK
  <2>9. ThreadsOK'
    BY Zenon, <2>1, ThreadStep
  <2> QED
    BY <1>18, <2>2, <2>9 DEF Register, TypeOK, ThreadsOK, ThreadOK
<1>19. ASSUME NEW t \in Threads, NEW at \in Deadlines, ParkTimer(t, at) PROVE TypeOK'
  <2>0. th[t].g \in Gids
    BY Zenon, <1>19 DEF ParkTimer, TypeOK
  <2>1. ThreadOK(Thread("wake", Null, Null, FALSE))
    BY Zenon, ThreadStates
  <2>2. timers' \subseteq Deadlines \X Gids /\ pending' \in Int
    BY <1>19, <2>0 DEF ParkTimer, TypeOK
  <2>3. IsFiniteSet(timers')
    BY Zenon, <1>19, FS_AddElement DEF ParkTimer, TypeOK
  <2>9. ThreadsOK'
    BY Zenon, <2>1, <1>19, ThreadStep DEF ParkTimer
  <2> QED
    BY ZenonT(40), <1>19, <2>2, <2>3, <2>9 DEF ParkTimer, TypeOK, ThreadsOK, ThreadOK
<1>20. ASSUME NEW t \in Threads, NEW g \in Gids, DropHandle(t, g) PROVE TypeOK'
  <2>1. \E r : ThreadOK(r) /\ th' = [th EXCEPT ![t] = r]
    BY Zenon, <1>20, ThreadStates DEF DropHandle
  <2>2. timers' \subseteq Deadlines \X Gids /\ waiters' \subseteq Gids
    BY Zenon, <1>20 DEF DropHandle, Forget, TypeOK
  <2>3. IsFiniteSet(timers') /\ pending' \in Int
    <3>1. {e \in timers : e[2] # g} \subseteq timers /\ {e \in timers : e[2] = g} \subseteq timers
      BY Zenon
    <3>2. IsFiniteSet({e \in timers : e[2] # g}) /\ IsFiniteSet({e \in timers : e[2] = g})
      BY Zenon, <3>1, FS_Subset DEF TypeOK
    <3>3. Cardinality({e \in timers : e[2] = g}) \in Nat
      BY Zenon, <3>2, FS_CardinalityType
    <3> QED
      BY <1>20, <3>2, <3>3 DEF DropHandle, Forget, TypeOK
  <2>4. /\ table' \subseteq Gids /\ runnable' = runnable /\ fresh' = fresh
        /\ UNCHANGED <<now, core, ready, wakeVars, lifeVars, rpc, scanVars, pollVars, fdVars>>
    BY Zenon, <1>20 DEF DropHandle, TypeOK
  <2>9. ThreadsOK'
    BY Zenon, <2>1, ThreadStep
  <2> QED
    BY <2>2, <2>3, <2>4, <2>9 DEF TypeOK, ThreadsOK, ThreadOK
<1>21. ASSUME NEW t \in Threads, Detach(t) PROVE TypeOK'
  <2>1. \E r : ThreadOK(r) /\ th' = [th EXCEPT ![t] = r]
    BY Zenon, <1>21, ThreadStates DEF Detach, Announce, Goto
  <2>9. ThreadsOK'
    BY Zenon, <2>1, ThreadStep
  <2> QED
    BY <1>21, <2>9 DEF Detach, TypeOK, ThreadsOK, ThreadOK
<1>22. CASE CheckStop
  BY Zenon, <1>22 DEF CheckStop, TypeOK
<1>23. CASE LookAtTimers
  BY <1>23 DEF LookAtTimers, Never, TypeOK
<1>24. CASE ScanTimers
  <2>1. Timeout \in Int /\ due' \subseteq Gids /\ timers' \subseteq Deadlines \X Gids
    BY <1>24, TimeoutCovers DEF ScanTimers, Due, Rest, TypeOK
  <2>2. IsFiniteSet(timers') /\ pending' \in Int
    <3>1. Due \subseteq timers /\ Rest \subseteq timers
      BY Zenon DEF Due, Rest
    <3>2. IsFiniteSet(Due) /\ IsFiniteSet(Rest)
      BY Zenon, <3>1, FS_Subset DEF TypeOK
    <3>3. Cardinality(Due) \in Nat
      BY Zenon, <3>2, FS_CardinalityType
    <3> QED
      BY <1>24, <3>2, <3>3 DEF ScanTimers, TypeOK
  <2> QED
    BY Zenon, <1>24, <2>1, <2>2 DEF ScanTimers, TypeOK
<1>25. ASSUME NEW g \in Gids, FireTimer(g) PROVE TypeOK'
  BY Zenon, <1>25 DEF FireTimer, TypeOK
<1>26. CASE SwapDirty
  BY Zenon, <1>26 DEF SwapDirty, TypeOK
<1>27. CASE CopyInterests
  BY Zenon, <1>27 DEF CopyInterests, TypeOK
<1>28. CASE EnterPoll
  BY Zenon, <1>28 DEF EnterPoll, TypeOK
<1>29. CASE PollEvents
  BY Zenon, <1>29 DEF PollEvents, Readable, TypeOK
<1>30. CASE NoEvents
  BY Zenon, <1>30 DEF NoEvents, TypeOK
<1>31. CASE DrainWake
  BY ZenonT(60), <1>31 DEF DrainWake, TypeOK
<1>32. CASE WakeReadyIos
  BY <1>32 DEF WakeReadyIos, WakeWaiters, Never, TypeOK
<1>33. CASE StopReactor
  BY Zenon, <1>33 DEF StopReactor, TypeOK
<1>34. CASE StopWorkers
  BY Zenon, <1>34 DEF StopWorkers, TypeOK
<1>35. CASE Reset
  <2>1. core' \in [Gids -> {"none", "live", "gone"}]
    BY Zenon, <1>35 DEF Reset, TypeOK
  <2>2. /\ waiters' \subseteq Gids /\ ready' \subseteq Gids
        /\ timers' \subseteq Deadlines \X Gids /\ IsFiniteSet(timers')
    BY Zenon, <1>35, FS_EmptySet DEF Reset, TypeOK
  <2>3. dirty' \in BOOLEAN /\ started' \in BOOLEAN /\ wake' \in BOOLEAN /\ stop' \in BOOLEAN
    BY Zenon, <1>35 DEF Reset, TypeOK
  <2>4. /\ table' \subseteq Gids /\ runnable' \subseteq Gids /\ interests' \subseteq Gids
        /\ fresh' \subseteq Gids /\ pending' \in Int /\ now' \in 0..Horizon
        /\ phase' \in {"up", "stopping", "joining", "halted"}
    BY <1>35 DEF Reset, TypeOK
  <2>5. UNCHANGED <<th, rpc, scanVars, pollVars, fdVars>>
    BY Zenon, <1>35 DEF Reset
  <2> QED
    BY ZenonT(40), <2>1, <2>2, <2>3, <2>4, <2>5 DEF scanVars, pollVars, fdVars, TypeOK
<1>36. CASE Restart
  BY Zenon, <1>36 DEF Restart, TypeOK
<1> QED
  BY Zenon, <1>1, <1>2, <1>3, <1>4, <1>5, <1>6, <1>7, <1>8, <1>9, <1>10, <1>11, <1>12, <1>13, <1>14, <1>15, <1>16, <1>17, <1>18, <1>19, <1>20, <1>21, <1>22, <1>23, <1>24, <1>25, <1>26, <1>27, <1>28, <1>29, <1>30, <1>31, <1>32, <1>33, <1>34, <1>35, <1>36
     DEF Next, Work, Errand, ReactorStep, PollExpires, PollInterrupted

\* The state stays well formed.
THEOREM Types == Spec => []TypeOK
<1>1. Init => TypeOK
  <2> SUFFICES ASSUME Init PROVE TypeOK
    BY Zenon
  <2> USE ReactorAssumption DEF Init
  <2>1. th \in [Threads -> [at : Steps, g : Gids \cup {Null}, io : Gids \cup {Null},
                            drop : BOOLEAN]]
    BY Zenon DEF Free, Thread, Steps
  <2>2. \A t \in Threads : th[t].at = "free" /\ th[t].g = Null /\ th[t].drop = FALSE
    BY Zenon DEF Free, Thread
  <2>3. core \in [Gids -> {"none", "live", "gone"}] /\ IsFiniteSet(timers)
    BY Zenon, FS_EmptySet
  <2>4. dirty \in BOOLEAN /\ started \in BOOLEAN /\ wake \in BOOLEAN /\ stop \in BOOLEAN
    BY Zenon
  <2>5. /\ now \in 0..Horizon /\ phase \in {"up", "stopping", "joining", "halted"}
        /\ seen \in 0..Horizon /\ wait \in Int /\ left \in Int /\ pending \in Int
        /\ rpc = "off"
    BY DEF Never
  <2>6. /\ fresh \subseteq Gids /\ table \subseteq Gids /\ runnable \subseteq Gids
        /\ timers \subseteq Deadlines \X Gids
        /\ waiters \subseteq Gids /\ ready \subseteq Gids /\ interests \subseteq Gids
        /\ due \subseteq Gids /\ pollset \subseteq Gids /\ nval \subseteq Gids
        /\ hits \subseteq Gids /\ open \subseteq Fds /\ readable \subseteq Fds
    BY Zenon
  <2> QED
    BY Zenon, <2>1, <2>2, <2>3, <2>4, <2>5, <2>6 DEF TypeOK
<1> QED
  BY <1>1, NextType, PTL DEF Spec

-----------------------------------------------------------------------------
(* The inductive invariant. *)

Unique == \A t, u \in Threads : th[t].g = th[u].g /\ th[t].g # Null => t = u
OneTimer == \A d, e \in timers : d[2] = e[2] => d = e

\* Where a goroutine can be, with the ones not spawned yet: no two overlap.
Apart ==
    /\ fresh \cap (Polled \cup runnable \cup Sleeping \cup due \cup waiters) = {}
    /\ Polled \cap (runnable \cup Sleeping \cup due \cup waiters) = {}
    /\ runnable \cap (Sleeping \cup due \cup waiters) = {}
    /\ Sleeping \cap (due \cup waiters) = {} /\ due \cap waiters = {}

\* An idle thread polls nothing; only the core of a goroutine that is polled,
\* or dropped for good, is removed.
ErrandOK(r) ==
    /\ r.at = "free" => r.g = Null
    /\ r.at = "dropio" => r.drop
    /\ r.drop /\ r.g = Null => r.io \notin table \cup fresh
Errands == \A t \in Threads : ErrandOK(th[t])

\* The locals of fire_timers_and_next are used up when poll is called, and when
\* the thread has not been started.
Fired ==
    /\ due # {} => rpc = "fire"
    /\ ~started => rpc \in {"off", "exited"}

Places == Unique /\ OneTimer /\ Apart /\ Errands /\ Fired /\ NobodyForgotten /\ PendingCounts

\* A reactor that is not running finds INTERESTS_DIRTY set when it starts.
Idle == ~started => dirty

\* A change the reactor has not copied is, or will be, marked.
Marked == interests # pollset => dirty \/ rpc = "copy" \/ Telling("dirty")

\* A mark made after the reactor looked is, or will be, followed by a byte.
Announced == dirty /\ rpc \in {"copy", "enter", "poll"} => wake \/ Telling("wake")

\* So is a timer made after the reactor looked.
Timed == rpc \in {"fire", "copy", "enter", "poll"} =>
             \A e \in timers : Covers(e[1]) \/ wake \/ Telling("wake")

News == Idle /\ Marked /\ Announced /\ Timed

-----------------------------------------------------------------------------
(* Places. *)

\* A step after which every thread polls what it polled before.
LEMMA SamePolled ==
    ASSUME \A t \in Threads : th'[t].g = th[t].g, Unique
    PROVE  Polled' = Polled /\ Unique'
  BY DEF Polled, Unique

\* A thread that polls nothing any more.
LEMMA StopPolling ==
    ASSUME TypeOK, Unique, NEW t \in Threads, NEW r, r.g = Null, th' = [th EXCEPT ![t] = r]
    PROVE  Polled' = Polled \ {th[t].g} /\ Unique'
<1>1. \A u \in Threads : th'[u].g = IF u = t THEN Null ELSE th[u].g
  BY Zenon DEF TypeOK
<1> QED
  BY <1>1 DEF Polled, Unique

\* An idle thread that takes a goroutine nobody polls.
LEMMA StartPolling ==
    ASSUME TypeOK, Unique, NEW t \in Threads, th[t].g = Null, NEW g \in Gids, g \notin Polled,
           NEW r, r.g = g, th' = [th EXCEPT ![t] = r]
    PROVE  Polled' = Polled \cup {g} /\ Unique'
<1> USE ReactorAssumption
<1>1. \A u \in Threads : th'[u].g = IF u = t THEN g ELSE th[u].g
  BY Zenon DEF TypeOK
<1>2. \A u \in Threads : th[u].g # g
  BY Zenon DEF Polled
<1> QED
  BY <1>1, <1>2 DEF Polled, Unique

\* Errands are kept by a step of one thread that spawns and drops nothing.
LEMMA ErrandStep ==
    ASSUME TypeOK, Errands, NEW t \in Threads, NEW r, ErrandOK(r), th' = [th EXCEPT ![t] = r],
           table' \subseteq table, fresh' \subseteq fresh
    PROVE  Errands'
  BY Zenon DEF TypeOK, Errands, ErrandOK

\* A step that moves no goroutine.
LEMMA NobodyMoves ==
    ASSUME TypeOK, Places, UNCHANGED <<taskVars, timerVars, due, waiters>>,
           \A t \in Threads : th'[t].g = th[t].g, Errands', Fired'
    PROVE  Places'
<1>1. Polled' = Polled /\ Unique'
  BY Zenon, SamePolled DEF Places
<1>2. Sleeping' = Sleeping
  BY Zenon DEF Sleeping, timerVars
<1> QED
  BY Zenon, <1>1, <1>2 DEF Places, Apart, NobodyForgotten, OneTimer, PendingCounts, taskVars, timerVars

\* A step of a thread that keeps its goroutine, and moves none.
LEMMA ThreadGoesOn ==
    ASSUME TypeOK, Places, NEW t \in Threads, NEW r, r.g = th[t].g, ErrandOK(r),
           th' = [th EXCEPT ![t] = r],
           UNCHANGED <<taskVars, timerVars, due, waiters, rpc, started>>
    PROVE  Places'
<1>1. \A u \in Threads : th'[u].g = th[u].g
  BY Zenon DEF TypeOK
<1>2. Errands'
  BY Zenon, ErrandStep DEF Places, taskVars
<1>3. Fired'
  BY Zenon DEF Places, Fired
<1> QED
  BY Zenon, <1>1, <1>2, <1>3, NobodyMoves

\* How a thread continues after a change of the interests.
LEMMA Continues ==
    ASSUME TypeOK, Errands, NEW t \in Threads
    PROVE  /\ Return(t).g = th[t].g /\ ErrandOK(Return(t))
           /\ \A at \in {"attach", "flush", "dirty", "wake"} :
                At(t, at).g = th[t].g /\ ErrandOK(At(t, at))
<1>1. ErrandOK(th[t])
  BY Zenon DEF Errands
<1>2. \A at \in {"attach", "flush", "dirty", "wake"} : At(t, at).g = th[t].g /\ ErrandOK(At(t, at))
  BY Zenon, <1>1 DEF At, Thread, ErrandOK
<1>3. Return(t).g = th[t].g /\ ErrandOK(Return(t))
  <2>1. CASE th[t].drop
    BY Zenon, <1>1, <2>1 DEF Return, At, Thread, ErrandOK
  <2>2. CASE ~th[t].drop /\ th[t].g = Null
    BY Zenon, <2>2 DEF Return, Free, Thread, ErrandOK
  <2>3. CASE ~th[t].drop /\ th[t].g # Null
    BY Zenon, <2>3 DEF Return, Thread, ErrandOK
  <2> QED
    BY Zenon, <2>1, <2>2, <2>3
<1> QED
  BY Zenon, <1>2, <1>3

\* The steps that move a goroutine.

\* A spawned goroutine is runnable.
LEMMA SpawnPlaces ==
    ASSUME TypeOK, Places, NEW g \in Gids, Spawn(g) PROVE Places'
<1>0. Polled' = Polled /\ Unique'
  BY Zenon, SamePolled DEF Spawn, Places
<1>1. Sleeping' = Sleeping /\ OneTimer' /\ PendingCounts'
  BY Zenon DEF Spawn, Places, Sleeping, OneTimer, PendingCounts, timerVars
<1>2. Apart' /\ NobodyForgotten' /\ Fired'
  BY <1>0, <1>1 DEF Spawn, Places, Apart, NobodyForgotten, Fired, scanVars, ioVars, lifeVars
<1>3. Errands'
  BY Zenon DEF Spawn, Places, Errands, ErrandOK
<1> QED
  BY Zenon, <1>0, <1>1, <1>2, <1>3 DEF Places

\* A taken goroutine is polled, or was dropped.
LEMMA TakePlaces ==
    ASSUME TypeOK, Places, NEW t \in Threads, NEW g \in Gids, Take(t, g) PROVE Places'
<1>1. Sleeping' = Sleeping /\ OneTimer' /\ PendingCounts' /\ Fired'
  BY Zenon DEF Take, Places, Sleeping, OneTimer, PendingCounts, Fired, timerVars, scanVars, lifeVars
<1>2. CASE g \in table
  <2> DEFINE r == Thread("poll", g, g, FALSE)
  <2>1. r.g = g /\ ErrandOK(r) /\ th' = [th EXCEPT ![t] = r]
    BY Zenon, <1>2, ReactorAssumption DEF Take, Thread, ErrandOK
  <2>2. th[t].g = Null /\ g \notin Polled
    BY Zenon DEF Take, Places, Errands, ErrandOK, Apart
  <2> HIDE DEF r
  <2>3. Polled' = Polled \cup {g} /\ Unique'
    BY Zenon, <2>1, <2>2, StartPolling DEF Places
  <2>4. Errands'
    BY Zenon, <2>1, ErrandStep DEF Places, Take
  <2> QED
    BY <1>1, <2>3, <2>4 DEF Take, Places, Apart, NobodyForgotten, ioVars, scanVars
<1>3. CASE g \notin table
  <2>1. Polled' = Polled /\ Unique' /\ Errands'
    BY Zenon, <1>3, SamePolled DEF Take, Places, Errands, ErrandOK
  <2> QED
    BY Zenon, <1>1, <1>3, <2>1 DEF Take, Places, Apart, NobodyForgotten, ioVars, scanVars
<1> QED
  BY Zenon, <1>2, <1>3

\* A goroutine parked on a descriptor waits on its core.
LEMMA ParkFdPlaces ==
    ASSUME TypeOK, Places, NEW t \in Threads, ParkFd(t) PROVE Places'
<1> DEFINE r == Thread("register", Null, th[t].io, FALSE)
<1>1. r.g = Null /\ ErrandOK(r) /\ th' = [th EXCEPT ![t] = r]
  BY Zenon DEF ParkFd, Thread, ErrandOK
<1>2. th[t].g \in Polled
  BY Zenon DEF ParkFd, TypeOK, Polled
<1> HIDE DEF r
<1>3. Polled' = Polled \ {th[t].g} /\ Unique'
  BY Zenon, <1>1, StopPolling DEF Places
<1>4. Errands'
  BY Zenon, <1>1, ErrandStep DEF Places, ParkFd, taskVars
<1>5. Sleeping' = Sleeping /\ OneTimer' /\ PendingCounts' /\ Fired'
  BY Zenon DEF ParkFd, Places, Sleeping, OneTimer, PendingCounts, Fired, timerVars, scanVars, lifeVars
<1> QED
  BY <1>2, <1>3, <1>4, <1>5 DEF ParkFd, Places, Apart, NobodyForgotten, taskVars, scanVars

\* A goroutine parked on a timer sleeps, and is counted.
LEMMA ParkTimerPlaces ==
    ASSUME TypeOK, Places, NEW t \in Threads, NEW at \in Deadlines, ParkTimer(t, at) PROVE Places'
<1> DEFINE r == Thread("wake", Null, Null, FALSE)
           g == th[t].g
<1>1. r.g = Null /\ ErrandOK(r) /\ th' = [th EXCEPT ![t] = r]
  BY Zenon DEF ParkTimer, Thread, ErrandOK
<1>2. g \in Polled
  BY Zenon DEF ParkTimer, TypeOK, Polled
<1>3. \A e \in timers : e[2] # g
  <2>1. g \notin Sleeping
    BY Zenon, <1>2 DEF Places, Apart
  <2> QED
    BY Zenon, <2>1 DEF Sleeping
<1>4. Sleeping' = Sleeping \cup {g}
  <2>1. timers' = timers \cup {<<at, g>>} /\ <<at, g>>[2] = g
    BY Zenon DEF ParkTimer
  <2> HIDE DEF g
  <2> QED
    BY Zenon, <2>1 DEF Sleeping
<1>5. OneTimer'
  BY <1>3 DEF ParkTimer, OneTimer, Places
<1>6. PendingCounts'
  <2>1. <<at, g>> \notin timers
    BY Zenon, <1>3
  <2> QED
    BY Zenon, <2>1, FS_AddElement DEF ParkTimer, PendingCounts, Places, TypeOK
<1> HIDE DEF r
<1>7. Polled' = Polled \ {g} /\ Unique'
  BY Zenon, <1>1, StopPolling DEF Places
<1>8. Errands'
  BY Zenon, <1>1, ErrandStep DEF Places, ParkTimer, taskVars
<1> QED
  BY <1>2, <1>4, <1>5, <1>6, <1>7, <1>8
     DEF ParkTimer, Places, Apart, NobodyForgotten, Fired, taskVars, ioVars, scanVars, lifeVars

\* A finished goroutine leaves the table.
LEMMA FinishPlaces ==
    ASSUME TypeOK, Places, NEW t \in Threads, Finish(t) PROVE Places'
<1>1. Free.g = Null /\ ErrandOK(Free) /\ th' = [th EXCEPT ![t] = Free]
  BY Zenon DEF Finish, Free, Thread, ErrandOK
<1>2. Polled' = Polled \ {th[t].g} /\ Unique'
  BY Zenon, <1>1, StopPolling DEF Places
<1>3. Errands'
  BY Zenon, <1>1, ErrandStep DEF Places, Finish
<1>4. Sleeping' = Sleeping /\ OneTimer' /\ PendingCounts' /\ Fired'
  BY Zenon DEF Finish, Places, Sleeping, OneTimer, PendingCounts, Fired, timerVars, scanVars, lifeVars
<1> QED
  BY Zenon, <1>2, <1>3, <1>4 DEF Finish, Places, Apart, NobodyForgotten, ioVars, scanVars

\* Taking timers out of the table and out of the count keeps the count exact.
LEMMA CountLess ==
    ASSUME TypeOK, PendingCounts, NEW D, D \subseteq timers, timers' = timers \ D,
           pending' = pending - Cardinality(D)
    PROVE  PendingCounts'
<1>1. timers \cap D = D
  BY Zenon
<1>2. Cardinality(timers \ D) = Cardinality(timers) - Cardinality(timers \cap D)
  BY Zenon, FS_Difference DEF TypeOK
<1> QED
  BY Zenon, <1>1, <1>2 DEF PendingCounts

\* A dropped goroutine leaves the table, the timers and the waiters.
LEMMA DropHandlePlaces ==
    ASSUME TypeOK, Places, NEW t \in Threads, NEW g \in Gids, DropHandle(t, g) PROVE Places'
<1> DEFINE r == IF core[g] = "live" THEN Thread("detach", Null, g, TRUE) ELSE Free
           D == {e \in timers : e[2] = g}
<1>1. r.g = Null /\ r.at \in {"detach", "free"} /\ r.io \in {g, Null} /\ th' = [th EXCEPT ![t] = r]
  BY Zenon DEF DropHandle, Thread, Free
<1>2. th[t].g = Null
  BY Zenon DEF DropHandle, Places, Errands, ErrandOK
<1>3. Polled' = Polled /\ Unique'
  <2> HIDE DEF r
  <2>1. Polled' = Polled \ {Null} /\ Unique'
    BY Zenon, <1>1, <1>2, StopPolling DEF Places
  <2> QED
    BY Zenon, <2>1 DEF Polled
<1>4. Sleeping' = Sleeping \ {g} /\ OneTimer'
  BY Zenon DEF DropHandle, Forget, Sleeping, Places, OneTimer
<1>5. PendingCounts'
  <2>1. D \subseteq timers /\ timers' = timers \ D /\ pending' = pending - Cardinality(D)
    BY Zenon DEF DropHandle, Forget
  <2> QED
    BY Zenon, <2>1, CountLess DEF Places
<1>6. g \notin fresh
  BY Zenon DEF DropHandle, Places, Apart, NobodyForgotten
<1>7. Errands'
  <2>1. g \notin table' \cup fresh'
    BY Zenon, <1>6 DEF DropHandle
  <2>2. Null \notin table' \cup fresh'
    BY Zenon, ReactorAssumption DEF DropHandle, TypeOK
  <2>3. r.io \notin table' \cup fresh'
    BY Zenon, <1>1, <2>1, <2>2
  <2> HIDE DEF r
  <2>4. \A u \in Threads \ {t} : th'[u] = th[u] /\ ErrandOK(th[u])
    BY Zenon, <1>1 DEF TypeOK, Places, Errands
  <2>5. th'[t] = r /\ table' \subseteq table /\ fresh' = fresh
    BY Zenon, <1>1 DEF TypeOK, DropHandle
  <2> QED
    BY <1>1, <2>3, <2>4, <2>5 DEF Errands, ErrandOK
<1> QED
  BY Zenon, <1>3, <1>4, <1>5, <1>7
     DEF DropHandle, Forget, Places, Apart, NobodyForgotten, Fired, scanVars, lifeVars

\* Only the core of a goroutine that does not wait on it is dropped.
LEMMA DropIoPlaces ==
    ASSUME TypeOK, Places, NEW t \in Threads, DropIo(t) PROVE Places'
<1> DEFINE r == IF th[t].g = Null THEN Free ELSE Thread("poll", th[t].g, th[t].io, FALSE)
<1>1. r.g = th[t].g /\ ErrandOK(r) /\ th' = [th EXCEPT ![t] = r]
  BY Zenon DEF DropIo, Thread, Free, ErrandOK
<1>2. \A u \in Threads : th'[u].g = th[u].g
  BY Zenon, <1>1 DEF TypeOK
<1> HIDE DEF r
<1>3. Polled' = Polled /\ Unique'
  BY Zenon, <1>2, SamePolled DEF Places
<1>4. Errands'
  BY Zenon, <1>1, ErrandStep DEF Places, DropIo, taskVars
<1>5. Sleeping' = Sleeping /\ OneTimer' /\ PendingCounts' /\ Fired'
  BY Zenon DEF DropIo, Places, Sleeping, OneTimer, PendingCounts, Fired, timerVars, scanVars, lifeVars
<1>6. th[t].io \notin waiters \cap table
  <2>1. CASE th[t].g = Null
    BY Zenon, <2>1 DEF DropIo, Places, Errands, ErrandOK
  <2>2. CASE th[t].g # Null
    <3>1. th[t].io = th[t].g /\ th[t].g \in Polled
      BY Zenon, <2>2 DEF TypeOK, Polled
    <3> QED
      BY Zenon, <3>1 DEF Places, Apart
  <2> QED
    BY Zenon, <2>1, <2>2
<1> QED
  BY Zenon, <1>3, <1>4, <1>5, <1>6 DEF DropIo, Places, Apart, NobodyForgotten, taskVars, scanVars

\* The timers that are due become goroutines to fire.
LEMMA ScanTimersPlaces ==
    ASSUME TypeOK, Places, ScanTimers PROVE Places'
<1> USE DEF worldVars
<1>1. Polled' = Polled /\ Unique' /\ Errands'
  <2>1. th' = th /\ table' = table /\ fresh' = fresh
    BY Zenon DEF ScanTimers
  <2> QED
    BY Zenon, <2>1, SamePolled DEF Places, Errands, ErrandOK
<1>2. timers' = timers \ Due /\ Due \subseteq timers /\ due = {}
  <2>1. ASSUME NEW e \in timers PROVE e[1] \in Int /\ seen \in Int
    <3>1. e \in Deadlines \X Gids
      BY Zenon DEF TypeOK
    <3>2. e[1] \in Deadlines
      BY Zenon, <3>1
    <3>3. Deadlines \subseteq Int /\ seen \in Int
      BY ReactorAssumption DEF TypeOK
    <3> QED
      BY Zenon, <3>2, <3>3
  <2>2. timers \ Due = Rest
    BY <2>1 DEF Due, Rest
  <2> QED
    BY Zenon, <2>2 DEF ScanTimers, Due, Places, Fired
<1>3. PendingCounts'
  BY Zenon, <1>2, CountLess DEF ScanTimers, Places
<1>4. OneTimer' /\ Fired'
  BY Zenon, <1>2 DEF ScanTimers, Places, OneTimer, Fired, lifeVars
<1>5. Sleeping = Sleeping' \cup due' /\ Sleeping' \cap due' = {}
  <2>1. Sleeping' = {e[2] : e \in timers \ Due} /\ due' = {e[2] : e \in Due}
    BY Zenon, <1>2 DEF ScanTimers, Sleeping
  <2> QED
    BY Zenon, <1>2, <2>1 DEF Places, OneTimer, Sleeping
<1> QED
  BY <1>1, <1>2, <1>3, <1>4, <1>5 DEF ScanTimers, Places, Apart, NobodyForgotten

\* A fired goroutine is runnable.
LEMMA FireTimerPlaces ==
    ASSUME TypeOK, Places, NEW g \in Gids, FireTimer(g) PROVE Places'
<1> USE DEF worldVars
<1>1. Polled' = Polled /\ Unique'
  BY Zenon, SamePolled DEF FireTimer, Places
<1>2. Errands'
  BY Zenon DEF FireTimer, Places, Errands, ErrandOK
<1>3. Sleeping' = Sleeping /\ OneTimer' /\ PendingCounts' /\ Fired'
  BY Zenon DEF FireTimer, Places, Sleeping, OneTimer, PendingCounts, Fired, timerVars, lifeVars
<1> QED
  BY <1>1, <1>2, <1>3 DEF FireTimer, Places, Apart, NobodyForgotten

\* The waiters of a ready core become runnable.
LEMMA WakeReadyIosPlaces ==
    ASSUME TypeOK, Places, WakeReadyIos PROVE Places'
<1> USE DEF worldVars
<1>1. Polled' = Polled /\ Unique'
  BY Zenon, SamePolled DEF WakeReadyIos, Places
<1>2. Errands'
  BY Zenon DEF WakeReadyIos, Places, Errands, ErrandOK
<1>3. Sleeping' = Sleeping /\ OneTimer' /\ PendingCounts' /\ Fired'
  BY Zenon DEF WakeReadyIos, Places, Sleeping, OneTimer, PendingCounts, Fired, timerVars, lifeVars
<1>4. PICK live : /\ runnable' = runnable \cup (waiters \cap live)
                  /\ waiters' = waiters \ live
  BY Zenon DEF WakeReadyIos, WakeWaiters
<1> QED
  BY Zenon, <1>1, <1>2, <1>3, <1>4 DEF WakeReadyIos, Places, Apart, NobodyForgotten

\* Shutdown forgets all goroutines.
LEMMA ResetPlaces ==
    ASSUME TypeOK, Places, Reset PROVE Places'
<1>1. Polled' = Polled /\ Unique'
  BY Zenon, SamePolled DEF Reset, Places
<1>2. Errands'
  BY Zenon DEF Reset, Places, Errands, ErrandOK
<1>3. Sleeping' = {} /\ OneTimer' /\ PendingCounts' /\ Fired'
  BY Zenon, FS_EmptySet DEF Reset, Places, Sleeping, OneTimer, PendingCounts, Fired, scanVars, lifeVars
<1> QED
  BY Zenon, <1>1, <1>2, <1>3 DEF Reset, Places, Apart, NobodyForgotten, scanVars

\* Every step keeps the places.
LEMMA NextPlaces == TypeOK /\ Places /\ [Next]_vars => Places'
<1> SUFFICES ASSUME TypeOK, Places, [Next]_vars PROVE Places'
  BY Zenon
<1> USE DEF taskVars, timerVars, ioVars, wakeVars, lifeVars, scanVars, pollVars, fdVars, worldVars
<1>0. ASSUME UNCHANGED <<taskVars, timerVars, due, waiters, th>>, Fired' PROVE Places'
  <2>1. Errands'
    BY Zenon, <1>0 DEF Places, Errands, ErrandOK
  <2>2. \A t \in Threads : th'[t].g = th[t].g
    BY Zenon, <1>0
  <2> QED
    BY Zenon, <1>0, <2>1, <2>2, NobodyMoves
<1>1. CASE UNCHANGED vars
  BY ZenonT(60), <1>0, <1>1 DEF vars, Places, Fired
<1>2. CASE Tick \/ (\E f \in Fds : Arrive(f) \/ Close(f)) \/ StopReactor \/ StopWorkers \/ Restart
  BY <1>0, <1>2 DEF Tick, Arrive, Close, StopReactor, StopWorkers, Restart, Places, Fired
<1>3. CASE CheckStop \/ LookAtTimers \/ SwapDirty \/ CopyInterests \/ EnterPoll \/ PollEvents
           \/ NoEvents \/ DrainWake
  BY Zenon, <1>0, <1>3 DEF CheckStop, LookAtTimers, SwapDirty, CopyInterests, EnterPoll, PollEvents,
                    NoEvents, DrainWake, Places, Fired
<1>4. CASE ScanTimers \/ (\E g \in Gids : FireTimer(g)) \/ WakeReadyIos
  BY Zenon, <1>4, ScanTimersPlaces, FireTimerPlaces, WakeReadyIosPlaces
<1>5. CASE Reset \/ \E g \in Gids : Spawn(g)
  BY Zenon, <1>5, ResetPlaces, SpawnPlaces
<1>6. ASSUME NEW t \in Threads, Work(t) PROVE Places'
  <2>1. ASSUME NewIo(t) \/ TryIo(t) PROVE Places'
    BY Zenon, <2>1, ThreadGoesOn, Continues DEF NewIo, TryIo, Goto, Places
  <2>2. CASE Receive(t)
    BY Zenon, <1>0, <2>2 DEF Receive, Places, Fired
  <2>3. CASE LeaveIo(t)
    <3> DEFINE r == Thread("detach", th[t].g, th[t].g, TRUE)
    <3>1. r.g = th[t].g /\ ErrandOK(r)
      BY Zenon, <2>3 DEF LeaveIo, Thread, ErrandOK, TypeOK
    <3> HIDE DEF r
    <3>2. th' = [th EXCEPT ![t] = r]
      BY Zenon, <2>3 DEF LeaveIo, r
    <3> QED
      BY Zenon, <2>3, <3>1, <3>2, ThreadGoesOn DEF LeaveIo
  <2> QED
    BY Zenon, <1>6, <2>1, <2>2, <2>3, FinishPlaces, ParkTimerPlaces, TakePlaces, DropHandlePlaces DEF Work
<1>7. ASSUME NEW t \in Threads, Errand(t) PROVE Places'
  <2>1. CASE StartReactor(t)
    BY Zenon, <1>0, <2>1 DEF StartReactor, Places, Fired
  <2>2. ASSUME NEW r \in {Return(t), At(t, "dirty"), At(t, "wake")}, th' = [th EXCEPT ![t] = r],
               UNCHANGED <<taskVars, timerVars, due, waiters, rpc, started>>
        PROVE  Places'
    BY Zenon, <2>2, ThreadGoesOn, Continues DEF Places
  <2>3. CASE Attach(t) \/ SetDirty(t)
    BY Zenon, <2>2, <2>3 DEF Attach, SetDirty, Announce, Goto
  <2>4. CASE Register(t) \/ Detach(t)
    BY Zenon, <2>2, <2>4 DEF Register, Detach, Announce, Goto
  <2>5. CASE Wake(t)
    BY Zenon, <2>2, <2>5 DEF Wake
  <2> QED
    BY Zenon, <1>7, <2>1, <2>3, <2>4, <2>5, ParkFdPlaces, DropIoPlaces DEF Errand
<1> QED
  BY Zenon, <1>1, <1>2, <1>3, <1>4, <1>5, <1>6, <1>7 DEF Next, ReactorStep, PollExpires, PollInterrupted

-----------------------------------------------------------------------------
(* News. *)

\* What the reactor has seen, and the pipe.
watchVars == <<rpc, seen, wait, pollset, started, wake>>

\* A thread that is not telling the reactor leaves the ones that are.
LEMMA StillTelling ==
    ASSUME TypeOK, NEW t \in Threads, NEW r, th' = [th EXCEPT ![t] = r],
           NEW at, th[t].at # at \/ r.at = at, Telling(at)
    PROVE  Telling(at)'
  BY Zenon DEF TypeOK, Telling

\* A thread that starts telling the reactor is one that is telling it.
LEMMA StartsTelling ==
    ASSUME TypeOK, NEW t \in Threads, NEW r, th' = [th EXCEPT ![t] = r]
    PROVE  Telling(r.at)'
<1>1. th'[t].at = r.at
  BY Zenon DEF TypeOK
<1> QED
  BY Zenon, <1>1 DEF Telling

\* A step that tells the reactor nothing, because nothing it waits for is new.
LEMMA NoNews ==
    ASSUME News, UNCHANGED <<watchVars, interests, dirty>>, timers' \subseteq timers,
           Telling("dirty") => Telling("dirty")', Telling("wake") => Telling("wake")'
    PROVE  News'
  BY Zenon DEF News, Idle, Marked, Announced, Timed, Covers, watchVars

\* A step of a thread that is not about to tell the reactor anything.
LEMMA ThreadWorks ==
    ASSUME TypeOK, News, NEW t \in Threads, th[t].at \notin {"dirty", "wake"},
           NEW r, th' = [th EXCEPT ![t] = r],
           UNCHANGED <<watchVars, interests, dirty>>, timers' \subseteq timers
    PROVE  News'
<1>1. Telling("dirty") => Telling("dirty")'
  BY Zenon, StillTelling
<1>2. Telling("wake") => Telling("wake")'
  BY Zenon, StillTelling
<1> QED
  BY Zenon, <1>1, <1>2, NoNews

\* A change of the interest table.
LEMMA InterestsChange ==
    ASSUME TypeOK, News, NEW t \in Threads, th[t].at \notin {"dirty", "wake"}, Announce(t),
           UNCHANGED <<watchVars, dirty, timers>>
    PROVE  News'
<1> DEFINE r == At(t, "dirty")
<1>1. th' = [th EXCEPT ![t] = r] /\ r.at = "dirty"
  BY Zenon DEF Announce, Goto, At, Thread
<1> HIDE DEF r
<1>2. Telling("dirty")'
  BY Zenon, <1>1, StartsTelling
<1>3. Telling("wake") => Telling("wake")'
  BY Zenon, <1>1, StillTelling
<1> QED
  BY Zenon, <1>2, <1>3 DEF News, Idle, Marked, Announced, Timed, Covers, watchVars

\* Changing the table, marking it and writing the byte keep News.
LEMMA ErrandNews ==
    ASSUME TypeOK, News, NEW t \in Threads, Errand(t) PROVE News'
<1> USE DEF taskVars, timerVars, ioVars, wakeVars, lifeVars, scanVars, pollVars
<1>1. CASE Attach(t)
  BY Zenon, <1>1, InterestsChange DEF Attach, watchVars
<1>2. CASE ParkFd(t)
  BY Zenon, <1>2, ThreadWorks DEF ParkFd, watchVars
<1>3. CASE Register(t)
  <2>1. CASE Announce(t)
    BY Zenon, <1>3, <2>1, InterestsChange DEF Register, watchVars
  <2>2. ASSUME NEW r, th' = [th EXCEPT ![t] = r], UNCHANGED interests PROVE News'
    BY Zenon, <1>3, <2>2, ThreadWorks DEF Register, watchVars
  <2> QED
    BY Zenon, <1>3, <2>1, <2>2 DEF Register, Goto
<1>4. CASE Detach(t)
  <2>1. CASE th[t].io \in interests
    BY Zenon, <1>4, <2>1, InterestsChange DEF Detach, watchVars
  <2>2. CASE th[t].io \notin interests
    <3>1. interests' = interests
      BY Zenon, <1>4, <2>2 DEF Detach
    <3> QED
      BY Zenon, <1>4, <2>2, <3>1, ThreadWorks DEF Detach, watchVars
  <2> QED
    BY Zenon, <2>1, <2>2
<1>5. CASE DropIo(t)
  BY Zenon, <1>5, ThreadWorks DEF DropIo, watchVars
<1>6. CASE SetDirty(t)
  <2> DEFINE r == At(t, "wake")
  <2>1. th' = [th EXCEPT ![t] = r] /\ r.at = "wake"
    BY Zenon, <1>6 DEF SetDirty, Goto, At, Thread
  <2> HIDE DEF r
  <2>2. Telling("wake")'
    BY Zenon, <2>1, StartsTelling
  <2> QED
    BY Zenon, <1>6, <2>2 DEF SetDirty, News, Idle, Marked, Announced, Timed, Covers
<1>7. CASE StartReactor(t)
  BY Zenon, <1>7 DEF StartReactor, News, Idle, Marked, Announced, Timed
<1>8. CASE Wake(t)
  <2>1. Telling("dirty") => Telling("dirty")'
    BY Zenon, <1>8, StillTelling DEF Wake
  <2> QED
    BY Zenon, <1>8, <2>1 DEF Wake, News, Idle, Marked, Announced, Timed, Covers
<1> QED
  BY Zenon, <1>1, <1>2, <1>3, <1>4, <1>5, <1>6, <1>7, <1>8 DEF Errand

\* A goroutine that parks on a timer announces it; the rest is no news.
LEMMA WorkNews ==
    ASSUME TypeOK, News, NEW t \in Threads, Work(t) PROVE News'
<1> USE DEF taskVars, timerVars, ioVars, wakeVars, lifeVars, scanVars, pollVars
<1>1. CASE NewIo(t) \/ TryIo(t)
  BY Zenon, <1>1, ThreadWorks DEF NewIo, TryIo, Goto, watchVars
<1>2. CASE Receive(t)
  BY Zenon, <1>2, NoNews DEF Receive, Telling, watchVars
<1>3. CASE LeaveIo(t) \/ Finish(t)
  BY Zenon, <1>3, ThreadWorks DEF LeaveIo, Finish, watchVars
<1>4. ASSUME NEW at \in Deadlines, ParkTimer(t, at) PROVE News'
  <2> DEFINE r == Thread("wake", Null, Null, FALSE)
  <2>1. th' = [th EXCEPT ![t] = r] /\ r.at = "wake"
    BY Zenon, <1>4 DEF ParkTimer, Thread
  <2> HIDE DEF r
  <2>2. Telling("wake")'
    BY Zenon, <2>1, StartsTelling
  <2>3. Telling("dirty") => Telling("dirty")'
    BY Zenon, <1>4, <2>1, StillTelling DEF ParkTimer
  <2> QED
    BY Zenon, <1>4, <2>2, <2>3 DEF ParkTimer, News, Idle, Marked, Announced, Timed
<1>5. ASSUME NEW g \in Gids, Take(t, g) PROVE News'
  <2>1. CASE g \in table
    BY Zenon, <1>5, <2>1, ThreadWorks DEF Take, watchVars
  <2>2. CASE g \notin table
    BY Zenon, <1>5, <2>2, NoNews DEF Take, Telling, watchVars
  <2> QED
    BY Zenon, <2>1, <2>2
<1>6. ASSUME NEW g \in Gids, DropHandle(t, g) PROVE News'
  BY Zenon, <1>6, ThreadWorks DEF DropHandle, Forget, watchVars
<1> QED
  BY Zenon, <1>1, <1>2, <1>3, <1>4, <1>5, <1>6 DEF Work

\* The reactor looks, copies, sleeps and drains in an order that keeps News.
LEMMA ReactorNews ==
    ASSUME TypeOK, Places, News, ReactorStep \/ PollInterrupted PROVE News'
<1> USE DEF taskVars, timerVars, ioVars, wakeVars, lifeVars, scanVars, pollVars, fdVars, worldVars
<1> USE DEF News, Idle, Marked, Announced, Timed, Telling
<1>1. CASE CheckStop
  BY Zenon, <1>1 DEF CheckStop
<1>2. CASE LookAtTimers
  <2>1. pending <= 0 => timers = {}
    <3>1. Cardinality(timers) \in Nat /\ (Cardinality(timers) = 0 <=> timers = {})
      BY Zenon, FS_CardinalityType, FS_EmptySet DEF TypeOK
    <3> QED
      BY <3>1 DEF Places, PendingCounts
  <2> QED
    BY Zenon, <1>2, <2>1 DEF LookAtTimers
<1>3. CASE ScanTimers
  <2>1. \A e \in timers' : Covers(e[1])'
    BY Zenon, <1>3, TimeoutCovers DEF ScanTimers, Covers
  <2> QED
    BY Zenon, <1>3, <2>1 DEF ScanTimers
<1>4. ASSUME NEW g \in Gids, FireTimer(g) PROVE News'
  BY Zenon, <1>4 DEF FireTimer, Covers
<1>5. CASE SwapDirty
  BY Zenon, <1>5 DEF SwapDirty, Covers, Places, Fired
<1>6. CASE CopyInterests
  BY Zenon, <1>6 DEF CopyInterests, Covers
<1>7. CASE EnterPoll
  BY Zenon, <1>7 DEF EnterPoll, Covers
<1>8. CASE PollEvents
  BY Zenon, <1>8 DEF PollEvents
<1>9. CASE NoEvents
  BY Zenon, <1>9 DEF NoEvents
<1>10. CASE DrainWake
  BY Zenon, <1>10 DEF DrainWake
<1>11. CASE WakeReadyIos
  BY Zenon, <1>11 DEF WakeReadyIos
<1> QED
  BY Zenon, <1>1, <1>2, <1>3, <1>4, <1>5, <1>6, <1>7, <1>8, <1>9, <1>10, <1>11
     DEF ReactorStep, PollExpires, PollInterrupted

\* Every step keeps News.
LEMMA NextNews == TypeOK /\ Places /\ News /\ [Next]_vars => News'
<1> SUFFICES ASSUME TypeOK, Places, News, [Next]_vars PROVE News'
  BY Zenon
<1> USE DEF taskVars, timerVars, ioVars, wakeVars, lifeVars, scanVars, pollVars, fdVars
<1>1. CASE UNCHANGED vars
  BY Zenon, <1>1, NoNews DEF vars, watchVars, Telling
<1>2. CASE Tick \/ \E f \in Fds : Arrive(f) \/ Close(f)
  BY Zenon, <1>2, NoNews DEF Tick, Arrive, Close, watchVars, Telling
<1>3. CASE (\E g \in Gids : Spawn(g)) \/ StopReactor \/ Restart
  BY Zenon, <1>3, NoNews DEF Spawn, StopReactor, Restart, watchVars, Telling
<1>4. CASE StopWorkers
  BY Zenon, <1>4 DEF StopWorkers, News, Idle, Marked, Announced, Timed, Telling
<1>5. CASE Reset
  BY Zenon, <1>5 DEF Reset, News, Idle, Marked, Announced, Timed
<1> QED
  BY Zenon, <1>1, <1>2, <1>3, <1>4, <1>5, ErrandNews, WorkNews, ReactorNews DEF Next

-----------------------------------------------------------------------------
(* The theorems. *)

\* The runtime starts with nobody anywhere and the flag set.
LEMMA InitPlaces == Init => Places /\ News
<1> SUFFICES ASSUME Init PROVE Places /\ News
  BY Zenon
<1>1. Polled = {} /\ Sleeping = {} /\ Unique /\ OneTimer /\ PendingCounts /\ Errands
  BY Zenon, FS_EmptySet DEF Init, Polled, Sleeping, Unique, OneTimer, PendingCounts, Errands, ErrandOK,
                     Free, Thread
<1>2. Apart /\ Fired /\ NobodyForgotten
  BY Zenon, <1>1 DEF Init, Apart, Fired, NobodyForgotten
<1>3. News
  BY Zenon DEF Init, News, Idle, Marked, Announced, Timed
<1> QED
  BY Zenon, <1>1, <1>2, <1>3 DEF Places

\* The inductive invariant.
LEMMA Inductive == Spec => [](TypeOK /\ Places /\ News)
<1>1. Init => Places /\ News
  BY Zenon, InitPlaces
<1>2. TypeOK /\ (Places /\ News) /\ [Next]_vars => (Places /\ News)'
  BY Zenon, NextPlaces, NextNews
<1> QED
  BY <1>1, <1>2, Types, PTL DEF Spec

\* A goroutine is in one place at a time: no second worker polls it.
THEOREM OnePlaceOnly == Spec => []OnePlace
<1>1. Places => OnePlace
  BY Zenon DEF Places, OnePlace, Unique, OneTimer, Apart
<1> QED
  BY <1>1, Inductive, PTL

\* No registered goroutine is forgotten, whatever timers fire, descriptors
\* become ready and handles are dropped.
THEOREM NoneForgotten == Spec => []NobodyForgotten
<1>1. Places => NobodyForgotten
  BY Zenon DEF Places
<1> QED
  BY <1>1, Inductive, PTL

\* TIMER_PENDING is the number of timers.
THEOREM PendingExact == Spec => []PendingCounts
<1>1. Places => PendingCounts
  BY Zenon DEF Places
<1> QED
  BY <1>1, Inductive, PTL

\* The reactor never sleeps on a changed interest or on a timer that is due
\* before its timeout, unless a wake byte is there or on its way.
THEOREM NeverSleepsOnNews == Spec => []NoSleepOnNews
<1>1. News => NoSleepOnNews
  BY Zenon DEF News, Marked, Announced, Timed, NoSleepOnNews
<1> QED
  BY <1>1, Inductive, PTL
-----------------------------------------------------------------------------
(* What a parked goroutine waits for is watched. *)

\* A thread polls registered goroutines only, asks to wait on a core that is
\* registered, and takes a core's descriptor off the interests only to drop it.
Works(r) ==
    /\ r.g # Null => r.g \in table
    /\ r.at = "flush" => core[r.g] = "live"
    /\ r.at = "detach" => r.drop

Attended == waiters \subseteq table /\ \A t \in Threads : Works(th[t])

Watching == Attended /\ Watched

\* A step of one thread that registers, drops and parks nobody, and keeps the
\* descriptors of the waiters among the interests.
LEMMA WatchStep ==
    ASSUME TypeOK, Watching, NEW t \in Threads, NEW r, th' = [th EXCEPT ![t] = r], Works(r),
           UNCHANGED <<table, core, waiters>>,
           \A g \in waiters : Fd[g] # NoFd /\ g \in interests => g \in interests',
           th[t].at = "register" => Fd[th[t].io] = NoFd \/ th[t].io \in interests'
    PROVE  Watching'
<1>1. \A u \in Threads : th'[u] = IF u = t THEN r ELSE th[u]
  BY Zenon DEF TypeOK
<1>2. Attended'
  <2>1. ASSUME NEW u \in Threads PROVE Works(th[u])'
    <3>1. CASE u = t
      BY <1>1, <3>1 DEF Works
    <3>2. CASE u # t
      <4>1. Works(th[u])
        BY Zenon DEF Watching, Attended
      <4> QED
        BY <1>1, <3>2, <4>1 DEF Works
    <3> QED
      BY Zenon, <3>1, <3>2
  <2> QED
    BY Zenon, <2>1 DEF Watching, Attended
<1>3. ASSUME NEW g \in waiters PROVE
        /\ core'[g] = "live"
        /\ Fd[g] = NoFd \/ g \in interests'
             \/ \E u \in Threads : th'[u].at = "register" /\ th'[u].io = g
  <2>1. core[g] = "live" /\ (Fd[g] = NoFd \/ g \in interests
             \/ \E u \in Threads : th[u].at = "register" /\ th[u].io = g)
    BY Zenon, <1>3 DEF Watching, Watched
  <2>2. ASSUME NEW u \in Threads, th[u].at = "register", th[u].io = g, u # t
        PROVE  th'[u].at = "register" /\ th'[u].io = g
    BY Zenon, <1>1, <2>2
  <2>3. ASSUME NEW u \in Threads, th[u].at = "register", th[u].io = g, u = t
        PROVE  Fd[g] = NoFd \/ g \in interests'
    BY Zenon, <2>3
  <2> QED
    BY Zenon, <1>3, <2>1, <2>2, <2>3
<1> QED
  BY Zenon, <1>2, <1>3 DEF Watching, Watched

\* A step that leaves threads, cores and interests alone and parks nobody.
LEMMA NothingToWatch ==
    ASSUME Watching, table \subseteq table', waiters' \subseteq waiters,
           UNCHANGED <<core, th, interests>>
    PROVE  Watching'
<1>1. Attended'
  BY Zenon DEF Watching, Attended, Works
<1>2. Watched'
  BY Zenon DEF Watching, Watched
<1> QED
  BY Zenon, <1>1, <1>2 DEF Watching

\* Where a thread goes on is fine when it polls no other goroutine.
LEMMA WorksOn ==
    ASSUME TypeOK, Watching, NEW t \in Threads
    PROVE  Works(Return(t)) /\ \A at \in {"attach", "dirty", "wake"} : Works(At(t, at))
<1>1. Works(th[t])
  BY Zenon DEF Watching, Attended
<1>2. \A at \in {"attach", "dirty", "wake"} : Works(At(t, at))
  BY Zenon, <1>1 DEF At, Thread, Works
<1>3. Works(Return(t))
  <2>1. CASE th[t].drop
    BY Zenon, <1>1, <2>1 DEF Return, At, Thread, Works
  <2>2. CASE ~th[t].drop /\ th[t].g = Null
    BY Zenon, <2>2 DEF Return, Free, Thread, Works
  <2>3. CASE ~th[t].drop /\ th[t].g # Null
    BY Zenon, <1>1, <2>3 DEF Return, Thread, Works
  <2> QED
    BY Zenon, <2>1, <2>2, <2>3
<1> QED
  BY Zenon, <1>2, <1>3

\* The core that an errand drops is nobody's to wait on: its goroutine is
\* being polled, or is gone.
LEMMA DroppedUnwatched ==
    ASSUME TypeOK, Places, Watching, NEW t \in Threads, th[t].drop
    PROVE  th[t].io \notin waiters /\ \A u \in Threads : u # t => th[u].g # th[t].io
<1>1. th[t].io # Null /\ ErrandOK(th[t]) /\ waiters \subseteq table
  BY Zenon DEF TypeOK, Places, Errands, Watching, Attended
<1>2. CASE th[t].g = Null
  <2>1. th[t].io \notin table
    BY Zenon, <1>1, <1>2 DEF ErrandOK
  <2>2. \A u \in Threads : th[u].g # Null => th[u].g \in table
    BY Zenon DEF Watching, Attended, Works
  <2> QED
    BY Zenon, <1>1, <2>1, <2>2
<1>3. CASE th[t].g # Null
  <2>1. th[t].io = th[t].g /\ th[t].g \in Polled
    BY Zenon, <1>3 DEF TypeOK, Polled
  <2> QED
    BY Zenon, <1>3, <2>1 DEF Places, Apart, Unique
<1> QED
  BY Zenon, <1>2, <1>3

\* The steps that take, park, finish and drop a goroutine or its core.
LEMMA TakeWatching ==
    ASSUME TypeOK, Watching, NEW t \in Threads, NEW g \in Gids, Take(t, g) PROVE Watching'
<1> USE DEF ioVars, wakeVars
<1>1. CASE g \in table
  <2> DEFINE r == Thread("poll", g, g, FALSE)
  <2>1. Works(r) /\ th' = [th EXCEPT ![t] = r] /\ th[t].at # "register"
    BY Zenon, <1>1 DEF Take, Thread, Works
  <2> HIDE DEF r
  <2> QED
    BY Zenon, <2>1, WatchStep DEF Take
<1>2. CASE g \notin table
  BY Zenon, <1>2, NothingToWatch DEF Take
<1> QED
  BY Zenon, <1>1, <1>2

LEMMA NewIoWatching ==
    ASSUME TypeOK, Watching, NEW t \in Threads, NewIo(t) PROVE Watching'
<1>1. PICK g \in Gids : g = th[t].g
  BY Zenon DEF NewIo, TypeOK
<1>2. core' = [core EXCEPT ![g] = "live"] /\ table' = table /\ waiters' = waiters /\ interests' = interests
  BY Zenon, <1>1 DEF NewIo, taskVars, wakeVars
<1>3. \A h \in Gids : core'[h] = IF h = g THEN "live" ELSE core[h]
  BY Zenon, <1>2 DEF TypeOK
<1>4. \A u \in Threads : th'[u] = IF u = t THEN At(t, "attach") ELSE th[u]
  BY Zenon DEF NewIo, Goto, TypeOK
<1>5. ASSUME NEW u \in Threads PROVE Works(th[u])'
  <2>1. Works(th[u]) /\ Works(At(t, "attach"))
    BY Zenon, WorksOn DEF Watching, Attended
  <2>2. CASE u = t
    BY <1>2, <1>4, <2>1, <2>2 DEF Works, At, Thread
  <2>3. CASE u # t
    <3>1. th[u].at = "flush" => th[u].g \in Gids
      BY Zenon DEF TypeOK
    <3> QED
      BY ZenonT(60), <1>2, <1>3, <1>4, <2>1, <2>3, <3>1 DEF Works
  <2> QED
    BY Zenon, <2>2, <2>3
<1>6. Watched'
  <2>1. \A u \in Threads : th[u].at = "register" => th'[u] = th[u]
    BY Zenon, <1>4 DEF NewIo
  <2>2. waiters \subseteq Gids
    BY Zenon DEF TypeOK
  <2> QED
    BY <1>2, <1>3, <2>1, <2>2 DEF Watching, Watched
<1> QED
  BY Zenon, <1>2, <1>5, <1>6 DEF Watching, Attended

LEMMA ParkFdWatching ==
    ASSUME TypeOK, Watching, NEW t \in Threads, ParkFd(t) PROVE Watching'
<1> DEFINE r == Thread("register", Null, th[t].io, FALSE)
<1>1. PICK g \in Gids : g = th[t].g
  BY Zenon DEF ParkFd, TypeOK
<1>2. r.at = "register" /\ r.io = g /\ Works(r) /\ th' = [th EXCEPT ![t] = r]
  BY Zenon, <1>1, ReactorAssumption DEF ParkFd, Thread, Works, TypeOK
<1> HIDE DEF r
<1>3. core' = core /\ table' = table /\ waiters' = waiters \cup {g} /\ interests' = interests
  BY Zenon, <1>1 DEF ParkFd, taskVars, wakeVars
<1>4. \A u \in Threads : th'[u] = IF u = t THEN r ELSE th[u]
  BY ZenonT(60), <1>2 DEF TypeOK
<1>5. ASSUME NEW u \in Threads PROVE Works(th[u])'
  <2>1. Works(th[u])
    BY Zenon DEF Watching, Attended
  <2> QED
    BY <1>2, <1>3, <1>4, <2>1 DEF Works
<1>6. g \in table /\ core[g] = "live"
  <2>1. Works(th[t]) /\ g # Null
    BY Zenon, ReactorAssumption DEF Watching, Attended
  <2> QED
    BY Zenon, <1>1, <2>1 DEF Works, ParkFd
<1>7. Watched'
  <2>1. \A u \in Threads : th[u].at = "register" => th'[u] = th[u]
    BY Zenon, <1>4 DEF ParkFd
  <2>2. th'[t].at = "register" /\ th'[t].io = g
    BY Zenon, <1>2, <1>4
  <2> QED
    BY <1>3, <1>6, <2>1, <2>2 DEF Watching, Watched
<1> QED
  BY Zenon, <1>3, <1>5, <1>6, <1>7 DEF Watching, Attended

LEMMA FinishWatching ==
    ASSUME TypeOK, Places, Watching, NEW t \in Threads, Finish(t) PROVE Watching'
<1>1. PICK g \in Gids : g = th[t].g
  BY Zenon DEF Finish, TypeOK
<1>2. g # Null /\ g \notin waiters /\ \A u \in Threads : u # t => th[u].g # g
  <2>1. g # Null /\ g \in Polled
    BY Zenon, <1>1, ReactorAssumption DEF Polled
  <2> QED
    BY Zenon, <1>1, <2>1 DEF Places, Apart, Unique
<1>3. table' = table \ {g} /\ core' = core /\ waiters' = waiters /\ interests' = interests
  BY Zenon, <1>1 DEF Finish, ioVars, wakeVars
<1>4. \A u \in Threads : th'[u] = IF u = t THEN Free ELSE th[u]
  BY Zenon DEF Finish, TypeOK
<1>5. ASSUME NEW u \in Threads PROVE Works(th[u])'
  <2>1. Works(th[u]) /\ Works(Free)
    BY Zenon DEF Watching, Attended, Works, Free, Thread
  <2> QED
    BY <1>2, <1>3, <1>4, <2>1 DEF Works, Free, Thread
<1>6. Watched'
  <2>1. \A u \in Threads : th[u].at = "register" => th'[u] = th[u]
    BY Zenon, <1>4 DEF Finish
  <2> QED
    BY <1>3, <2>1 DEF Watching, Watched
<1> QED
  BY Zenon, <1>2, <1>3, <1>5, <1>6 DEF Watching, Attended

LEMMA DropHandleWatching ==
    ASSUME TypeOK, Watching, NEW t \in Threads, NEW g \in Gids, DropHandle(t, g) PROVE Watching'
<1> DEFINE r == IF core[g] = "live" THEN Thread("detach", Null, g, TRUE) ELSE Free
<1>1. r.g = Null /\ r.at \in {"detach", "free"} /\ (r.at = "detach" => r.drop)
      /\ th' = [th EXCEPT ![t] = r]
  BY Zenon DEF DropHandle, Thread, Free
<1> HIDE DEF r
<1>2. table' = table \ {g} /\ core' = core /\ waiters' = waiters \ {g} /\ interests' = interests
  BY Zenon DEF DropHandle, Forget, wakeVars
<1>3. \A u \in Threads : th'[u] = IF u = t THEN r ELSE th[u]
  BY Zenon, <1>1 DEF TypeOK
<1>4. \A u \in Threads : th[u].g # Null => th[u].g # g
  BY Zenon DEF DropHandle, Polled
<1>5. ASSUME NEW u \in Threads PROVE Works(th[u])'
  <2>1. Works(th[u])
    BY Zenon DEF Watching, Attended
  <2> QED
    BY <1>1, <1>2, <1>3, <1>4, <2>1 DEF Works
<1>6. Watched'
  <2>1. \A u \in Threads : th[u].at = "register" => th'[u] = th[u]
    BY Zenon, <1>3 DEF DropHandle
  <2> QED
    BY <1>2, <2>1 DEF Watching, Watched
<1> QED
  BY Zenon, <1>2, <1>5, <1>6 DEF Watching, Attended

LEMMA DetachWatching ==
    ASSUME TypeOK, Places, Watching, NEW t \in Threads, Detach(t) PROVE Watching'
<1>1. PICK r : th' = [th EXCEPT ![t] = r] /\ Works(r)
  BY Zenon, WorksOn DEF Detach, Announce, Goto
<1>2. th[t].drop
  BY Zenon DEF Detach, Watching, Attended, Works
<1>3. th[t].io \notin waiters /\ th[t].at # "register"
  BY Zenon, <1>2, DroppedUnwatched DEF Detach
<1>4. \A g \in waiters : g \in interests => g \in interests'
  BY Zenon, <1>3 DEF Detach
<1> QED
  BY Zenon, <1>1, <1>3, <1>4, WatchStep DEF Detach, taskVars, ioVars

LEMMA DropIoWatching ==
    ASSUME TypeOK, Places, Watching, NEW t \in Threads, DropIo(t) PROVE Watching'
<1> DEFINE r == IF th[t].g = Null THEN Free ELSE Thread("poll", th[t].g, th[t].io, FALSE)
<1>1. PICK g \in Gids : g = th[t].io
  BY Zenon DEF DropIo, TypeOK
<1>2. Works(th[t]) /\ th[t].drop
  BY Zenon DEF DropIo, Watching, Attended, Places, Errands, ErrandOK
<1>3. r.g = th[t].g /\ r.at \in {"poll", "free"} /\ th' = [th EXCEPT ![t] = r]
  BY Zenon DEF DropIo, Thread, Free
<1> HIDE DEF r
<1>4. table' = table /\ core' = [core EXCEPT ![g] = "gone"] /\ waiters' = waiters \ {g}
      /\ interests' = interests
  BY Zenon, <1>1 DEF DropIo, taskVars, wakeVars
<1>5. \A u \in Threads : u # t => th[u].g # g
  BY Zenon, <1>1, <1>2, DroppedUnwatched
<1>6. \A u \in Threads : th'[u] = IF u = t THEN r ELSE th[u]
  BY Zenon, <1>3 DEF TypeOK
<1>7. \A h \in Gids : h # g => core'[h] = core[h]
  BY Zenon, <1>4 DEF TypeOK
<1>8. ASSUME NEW u \in Threads PROVE Works(th[u])'
  <2>1. Works(th[u]) /\ (th[u].at = "flush" => th[u].g \in Gids)
    BY Zenon DEF Watching, Attended, TypeOK
  <2> QED
    BY <1>2, <1>3, <1>4, <1>5, <1>6, <1>7, <2>1 DEF Works
<1>9. Watched'
  <2>1. \A u \in Threads : th[u].at = "register" => th'[u] = th[u]
    BY Zenon, <1>6 DEF DropIo
  <2>2. waiters \subseteq Gids
    BY Zenon DEF TypeOK
  <2> QED
    BY <1>4, <1>7, <2>1, <2>2 DEF Watching, Watched
<1> QED
  BY Zenon, <1>4, <1>8, <1>9 DEF Watching, Attended

LEMMA ResetWatching ==
    ASSUME TypeOK, Places, Watching, Reset PROVE Watching'
<1>1. waiters' = {} /\ th' = th
  BY Zenon DEF Reset, Watching, Attended
<1>2. ASSUME NEW u \in Threads PROVE Works(th[u])'
  BY Zenon, <1>1 DEF Reset, Places, Errands, ErrandOK, Works
<1> QED
  BY Zenon, <1>1, <1>2 DEF Watching, Attended, Watched

\* Every step keeps what is waited for under watch.
LEMMA NextWatching == TypeOK /\ Places /\ Watching /\ [Next]_vars => Watching'
<1> SUFFICES ASSUME TypeOK, Places, Watching, [Next]_vars PROVE Watching'
  BY Zenon
<1> USE DEF taskVars, timerVars, ioVars, wakeVars, lifeVars, scanVars, pollVars, fdVars, worldVars
<1>1. CASE UNCHANGED vars
  BY Zenon, <1>1, NothingToWatch DEF vars
<1>2. CASE Tick \/ (\E f \in Fds : Arrive(f) \/ Close(f)) \/ StopReactor \/ StopWorkers \/ Restart
  BY Zenon, <1>2, NothingToWatch DEF Tick, Arrive, Close, StopReactor, StopWorkers, Restart
<1>3. CASE ReactorStep \/ PollInterrupted
  <2>1. CASE CheckStop \/ LookAtTimers \/ ScanTimers \/ \E g \in Gids : FireTimer(g)
    BY Zenon, <2>1, NothingToWatch DEF CheckStop, LookAtTimers, ScanTimers, FireTimer
  <2>2. CASE SwapDirty \/ CopyInterests \/ EnterPoll \/ PollEvents \/ NoEvents \/ DrainWake
    BY Zenon, <2>2, NothingToWatch DEF SwapDirty, CopyInterests, EnterPoll, PollEvents, NoEvents, DrainWake
  <2>3. CASE WakeReadyIos
    <3>1. waiters' \subseteq waiters
      BY Zenon, <2>3 DEF WakeReadyIos, WakeWaiters
    <3> QED
      BY Zenon, <2>3, <3>1, NothingToWatch DEF WakeReadyIos
  <2> QED
    BY Zenon, <1>3, <2>1, <2>2, <2>3 DEF ReactorStep, PollExpires, PollInterrupted
<1>4. CASE Reset \/ \E g \in Gids : Spawn(g)
  BY Zenon, <1>4, ResetWatching, NothingToWatch DEF Spawn
<1>5. ASSUME NEW t \in Threads, Work(t) PROVE Watching'
  <2>1. CASE Receive(t)
    BY Zenon, <2>1, NothingToWatch DEF Receive
  <2>2. CASE TryIo(t)
    <3>1. Works(At(t, "flush")) /\ th' = [th EXCEPT ![t] = At(t, "flush")] /\ th[t].at # "register"
      BY Zenon, <2>2 DEF TryIo, Goto, Watching, Attended, Works, At, Thread
    <3> QED
      BY Zenon, <2>2, <3>1, WatchStep DEF TryIo
  <2>3. CASE LeaveIo(t)
    <3> DEFINE r == Thread("detach", th[t].g, th[t].g, TRUE)
    <3>1. Works(r) /\ th' = [th EXCEPT ![t] = r] /\ th[t].at # "register"
      BY Zenon, <2>3 DEF LeaveIo, Watching, Attended, Works, Thread
    <3> HIDE DEF r
    <3> QED
      BY Zenon, <2>3, <3>1, WatchStep DEF LeaveIo
  <2>4. ASSUME NEW at \in Deadlines, ParkTimer(t, at) PROVE Watching'
    <3> DEFINE r == Thread("wake", Null, Null, FALSE)
    <3>1. Works(r) /\ th' = [th EXCEPT ![t] = r] /\ th[t].at # "register"
      BY Zenon, <2>4 DEF ParkTimer, Works, Thread
    <3> HIDE DEF r
    <3> QED
      BY Zenon, <2>4, <3>1, WatchStep DEF ParkTimer
  <2> QED
    BY Zenon, <1>5, <2>1, <2>2, <2>3, <2>4, NewIoWatching, FinishWatching, TakeWatching,
       DropHandleWatching DEF Work
<1>6. ASSUME NEW t \in Threads, Errand(t) PROVE Watching'
  <2>0. Works(Return(t)) /\ Works(At(t, "dirty")) /\ Works(At(t, "wake"))
    BY Zenon, WorksOn
  <2>1. CASE StartReactor(t)
    BY Zenon, <2>1, NothingToWatch DEF StartReactor
  <2>2. CASE Attach(t)
    <3>1. \A g \in waiters : Fd[g] # NoFd /\ g \in interests => g \in interests'
      BY Zenon, <2>2 DEF Attach
    <3> QED
      BY Zenon, <2>0, <2>2, <3>1, WatchStep DEF Attach, Announce, Goto
  <2>3. CASE Register(t)
    <3>1. PICK r : th' = [th EXCEPT ![t] = r] /\ Works(r)
      BY Zenon, <2>0, <2>3 DEF Register, Announce, Goto
    <3>2. interests \subseteq interests' /\ (Fd[th[t].io] = NoFd \/ th[t].io \in interests')
      BY Zenon, <2>3 DEF Register
    <3> QED
      BY Zenon, <2>3, <3>1, <3>2, WatchStep DEF Register
  <2>4. CASE SetDirty(t)
    BY Zenon, <2>0, <2>4, WatchStep DEF SetDirty, Goto
  <2>5. CASE Wake(t)
    BY Zenon, <2>0, <2>5, WatchStep DEF Wake
  <2> QED
    BY Zenon, <1>6, <2>1, <2>2, <2>3, <2>4, <2>5, ParkFdWatching, DetachWatching, DropIoWatching DEF Errand
<1> QED
  BY Zenon, <1>1, <1>2, <1>3, <1>4, <1>5, <1>6 DEF Next

\* A goroutine parked on a descriptor cannot be overlooked: its core stays
\* registered and its descriptor in the interests, or register_fd is about to
\* put it there, whatever attach_fd, detach_fd, drop_io and the handles' drops
\* (reactor.rs, core.rs) do meanwhile.
THEOREM WaitersAreWatched == Spec => []Watched
<1>1. Init => Watching
  <2>1. Init => waiters = {} /\ \A t \in Threads : th[t] = Free
    BY Zenon DEF Init
  <2>2. Works(Free)
    BY Zenon DEF Works, Free, Thread
  <2> QED
    BY Zenon, <2>1, <2>2 DEF Watching, Attended, Watched
<1>2. TypeOK /\ Places /\ Watching /\ [Next]_vars => Watching'
  BY Zenon, NextWatching
<1>3. Watching => Watched
  BY Zenon DEF Watching
<1> QED
  BY <1>1, <1>2, <1>3, Inductive, PTL DEF Spec
=============================================================================
