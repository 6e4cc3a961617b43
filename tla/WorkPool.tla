------------------------------ MODULE WorkPool ------------------------------
(***************************************************************************)
(* What the run queues of the NTSC scheduler promise, whatever their       *)
(* layout: a goroutine made runnable is handed to exactly one worker per   *)
(* time it is made runnable, and is never lost on the way.  The ring, the  *)
(* LIFO slot, stealing and overflow of ntask/runqueue.rs are shown to      *)
(* implement this (see RunQueue).                                          *)
(***************************************************************************)
CONSTANTS Workers, Gids, Null

VARIABLES queued,    \* goroutines that wait to be run, wherever they are kept
          running,   \* the goroutine each worker runs, or Null
          finished   \* goroutines that ran to completion

poolVars == <<queued, running, finished>>

PoolInit ==
    /\ queued = {}
    /\ running = [w \in Workers |-> Null]
    /\ finished = {}

IsRunning(g) == \E w \in Workers : running[w] = g

\* A new goroutine becomes runnable (a spawn by a worker or by another thread).
Submit(g) ==
    /\ g \notin queued \cup finished
    /\ ~IsRunning(g)
    /\ queued' = queued \cup {g}
    /\ UNCHANGED <<running, finished>>

\* An idle worker is given a goroutine.
Take(w, g) ==
    /\ running[w] = Null
    /\ g \in queued
    /\ queued' = queued \ {g}
    /\ running' = [running EXCEPT ![w] = g]
    /\ UNCHANGED finished

\* The goroutine a worker runs is made runnable again.
GiveBack(w) ==
    /\ running[w] # Null
    /\ queued' = queued \cup {running[w]}
    /\ running' = [running EXCEPT ![w] = Null]
    /\ UNCHANGED finished

Complete(w) ==
    /\ running[w] # Null
    /\ finished' = finished \cup {running[w]}
    /\ running' = [running EXCEPT ![w] = Null]
    /\ UNCHANGED queued

PoolNext ==
    \/ \E g \in Gids : Submit(g)
    \/ \E w \in Workers :
        \/ \E g \in Gids : Take(w, g)
        \/ GiveBack(w)
        \/ Complete(w)

PoolSpec == PoolInit /\ [][PoolNext]_poolVars
=============================================================================
