------------------------------ MODULE RunQueue ------------------------------
(***************************************************************************)
(* The lock-free run queues of the scheduler: ntask/runqueue.rs, and the   *)
(* paths of ntask/scheduler.rs that fill and empty them (make_runnable,    *)
(* overflow_to_shared, pop_ready, refill_from_shared, steal_from_peers).   *)
(*                                                                         *)
(* Every worker owns a ring of Capacity slots with two wrapping indices    *)
(* and one LIFO slot `next`; all share the mutex-protected queue `ready`.  *)
(* One step is one access to memory another thread can change: the load   *)
(* or CAS of an index, the copy of a slot, one critical section of the     *)
(* shared queue.  A worker's own tail, slots and LIFO slot have no other   *)
(* writer, so it reads them together with its next shared access.          *)
(*                                                                         *)
(* Bounds.  The u32 indices wrap at IndexMod, which, like 2^32, exceeds    *)
(* the number of pushes during one steal.  MaxYields bounds how often a    *)
(* running goroutine is put back on the queue.                             *)
(***************************************************************************)
EXTENDS Integers, Sequences, Functions

CONSTANTS NumWorkers,  \* workers in the pool; queues().len()
          Gids,        \* goroutine ids
          Null,        \* registry::NULL, the empty LIFO slot
          Capacity,    \* CAPACITY, a power of two
          IndexMod,    \* 2^32, a multiple of Capacity
          Start,       \* value of all indices at the start: the rings may be old
          BatchCap,    \* READY_BATCH_CAP
          MaxYields    \* bound on requeues of running goroutines

ASSUME RunQueueAssumption ==
    /\ NumWorkers \in Nat \ {0} /\ Capacity \in Nat \ {0}
    /\ IndexMod \in Nat /\ IndexMod > Capacity /\ IndexMod % Capacity = 0
    /\ Start \in 0..(IndexMod - 1)
    /\ BatchCap \in 1..Capacity /\ MaxYields \in Nat
    /\ Null \notin Gids

Workers == 0..(NumWorkers - 1)

VARIABLES
    head, tail,   \* ring indices of each queue
    ring, next,   \* slots and LIFO slot of each queue
    ready,        \* the shared queue, Global::ready
    pc,           \* what each worker does next
    running,      \* the goroutine it has taken to run
    todo,         \* goroutines it still has to place on its queue
    snap,         \* its locals in a pop, a take_half or a steal
    fresh,        \* goroutines not spawned yet
    finished,     \* goroutines that ran to completion
    yields        \* requeues so far

vars == <<head, tail, ring, next, ready, pc, running, todo, snap,
          fresh, finished, yields>>
queueVars == <<head, tail, ring, next>>
taskVars == <<fresh, finished, yields>>

Snap(h, take, off, batch) == [h |-> h, take |-> take, off |-> off, batch |-> batch]
NoSnap == Snap(0, 0, 0, <<>>)

Init ==
    /\ head = [w \in Workers |-> Start]
    /\ tail = [w \in Workers |-> Start]
    /\ ring = [w \in Workers |-> [i \in 0..(Capacity - 1) |-> Null]]
    /\ next = [w \in Workers |-> Null]
    /\ ready = <<>>
    /\ pc = [w \in Workers |-> "seek"]
    /\ running = [w \in Workers |-> Null]
    /\ todo = [w \in Workers |-> <<>>]
    /\ snap = [w \in Workers |-> NoSnap]
    /\ fresh = Gids /\ finished = {} /\ yields = 0

-----------------------------------------------------------------------------
(* Index arithmetic. *)

Inc(i, n) == (i + n) % IndexMod              \* wrapping_add
Dist(t, h) == (t - h) % IndexMod             \* wrapping_sub
Slot(w, i) == ring[w][i % Capacity]          \* ring[i & MASK]

\* take = available - available / 2: the larger half.
LargerHalf(n) == n - n \div 2

Slice(w, h, n) == [i \in 1..n |-> Slot(w, h + i - 1)]

Goto(w, label) == pc' = [pc EXCEPT ![w] = label]

\* A worker that has placed everything goes on with the goroutine it holds.
Resume(w) == Goto(w, IF running[w] = Null THEN "seek" ELSE "run")

-----------------------------------------------------------------------------
(* make_runnable on a worker: LIFO slot, then ring, then shared queue. *)

\* The goroutine being run spawns another one.
Spawn(w, g) ==
    /\ pc[w] = "run" /\ g \in fresh
    /\ fresh' = fresh \ {g}
    /\ todo' = [todo EXCEPT ![w] = <<g>>]
    /\ Goto(w, "make")
    /\ UNCHANGED <<queueVars, ready, running, snap, finished, yields>>

\* It gives up its turn without a wait target, and is requeued.
Yield(w) ==
    /\ pc[w] = "run" /\ yields < MaxYields
    /\ yields' = yields + 1
    /\ todo' = [todo EXCEPT ![w] = <<running[w]>>]
    /\ running' = [running EXCEPT ![w] = Null]
    /\ Goto(w, "make")
    /\ UNCHANGED <<queueVars, ready, snap, fresh, finished>>

Finish(w) ==
    /\ pc[w] = "run"
    /\ finished' = finished \cup {running[w]}
    /\ running' = [running EXCEPT ![w] = Null]
    /\ Goto(w, "seek")
    /\ UNCHANGED <<queueVars, ready, todo, snap, fresh, yields>>

\* make_runnable off the pool: straight to the shared queue.
SpawnOutside(g) ==
    /\ g \in fresh
    /\ fresh' = fresh \ {g}
    /\ ready' = Append(ready, g)
    /\ UNCHANGED <<queueVars, pc, running, todo, snap, finished, yields>>

\* Mutant: the displaced goroutine is dropped.
PushNextForgetful(w) ==
    /\ pc[w] = "make"
    /\ next' = [next EXCEPT ![w] = Head(todo[w])]
    /\ todo' = [todo EXCEPT ![w] = <<>>]
    /\ Resume(w)
    /\ UNCHANGED <<head, tail, ring, ready, running, snap, taskVars>>

\* push_next: swap the LIFO slot; a displaced goroutine goes to the ring.
PushNext(w) ==
    /\ pc[w] = "make"
    /\ next' = [next EXCEPT ![w] = Head(todo[w])]
    /\ IF next[w] = Null
       THEN todo' = [todo EXCEPT ![w] = <<>>] /\ Resume(w)
       ELSE todo' = [todo EXCEPT ![w] = <<next[w]>>] /\ Goto(w, "push")
    /\ UNCHANGED <<head, tail, ring, ready, running, snap, taskVars>>

RingFull(w) == Dist(tail[w], head[w]) >= Capacity

\* push: the load of head, against the owner's tail.  A full ring overflows.
\* Only a displaced goroutine ever finds it full (see StockFits).
PushCheck(w) ==
    /\ pc[w] \in {"push", "stock"}
    /\ IF RingFull(w)
       THEN pc[w] = "push" /\ Goto(w, "half")
       ELSE Goto(w, "store")
    /\ UNCHANGED <<queueVars, ready, running, todo, snap, taskVars>>

PushStore(w) ==
    /\ pc[w] = "store"
    /\ ring' = [ring EXCEPT ![w][tail[w] % Capacity] = Head(todo[w])]
    /\ Goto(w, "publish")
    /\ UNCHANGED <<head, tail, next, ready, running, todo, snap, taskVars>>

PushPublish(w) ==
    /\ pc[w] = "publish"
    /\ tail' = [tail EXCEPT ![w] = Inc(@, 1)]
    /\ todo' = [todo EXCEPT ![w] = Tail(@)]
    /\ IF Len(todo[w]) > 1 THEN Goto(w, "stock") ELSE Resume(w)
    /\ UNCHANGED <<head, ring, next, ready, running, snap, taskVars>>

\* take_half: load head and copy the older half of the ring ...
TakeHalfLoad(w) ==
    /\ pc[w] = "half"
    /\ LET take == LargerHalf(Dist(tail[w], head[w]))
       IN snap' = [snap EXCEPT ![w] = Snap(head[w], take, 0, Slice(w, head[w], take))]
    /\ Goto(w, IF head[w] = tail[w] THEN "flush" ELSE "halfCas")
    /\ UNCHANGED <<queueVars, ready, running, todo, taskVars>>

\* ... then claim it.
TakeHalfCas(w) ==
    /\ pc[w] = "halfCas"
    /\ IF head[w] = snap[w].h
       THEN /\ head' = [head EXCEPT ![w] = Inc(@, snap[w].take)]
            /\ Goto(w, "flush")
       ELSE /\ Goto(w, "half")
            /\ UNCHANGED head
    /\ UNCHANGED <<tail, ring, next, ready, running, todo, snap, taskVars>>

\* overflow_to_shared: the claimed half and the goroutine that did not fit,
\* in one critical section.
PushReadyBatch(w) ==
    /\ pc[w] = "flush"
    /\ ready' = ready \o snap[w].batch \o todo[w]
    /\ todo' = [todo EXCEPT ![w] = <<>>]
    /\ snap' = [snap EXCEPT ![w] = NoSnap]
    /\ Resume(w)
    /\ UNCHANGED <<queueVars, running, taskVars>>

-----------------------------------------------------------------------------
(* pop_ready: every 61st tick the shared queue, then LIFO slot, ring, a    *)
(* share of the shared queue, and the rings of the peers.                  *)

\* The tick is not modelled: any turn may be the one that looks there first.
PopShared(w) ==
    /\ pc[w] = "seek" /\ ready # <<>>
    /\ running' = [running EXCEPT ![w] = Head(ready)]
    /\ ready' = Tail(ready)
    /\ Goto(w, "run")
    /\ UNCHANGED <<queueVars, todo, snap, taskVars>>

PopNext(w) ==
    /\ pc[w] = "seek"
    /\ running' = [running EXCEPT ![w] = next[w]]
    /\ next' = [next EXCEPT ![w] = Null]
    /\ Goto(w, IF next[w] = Null THEN "pop" ELSE "run")
    /\ UNCHANGED <<head, tail, ring, ready, todo, snap, taskVars>>

\* Mutant: the ring is popped without a look at its tail.
PopLoadBlind(w) ==
    /\ pc[w] = "pop"
    /\ snap' = [snap EXCEPT ![w] = Snap(head[w], 1, 0, Slice(w, head[w], 1))]
    /\ Goto(w, "popCas")
    /\ UNCHANGED <<queueVars, ready, running, todo, taskVars>>

PopLoad(w) ==
    /\ pc[w] = "pop"
    /\ LET take == IF head[w] = tail[w] THEN 0 ELSE 1
       IN snap' = [snap EXCEPT ![w] = Snap(head[w], take, 0, Slice(w, head[w], take))]
    /\ Goto(w, IF head[w] = tail[w] THEN "refill" ELSE "popCas")
    /\ UNCHANGED <<queueVars, ready, running, todo, taskVars>>

PopCas(w) ==
    /\ pc[w] = "popCas"
    /\ IF head[w] = snap[w].h
       THEN /\ head' = [head EXCEPT ![w] = Inc(@, 1)]
            /\ running' = [running EXCEPT ![w] = snap[w].batch[1]]
            /\ Goto(w, "run")
       ELSE /\ Goto(w, "pop")
            /\ UNCHANGED <<head, running>>
    /\ snap' = [snap EXCEPT ![w] = NoSnap]
    /\ UNCHANGED <<tail, ring, next, ready, todo, taskVars>>

\* Run the last of a claimed batch now and stock the ring with the others.
RunLast(w, batch) ==
    /\ running' = [running EXCEPT ![w] = batch[Len(batch)]]
    /\ todo' = [todo EXCEPT ![w] = SubSeq(batch, 1, Len(batch) - 1)]
    /\ Goto(w, IF Len(batch) > 1 THEN "stock" ELSE "run")

\* pop_ready_batch: one worker's share of the shared queue.
Share == LET fair == Len(ready) \div NumWorkers + 1
             capped == IF fair > BatchCap THEN BatchCap ELSE fair
         IN IF capped > Len(ready) THEN Len(ready) ELSE capped

\* Mutant: a worker without local work only looks at its peers.
RefillNever(w) ==
    /\ pc[w] = "refill"
    /\ Goto(w, "steal")
    /\ snap' = [snap EXCEPT ![w] = Snap(0, 0, 1, <<>>)]
    /\ UNCHANGED <<queueVars, taskVars, ready, running, todo>>

RefillFromShared(w) ==
    /\ pc[w] = "refill"
    /\ ready' = SubSeq(ready, Share + 1, Len(ready))
    /\ IF ready = <<>>
       THEN /\ Goto(w, "steal")
            /\ snap' = [snap EXCEPT ![w] = Snap(0, 0, 1, <<>>)]
            /\ UNCHANGED <<running, todo>>
       ELSE /\ RunLast(w, SubSeq(ready, 1, Share))
            /\ UNCHANGED snap
    /\ UNCHANGED <<queueVars, taskVars>>

Victim(w) == (w + snap[w].off) % NumWorkers

\* steal_from_peers: each peer once, then back to the worker loop.
StealHead(w) ==
    /\ pc[w] = "steal"
    /\ IF snap[w].off < NumWorkers
       THEN /\ snap' = [snap EXCEPT ![w] = Snap(head[Victim(w)], 0, @.off, <<>>)]
            /\ Goto(w, "stealTail")
       ELSE /\ snap' = [snap EXCEPT ![w] = NoSnap]
            /\ Goto(w, "seek")
    /\ UNCHANGED <<queueVars, ready, running, todo, taskVars>>

\* steal_into: an empty ring ends the attempt, a torn snapshot restarts it.
StealTail(w) ==
    /\ pc[w] = "stealTail"
    /\ LET available == Dist(tail[Victim(w)], snap[w].h) IN
       \/ /\ available = 0
          /\ snap' = [snap EXCEPT ![w] = Snap(@.h, 0, @.off + 1, <<>>)]
          /\ Goto(w, "steal")
       \/ /\ available > Capacity
          /\ Goto(w, "steal")
          /\ UNCHANGED snap
       \/ /\ available \in 1..Capacity
          /\ snap' = [snap EXCEPT ![w] = Snap(@.h, LargerHalf(available), @.off, <<>>)]
          /\ Goto(w, "stealCopy")
    /\ UNCHANGED <<queueVars, ready, running, todo, taskVars>>

\* The copy runs without a claim: the owner may overwrite the slots meanwhile.
StealCopy(w) ==
    /\ pc[w] = "stealCopy"
    /\ LET slot == Slot(Victim(w), snap[w].h + Len(snap[w].batch))
       IN snap' = [snap EXCEPT ![w] = Snap(@.h, @.take, @.off, Append(@.batch, slot))]
    /\ Goto(w, IF Len(snap[w].batch) + 1 = snap[w].take THEN "stealCas" ELSE "stealCopy")
    /\ UNCHANGED <<queueVars, ready, running, todo, taskVars>>

\* Mutant: the claim is a plain store, not a compare-exchange.
StealStore(w) ==
    /\ pc[w] = "stealCas"
    /\ head' = [head EXCEPT ![Victim(w)] = Inc(snap[w].h, snap[w].take)]
    /\ RunLast(w, snap[w].batch)
    /\ snap' = [snap EXCEPT ![w] = NoSnap]
    /\ UNCHANGED <<tail, ring, next, ready, taskVars>>

StealCas(w) ==
    /\ pc[w] = "stealCas"
    /\ IF head[Victim(w)] = snap[w].h
       THEN /\ head' = [head EXCEPT ![Victim(w)] = Inc(@, snap[w].take)]
            /\ RunLast(w, snap[w].batch)
            /\ snap' = [snap EXCEPT ![w] = NoSnap]
       ELSE /\ Goto(w, "steal")
            /\ UNCHANGED <<head, running, todo, snap>>
    /\ UNCHANGED <<tail, ring, next, ready, taskVars>>

-----------------------------------------------------------------------------

\* The steps the scheduler itself takes on a worker, as opposed to what the
\* goroutine it runs decides to do.
QueueStep(w) ==
    \/ PushNext(w) \/ PushCheck(w) \/ PushStore(w) \/ PushPublish(w)
    \/ TakeHalfLoad(w) \/ TakeHalfCas(w) \/ PushReadyBatch(w)
    \/ PopNext(w) \/ PopLoad(w) \/ PopCas(w)
    \/ RefillFromShared(w)
    \/ StealHead(w) \/ StealTail(w) \/ StealCopy(w) \/ StealCas(w)

Next ==
    \/ \E g \in Gids : SpawnOutside(g)
    \/ \E w \in Workers :
        \/ \E g \in Gids : Spawn(w, g)
        \/ Yield(w) \/ Finish(w) \/ PopShared(w)
        \/ QueueStep(w)

Spec == Init /\ [][Next]_vars

\* Workers are operating-system threads that keep running, and a goroutine
\* returns from its poll.
Fairness ==
    \A w \in Workers : WF_vars(QueueStep(w)) /\ WF_vars(Finish(w))

LiveSpec == Spec /\ Fairness

-----------------------------------------------------------------------------

\* The state is well formed: indices stay in the width of AtomicU32 (here
\* IndexMod), and slots hold ids or Null.
TypeOK ==
    /\ head \in [Workers -> 0..(IndexMod - 1)]
    /\ tail \in [Workers -> 0..(IndexMod - 1)]
    /\ ring \in [Workers -> [0..(Capacity - 1) -> Gids \cup {Null}]]
    /\ next \in [Workers -> Gids \cup {Null}]
    /\ running \in [Workers -> Gids \cup {Null}]
    /\ ready \in Seq(Gids) /\ todo \in [Workers -> Seq(Gids)]
    /\ pc \in [Workers -> {"run", "make", "push", "stock", "store", "publish", "half",
                           "halfCas", "flush", "seek", "pop", "popCas", "refill", "steal",
                           "stealTail", "stealCopy", "stealCas"}]
    /\ snap \in [Workers -> [h : 0..(IndexMod - 1), take : 0..Capacity, off : Nat,
                             batch : Seq(Gids \cup {Null})]]
    /\ fresh \subseteq Gids /\ finished \subseteq Gids /\ yields \in 0..MaxYields

\* The ids a ring holds, oldest first.
RingIds(w) == Slice(w, head[w], Dist(tail[w], head[w]))

\* The half ring an overflow has claimed and not yet handed on.
Claimed(w) == IF pc[w] = "flush" THEN snap[w].batch ELSE <<>>

Positions(s, g) == {i \in DOMAIN s : s[i] = g}

\* The places where a goroutine is present in the scheduler.
Presence(g) ==
    {<<"ready", i>> : i \in Positions(ready, g)}
    \cup {<<"next", w>> : w \in Positions(next, g)}
    \cup {<<"running", w>> : w \in Positions(running, g)}
    \cup UNION {{<<"ring", w, i>> : i \in Positions(RingIds(w), g)}
                \cup {<<"todo", w, i>> : i \in Positions(todo[w], g)}
                \cup {<<"claimed", w, i>> : i \in Positions(Claimed(w), g)} : w \in Workers}

\* A goroutine that was made runnable and did not finish is in exactly one
\* place: no race of push, pop, steal and overflow loses or duplicates an id.
ExactlyOnce ==
    \A g \in Gids : IF g \in fresh \cup finished THEN Presence(g) = {}
                    ELSE \E p \in Presence(g) : Presence(g) = {p}

\* The producer never overtakes the consumers by more than the ring holds, so
\* a slot is not overwritten while its id is still waiting.
RingNeverOverrun ==
    \A w \in Workers : Dist(tail[w], head[w]) <= Capacity

\* A worker only turns to the shared queue and to its peers when its own ring
\* is empty, and nobody else fills it, so all it brings back fits: the
\* fallbacks to push_ready in steal_into ("Cannot happen") and in
\* refill_from_shared are never taken.
StockFits ==
    \A w \in Workers :
        /\ pc[w] \in {"refill", "steal", "stealTail", "stealCopy", "stealCas"}
              => head[w] = tail[w]
        /\ pc[w] = "stock" => ~RingFull(w)

\* runqueue.rs:8 says "a slot is only read after the CAS that claims its index
\* succeeds".  Every consumer copies first and claims afterwards, so a worker
\* can hold a copy of slots that it has not claimed and may never claim.
SlotReadAfterClaim ==
    \A w \in Workers : snap[w].batch # <<>> => pc[w] = "flush"

\* A goroutine that waits on some queue.
Queued ==
    Range(ready) \cup (Range(next) \ {Null})
    \cup UNION {Range(RingIds(w)) \cup Range(todo[w]) \cup Range(Claimed(w)) : w \in Workers}

Pool == INSTANCE WorkPool WITH queued <- Queued

\* The queues implement the abstract pool: each step of the ring, slot and
\* shared queue is a hand-over, a submission or a move nobody can observe.
ImplementsPool == Pool!PoolSpec

\* Nothing made runnable waits for ever: with finitely many requeues every
\* goroutine in some queue is run, even one in the LIFO slot of a busy worker.
EventuallyRun ==
    \A g \in Gids : (g \in Queued) ~> (g \in finished)
=============================================================================
