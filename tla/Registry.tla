------------------------------ MODULE Registry ------------------------------
(***************************************************************************)
(* The handle registry under concurrent use (registry.rs).  A handle is an *)
(* integer, so a channel, a socket, a goroutine handle or a raw pointer    *)
(* may be used by several threads at once, and a goroutine that carries    *)
(* one may move from one worker thread to another between two uses.  Every *)
(* operation locks the shard of one handle at a time: each locked section  *)
(* is one step here, and what an operation does after it has released the  *)
(* lock is another.                                                        *)
(*                                                                         *)
(* Values that only their owner reaches (strings, arrays, shared boxes)    *)
(* are the subject of Heap.  Strings stand here for all of them: they are  *)
(* registered, taken and counted.                                          *)
(***************************************************************************)
EXTENDS Integers, FiniteSets

CONSTANTS Threads,   \* worker threads
          MaxId,     \* bound: handles ever registered
          Programs   \* the sets of kinds of handles a program may use

Ids == 1..MaxId
Kinds == {"string", "memory", "chan", "goroutine", "opaque"}

ASSUME RegistryAssumption ==
    IsFiniteSet(Threads) /\ MaxId \in Nat /\ Programs \subseteq SUBSET Kinds

VARIABLES
    kinds,      \* the kinds of handles this program uses
    entries,    \* REGISTRY: handle -> entry, for the registered handles
    nextId,     \* NEXT_ID
    live,       \* LIVE
    permanent,  \* PERMANENT_IDS, whose size is PERMANENT
    gen,        \* REGISTRY_GEN
    cache,      \* MEMORY_CACHE of each thread
    call,       \* what each thread is in the middle of
    refs,       \* the channel handles of which each thread holds a copy
    freed,      \* how often the value of a handle was given up: its core
                \* dropped, or the value returned to its last user
    dropped     \* pointer handles whose memory_drop has returned

vars == <<kinds, entries, nextId, live, permanent, gen, cache, call, refs, freed, dropped>>

\* An entry: "of" names what it holds (a region, a core, a socket) by the
\* handle it was first registered under, "count" the copies of a channel handle.
Handle == [kind : Kinds, of : Ids, count : Nat]

NoCache == [id |-> 0, generation |-> 0, of |-> 0]
Idle == [op |-> "idle", id |-> 0, generation |-> 0]
InCall(op, i) == [op |-> op, id |-> i, generation |-> gen]

Registered(i) == i \in DOMAIN entries
IsKind(i, k) == Registered(i) /\ entries[i].kind = k
Without(i) == [j \in DOMAIN entries \ {i} |-> entries[j]]
With(i, e) == [j \in DOMAIN entries \cup {i} |-> IF j = i THEN e ELSE entries[j]]

\* memory_drop still holds the shard lock of i while it bumps the generation.
Unlocked(i) == \A t \in Threads : ~(call[t].op = "bump" /\ call[t].id = i)

TypeOK ==
    /\ kinds \in Programs
    /\ DOMAIN entries \subseteq Ids /\ \A i \in DOMAIN entries : entries[i] \in Handle
    /\ nextId \in 1..(MaxId + 1) /\ live \in Int /\ permanent \subseteq Ids /\ gen \in Nat
    /\ cache \in [Threads -> [id : Ids \cup {0}, generation : Nat, of : Ids \cup {0}]]
    /\ call \in [Threads -> [op : {"idle", "lookup", "bump", "io", "check", "use", "core"},
                             id : Ids \cup {0}, generation : Nat]]
    /\ \A t \in Threads : call[t].op # "idle" => call[t].id \in Ids
    /\ refs \in [Threads -> SUBSET Ids] /\ freed \in [Ids -> Nat] /\ dropped \subseteq Ids

Init ==
    /\ kinds \in Programs
    /\ entries = << >> /\ nextId = 1 /\ live = 0 /\ permanent = {} /\ gen = 0
    /\ cache = [t \in Threads |-> NoCache] /\ call = [t \in Threads |-> Idle]
    /\ refs = [t \in Threads |-> {}]
    /\ freed = [i \in Ids |-> 0] /\ dropped = {}

-----------------------------------------------------------------------------
(* Registration. *)

\* insert: a fresh id, never used before, and the counter, under the lock.
Insert(e) ==
    /\ nextId <= MaxId
    /\ entries' = With(nextId, e) /\ nextId' = nextId + 1 /\ live' = live + 1

\* put_string, memory_alloc, put_opaque, ntask_chan_new, spawn_goroutine.
Put(t) == \E k \in kinds :
    /\ call[t] = Idle
    /\ Insert([kind |-> k, of |-> nextId, count |-> 1])
    /\ refs' = IF k = "chan" THEN [refs EXCEPT ![t] = @ \cup {nextId}] ELSE refs
    /\ UNCHANGED <<kinds, permanent, gen, cache, call, freed, dropped>>

\* insert_permanent: a string literal, counted apart.
PutPermanent(t) ==
    /\ call[t] = Idle /\ "string" \in kinds /\ nextId <= MaxId
    /\ entries' = With(nextId, [kind |-> "string", of |-> nextId, count |-> 1])
    /\ permanent' = permanent \cup {nextId} /\ nextId' = nextId + 1
    /\ UNCHANGED <<kinds, live, gen, cache, call, refs, freed, dropped>>

\* take_string, kind-checked under one lock.  Literals are not taken: the
\* compiler drops only what a program owns.
TakeString(t, i) ==
    /\ call[t] = Idle /\ i \notin permanent /\ IsKind(i, "string")
    /\ entries' = Without(i) /\ live' = live - 1 /\ freed' = [freed EXCEPT ![i] = @ + 1]
    /\ UNCHANGED <<kinds, nextId, permanent, gen, cache, call, refs, dropped>>

-----------------------------------------------------------------------------
(* Raw memory and its per-thread cache. *)

\* memory_clone and memory_offset: another handle of the same region.
MemoryClone(t, i) ==
    /\ call[t] = Idle /\ IsKind(i, "memory") /\ Unlocked(i)
    /\ Insert([kind |-> "memory", of |-> entries[i].of, count |-> 1])
    /\ UNCHANGED <<kinds, permanent, gen, cache, call, refs, freed, dropped>>

\* memory_region reads the generation, and is done when the cached capability
\* is of this handle and of this generation.
MemoryAccess(t, i) ==
    /\ call[t] = Idle /\ "memory" \in kinds /\ i < nextId
    /\ call' = IF cache[t].id = i /\ cache[t].generation = gen
               THEN call ELSE [call EXCEPT ![t] = InCall("lookup", i)]
    /\ UNCHANGED <<kinds, entries, nextId, live, permanent, gen, cache, refs, freed, dropped>>

\* Otherwise it looks the handle up and caches what it finds, under the
\* generation it read before.
Remembered(t) ==
    [id |-> call[t].id, generation |-> call[t].generation, of |-> entries[call[t].id].of]

MemoryLookup(t) ==
    /\ call[t].op = "lookup" /\ Unlocked(call[t].id)
    /\ cache' = IF IsKind(call[t].id, "memory")
                THEN [cache EXCEPT ![t] = Remembered(t)] ELSE cache
    /\ call' = [call EXCEPT ![t] = Idle]
    /\ UNCHANGED <<kinds, entries, nextId, live, permanent, gen, refs, freed, dropped>>

\* memory_drop: the entry goes first; readers of the cache take no lock, so
\* they can run before the generation is bumped.
MemoryDrop(t, i) ==
    /\ call[t] = Idle /\ IsKind(i, "memory") /\ Unlocked(i)
    /\ entries' = Without(i) /\ live' = live - 1
    /\ call' = [call EXCEPT ![t] = InCall("bump", i)]
    /\ UNCHANGED <<kinds, nextId, permanent, gen, cache, refs, freed, dropped>>

\* Mutant: the caches are not invalidated.
MemoryBumpNot(t) ==
    /\ call[t].op = "bump"
    /\ dropped' = dropped \cup {call[t].id} /\ call' = [call EXCEPT ![t] = Idle]
    /\ UNCHANGED <<kinds, entries, nextId, live, permanent, gen, cache, refs, freed>>

MemoryBump(t) ==
    /\ call[t].op = "bump"
    /\ gen' = gen + 1 /\ dropped' = dropped \cup {call[t].id}
    /\ call' = [call EXCEPT ![t] = Idle]
    /\ UNCHANGED <<kinds, entries, nextId, live, permanent, cache, refs, freed>>

-----------------------------------------------------------------------------
(* Sockets and files. *)

\* Mutant: taken out like a value that is given up.
TakeForIoUncounted(t, i) ==
    /\ call[t] = Idle /\ IsKind(i, "opaque")
    /\ entries' = Without(i) /\ live' = live - 1 /\ call' = [call EXCEPT ![t] = InCall("io", i)]
    /\ UNCHANGED <<kinds, nextId, permanent, gen, cache, refs, freed, dropped>>

\* with_opaque_io takes the value out of the table, counters untouched, and
\* runs the blocking call without the lock.
TakeForIo(t, i) ==
    /\ call[t] = Idle /\ IsKind(i, "opaque")
    /\ entries' = Without(i) /\ call' = [call EXCEPT ![t] = InCall("io", i)]
    /\ UNCHANGED <<kinds, nextId, live, permanent, gen, cache, refs, freed, dropped>>

PutBack(t) ==
    /\ call[t].op = "io"
    /\ entries' = With(call[t].id, [kind |-> "opaque", of |-> call[t].id, count |-> 1])
    /\ call' = [call EXCEPT ![t] = Idle]
    /\ UNCHANGED <<kinds, nextId, live, permanent, gen, cache, refs, freed, dropped>>

\* take_opaque, the close of a socket or file.  On a value another thread has
\* out it finds nothing and leaves everything as it is.
TakeOpaque(t, i) ==
    /\ call[t] = Idle /\ IsKind(i, "opaque")
    /\ entries' = Without(i) /\ live' = live - 1 /\ freed' = [freed EXCEPT ![i] = @ + 1]
    /\ UNCHANGED <<kinds, nextId, permanent, gen, cache, call, refs, dropped>>

-----------------------------------------------------------------------------
(* Goroutine handles: remove_kind looks at the kind under one lock and       *)
(* removes under a second.                                                   *)

RemoveKind(t, i) ==
    /\ call[t] = Idle /\ IsKind(i, "goroutine")
    /\ call' = [call EXCEPT ![t] = InCall("check", i)]
    /\ UNCHANGED <<kinds, entries, nextId, live, permanent, gen, cache, refs, freed, dropped>>

\* Mutant: the core is dropped although another thread took it.
RemoveAgain(t) ==
    LET i == call[t].id IN
    /\ call[t].op = "check"
    /\ call' = [call EXCEPT ![t] = Idle]
    /\ entries' = Without(i) /\ gen' = gen + 1 /\ freed' = [freed EXCEPT ![i] = @ + 1]
    /\ live' = IF Registered(i) THEN live - 1 ELSE live
    /\ UNCHANGED <<kinds, nextId, permanent, cache, refs, dropped>>

\* remove, then drop_goroutine of the core that was taken, if any was.
Remove(t) ==
    LET i == call[t].id IN
    /\ call[t].op = "check"
    /\ call' = [call EXCEPT ![t] = Idle]
    /\ IF Registered(i)
       THEN /\ entries' = Without(i) /\ live' = live - 1 /\ gen' = gen + 1
            /\ freed' = [freed EXCEPT ![i] = @ + 1]
       ELSE UNCHANGED <<entries, live, gen, freed>>
    /\ UNCHANGED <<kinds, nextId, permanent, cache, refs, dropped>>

-----------------------------------------------------------------------------
(* Channel handles, reference counted. *)

\* Mutant: the copy is not counted.
ChanRetainUncounted(t, u, i) ==
    /\ call[t] = Idle /\ i \in refs[t] \ refs[u] /\ IsKind(i, "chan")
    /\ refs' = [refs EXCEPT ![u] = @ \cup {i}]
    /\ UNCHANGED <<kinds, entries, nextId, live, permanent, gen, cache, call, freed, dropped>>

\* chan_retain for the thread u that gets the copy.
ChanRetain(t, u, i) ==
    /\ call[t] = Idle /\ i \in refs[t] \ refs[u] /\ IsKind(i, "chan")
    /\ entries' = [entries EXCEPT ![i].count = @ + 1]
    /\ refs' = [refs EXCEPT ![u] = @ \cup {i}]
    /\ UNCHANGED <<kinds, nextId, live, permanent, gen, cache, call, freed, dropped>>

\* task_core reads the core under the lock; the send or receive uses it after.
ChanUse(t, i) ==
    /\ call[t] = Idle /\ i \in refs[t] /\ IsKind(i, "chan")
    /\ call' = [call EXCEPT ![t] = InCall("use", i)]
    /\ UNCHANGED <<kinds, entries, nextId, live, permanent, gen, cache, refs, freed, dropped>>

ChanUsed(t) ==
    /\ call[t].op = "use" /\ call' = [call EXCEPT ![t] = Idle]
    /\ UNCHANGED <<kinds, entries, nextId, live, permanent, gen, cache, refs, freed, dropped>>

\* chan_drop of the copy t holds: the last one removes the entry under the
\* same lock, and drops the core once it has released it.
ChanDrop(t, i) ==
    /\ call[t] = Idle /\ i \in refs[t] /\ IsKind(i, "chan")
    /\ refs' = [refs EXCEPT ![t] = @ \ {i}]
    /\ IF entries[i].count > 1
       THEN entries' = [entries EXCEPT ![i].count = @ - 1] /\ UNCHANGED <<live, call>>
       ELSE /\ entries' = Without(i) /\ live' = live - 1
            /\ call' = [call EXCEPT ![t] = InCall("core", i)]
    /\ UNCHANGED <<kinds, nextId, permanent, gen, cache, freed, dropped>>

DropChan(t) ==
    /\ call[t].op = "core" /\ call' = [call EXCEPT ![t] = Idle]
    /\ freed' = [freed EXCEPT ![call[t].id] = @ + 1]
    /\ UNCHANGED <<kinds, entries, nextId, live, permanent, gen, cache, refs, dropped>>

Next == \E t \in Threads :
    \/ Put(t)
    \/ PutPermanent(t)
    \/ MemoryLookup(t)
    \/ MemoryBump(t)
    \/ PutBack(t)
    \/ Remove(t)
    \/ ChanUsed(t)
    \/ DropChan(t)
    \/ \E i \in Ids :
        \/ TakeString(t, i)
        \/ MemoryClone(t, i)
        \/ MemoryAccess(t, i)
        \/ MemoryDrop(t, i)
        \/ TakeForIo(t, i)
        \/ TakeOpaque(t, i)
        \/ RemoveKind(t, i)
        \/ ChanUse(t, i)
        \/ ChanDrop(t, i)
        \/ \E u \in Threads : ChanRetain(t, u, i)

Spec == Init /\ [][Next]_vars

-----------------------------------------------------------------------------
(* What callers rely on. *)

Out == {t \in Threads : call[t].op = "io"}

\* "A dropped handle can never be served from a cache": a capability that
\* memory_region would take from a thread's cache names a pointer whose drop
\* has not returned, and the region registered for it, however drops on other
\* threads interleave with the lookup that filled the cache.
ServedLive ==
    \A t \in Threads :
        cache[t].id # 0 /\ cache[t].generation = gen =>
            /\ cache[t].id \notin dropped
            /\ Registered(cache[t].id) => entries[cache[t].id].of = cache[t].of

\* Every resource that was registered is in one place: in the table, in the
\* hands of the one thread that runs a blocking call on it or is about to drop
\* its core, or given up, which happened once.  Closing a socket during a call
\* on it, closing twice, and two threads dropping one handle included.
OneHome ==
    \A i \in 1..(nextId - 1) :
        LET holders == {t \in Threads : call[t].op \in {"io", "core"} /\ call[t].id = i}
            registered == IF Registered(i) THEN 1 ELSE 0
        IN  \/ Registered(i) /\ entries[i].kind = "memory"
            \/ i \in dropped \/ ~Unlocked(i)
            \/ Cardinality(holders) + freed[i] + registered = 1

\* The count of a channel handle is the number of copies the program holds, and
\* a thread that uses a channel's core finds it there: no last drop of another
\* copy frees it in between.
CoreKept ==
    \A i \in Ids :
        /\ IsKind(i, "chan") =>
             entries[i].count = Cardinality({t \in Threads : i \in refs[t]})
        /\ \A t \in Threads :
             i \in refs[t] \/ (call[t].op = "use" /\ call[t].id = i) => IsKind(i, "chan") /\ freed[i] = 0

\* The leak counters agree with the table in every step, the entries taken out
\* for a blocking call included, which stay counted.
CountersAgree ==
    live + Cardinality(permanent) = Cardinality(DOMAIN entries) + Cardinality(Out)

\* What the counters' test says of the code: the counters and the number of
\* entries "can only be observed in agreement".
CountersMatchEntries ==
    live + Cardinality(permanent) = Cardinality(DOMAIN entries)
=============================================================================
