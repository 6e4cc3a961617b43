--------------------------- MODULE RegistryProof ---------------------------
(***************************************************************************)
(* The properties of Registry, for any finite set of threads, any number   *)
(* of handles and any mix of kinds.                                        *)
(***************************************************************************)
EXTENDS Registry, FiniteSetTheorems, TLAPS

\* A thread has the value of handle i in its hands: it runs a blocking call on
\* it, is about to drop its core, or is about to invalidate the caches.
Holds(t, i) == call[t].id = i /\ call[t].op \in {"io", "core", "bump"}

\* Nothing refers to a handle that was not given out yet.
Unused ==
    \A i \in Ids : i >= nextId =>
        /\ ~Registered(i) /\ freed[i] = 0 /\ i \notin dropped \cup permanent
        /\ \A t \in Threads : call[t].id # i /\ cache[t].id # i /\ i \notin refs[t]

\* Every handle given out is in one place: in the table, with one thread, given
\* up once, or dropped.
Homes ==
    \A i \in Ids :
        /\ i < nextId => \/ Registered(i) \/ freed[i] = 1 \/ i \in dropped
                         \/ \E t \in Threads : Holds(t, i)
        /\ freed[i] > 0 => freed[i] = 1 /\ ~Registered(i) /\ i \notin dropped
        /\ i \in dropped => ~Registered(i)
        /\ \A t \in Threads : Holds(t, i) => ~Registered(i) /\ freed[i] = 0 /\ i \notin dropped
        /\ \A t, u \in Threads : Holds(t, i) /\ Holds(u, i) => t = u

\* What a thread found under one lock is still true under the next, or the
\* handle is gone for good.
Calls ==
    \A t \in Threads :
        /\ call[t].op # "idle" => call[t].id \in Ids
        /\ call[t].op = "check" => IsKind(call[t].id, "goroutine") \/ freed[call[t].id] = 1
        /\ call[t].op = "use" => call[t].id \in refs[t]

\* A thread only knows generations that have begun.
Generations == \A t \in Threads : cache[t].generation <= gen /\ call[t].generation <= gen

\* A cache of the present generation holds the region of a pointer that is
\* registered, or whose drop is about to end the generation.
Caches ==
    \A t \in Threads :
        cache[t].id # 0 /\ cache[t].generation = gen =>
            \/ IsKind(cache[t].id, "memory") /\ entries[cache[t].id].of = cache[t].of
            \/ \E u \in Threads : call[u].op = "bump" /\ call[u].id = cache[t].id

Inv == TypeOK /\ Unused /\ Homes /\ Calls /\ Generations /\ Caches

-----------------------------------------------------------------------------
\* The empty registry.
LEMMA InitInv == Init => Inv
<1> SUFFICES ASSUME Init PROVE Inv
    BY Zenon
<1> USE RegistryAssumption DEF Init, Ids, Idle, NoCache, Registered, IsKind
<1>1. TypeOK
    BY DEF TypeOK
<1>2. Unused /\ Homes
    BY DEF Unused, Homes, Holds
<1>3. Calls /\ Generations /\ Caches
    BY DEF Calls, Generations, Caches
<1> QED
    BY Zenon, <1>1, <1>2, <1>3 DEF Inv

\* Every action keeps the types.
LEMMA TypeStep ==
    ASSUME TypeOK, [Next]_vars
    PROVE  TypeOK'
<1> USE RegistryAssumption DEF TypeOK, Kinds
<1>0. CASE UNCHANGED vars
    BY Zenon, <1>0 DEF vars, Idle, Registered
<1>1. ASSUME NEW t \in Threads, Put(t) PROVE TypeOK'
  <2>1. nextId \in Ids /\ live' \in Int /\ nextId' \in 1..(MaxId + 1)
      BY <1>1 DEF Put, Insert, Ids
  <2>2. DOMAIN entries' \subseteq Ids /\ \A j \in DOMAIN entries' : entries'[j] \in Handle
      BY <1>1, <2>1 DEF Put, Insert, With, Handle, IsKind, Registered
  <2>3. refs' \in [Threads -> SUBSET Ids] /\ permanent' \subseteq Ids
      BY <1>1, <2>1 DEF Put, Insert
  <2> QED
      BY Zenon, <1>1, <2>1, <2>2, <2>3 DEF Put, Insert
<1>2. ASSUME NEW t \in Threads, PutPermanent(t) PROVE TypeOK'
  <2>1. nextId \in Ids /\ live' \in Int /\ nextId' \in 1..(MaxId + 1)
      BY <1>2 DEF PutPermanent, Ids
  <2>2. DOMAIN entries' \subseteq Ids /\ \A j \in DOMAIN entries' : entries'[j] \in Handle
      BY Zenon, <1>2, <2>1 DEF PutPermanent, With, Handle, IsKind, Registered
  <2>3. refs' \in [Threads -> SUBSET Ids] /\ permanent' \subseteq Ids
      BY Zenon, <1>2, <2>1 DEF PutPermanent
  <2> QED
      BY Zenon, <1>2, <2>1, <2>2, <2>3 DEF PutPermanent
<1>3. ASSUME NEW t \in Threads, MemoryLookup(t) PROVE TypeOK'
  <2>1. CASE IsKind(call[t].id, "memory")
    <3>1. Remembered(t) \in [id : Ids \cup {0}, generation : Nat, of : Ids \cup {0}]
        BY Zenon, <2>1 DEF Remembered, IsKind, Registered, Handle
    <3> QED
        BY Zenon, <1>3, <2>1, <3>1 DEF MemoryLookup, Idle
  <2>2. CASE ~IsKind(call[t].id, "memory")
      BY Zenon, <1>3, <2>2 DEF MemoryLookup, Idle
  <2> QED
      BY Zenon, <2>1, <2>2
<1>4. ASSUME NEW t \in Threads, MemoryBump(t) PROVE TypeOK'
    BY <1>4 DEF MemoryBump, Idle, Registered
<1>5. ASSUME NEW t \in Threads, PutBack(t) PROVE TypeOK'
  <2>1. DOMAIN entries' \subseteq Ids /\ \A j \in DOMAIN entries' : entries'[j] \in Handle
      BY <1>5 DEF PutBack, With, Handle
  <2> QED
      BY Zenon, <1>5, <2>1 DEF PutBack, Idle
<1>6. ASSUME NEW t \in Threads, Remove(t) PROVE TypeOK'
    BY <1>6 DEF Remove, Without, Idle, Registered
<1>7. ASSUME NEW t \in Threads, ChanUsed(t) PROVE TypeOK'
    BY Zenon, <1>7 DEF ChanUsed, Idle, Registered
<1>8. ASSUME NEW t \in Threads, DropChan(t) PROVE TypeOK'
    BY <1>8 DEF DropChan, Idle, Registered
<1>9. ASSUME NEW t \in Threads, NEW i \in Ids, TakeString(t, i) PROVE TypeOK'
    BY <1>9 DEF TakeString, Without, Idle, Registered
<1>10. ASSUME NEW t \in Threads, NEW i \in Ids, MemoryClone(t, i) PROVE TypeOK'
  <2>1. nextId \in Ids /\ live' \in Int /\ nextId' \in 1..(MaxId + 1)
      BY <1>10 DEF MemoryClone, Insert, Ids
  <2>2. DOMAIN entries' \subseteq Ids /\ \A j \in DOMAIN entries' : entries'[j] \in Handle
      BY Zenon, <1>10, <2>1 DEF MemoryClone, Insert, With, Handle, IsKind, Registered
  <2>3. refs' \in [Threads -> SUBSET Ids] /\ permanent' \subseteq Ids
      BY Zenon, <1>10, <2>1 DEF MemoryClone, Insert
  <2> QED
      BY Zenon, <1>10, <2>1, <2>2, <2>3 DEF MemoryClone, Insert
<1>11. ASSUME NEW t \in Threads, NEW i \in Ids, MemoryAccess(t, i) PROVE TypeOK'
    BY Zenon, <1>11 DEF MemoryAccess, InCall, Idle, Registered
<1>12. ASSUME NEW t \in Threads, NEW i \in Ids, MemoryDrop(t, i) PROVE TypeOK'
    BY <1>12 DEF MemoryDrop, Without, InCall, Idle, Registered
<1>13. ASSUME NEW t \in Threads, NEW i \in Ids, TakeForIo(t, i) PROVE TypeOK'
    BY Zenon, <1>13 DEF TakeForIo, Without, InCall, Idle, Registered
<1>14. ASSUME NEW t \in Threads, NEW i \in Ids, TakeOpaque(t, i) PROVE TypeOK'
    BY <1>14 DEF TakeOpaque, Without, Idle, Registered
<1>15. ASSUME NEW t \in Threads, NEW i \in Ids, RemoveKind(t, i) PROVE TypeOK'
    BY Zenon, <1>15 DEF RemoveKind, InCall, Idle, Registered
<1>16. ASSUME NEW t \in Threads, NEW i \in Ids, ChanUse(t, i) PROVE TypeOK'
    BY Zenon, <1>16 DEF ChanUse, InCall, Idle, Registered
<1>17. ASSUME NEW t \in Threads, NEW i \in Ids, ChanDrop(t, i) PROVE TypeOK'
  <2>1. DOMAIN entries' \subseteq Ids /\ \A j \in DOMAIN entries' : entries'[j] \in Handle
    <3>1. CASE entries[i].count > 1
      <4>1. entries[i] \in Handle /\ entries[i].count - 1 \in Nat
          BY <1>17, <3>1 DEF ChanDrop, IsKind, Registered, Handle
      <4>2. [entries[i] EXCEPT !.count = @ - 1] \in Handle
          BY Zenon, <4>1 DEF Handle
      <4> QED
          BY Zenon, <1>17, <3>1, <4>2 DEF ChanDrop
    <3>2. CASE ~(entries[i].count > 1)
        BY <1>17, <3>2 DEF ChanDrop, Without
    <3> QED
        BY Zenon, <3>1, <3>2
  <2>2. call' \in [Threads -> [op : {"idle", "lookup", "bump", "io", "check", "use", "core"},
                             id : Ids \cup {0}, generation : Nat]]
        /\ \A s \in Threads : call'[s].op # "idle" => call'[s].id \in Ids
      BY SMTT(30), Z3T(30), <1>17 DEF ChanDrop, InCall
  <2>3. live' \in Int
      BY <1>17 DEF ChanDrop
  <2> QED
      BY Zenon, <1>17, <2>1, <2>2, <2>3 DEF ChanDrop
<1>18. ASSUME NEW t \in Threads, NEW u \in Threads, NEW i \in Ids, ChanRetain(t, u, i) PROVE TypeOK'
  <2>1. DOMAIN entries' \subseteq Ids /\ \A j \in DOMAIN entries' : entries'[j] \in Handle
      BY SMTT(30), Z3T(30), <1>18 DEF ChanRetain, Handle, IsKind, Registered
  <2> QED
      BY Zenon, <1>18, <2>1 DEF ChanRetain
<1> QED
    BY Zenon, <1>0, <1>1, <1>2, <1>3, <1>4, <1>5, <1>6, <1>7, <1>8, <1>9,
       <1>10, <1>11, <1>12, <1>13, <1>14, <1>15, <1>16, <1>17, <1>18 DEF Next

\* chan_drop of one handle leaves the other handles in the table.
LEMMA ChanDropKeeps ==
    ASSUME NEW t \in Threads, NEW i \in Ids, ChanDrop(t, i)
    PROVE  \A j \in Ids, k \in Kinds :
               IsKind(j, k) /\ j # i => IsKind(j, k)' /\ entries'[j] = entries[j]
<1>1. CASE entries[i].count > 1
    BY Zenon, <1>1 DEF ChanDrop, IsKind, Registered
<1>2. CASE ~(entries[i].count > 1)
    BY Zenon, <1>2 DEF ChanDrop, Without, IsKind, Registered
<1> QED
    BY Zenon, <1>1, <1>2

\* A step that leaves caches and generations alone and frees nothing a cache holds.
LEMMA CachesKept ==
    ASSUME TypeOK, Caches, cache' = cache, gen' = gen,
           \A u \in Threads : call[u].op = "bump" => call'[u] = call[u],
           \A j \in Ids : IsKind(j, "memory") =>
               \/ IsKind(j, "memory")' /\ entries'[j].of = entries[j].of
               \/ \E u \in Threads : call'[u].op = "bump" /\ call'[u].id = j
    PROVE  Caches'
<1> SUFFICES ASSUME NEW t \in Threads, cache[t].id # 0, cache[t].generation = gen
             PROVE  \/ IsKind(cache[t].id, "memory")' /\ entries'[cache[t].id].of = cache[t].of
                    \/ \E u \in Threads : call'[u].op = "bump" /\ call'[u].id = cache[t].id
    BY Zenon DEF Caches
<1>1. cache[t].id \in Ids
    BY DEF TypeOK
<1> QED
    BY <1>1 DEF Caches

\* Ids are handed out in order: nothing refers to one that is still to come.
LEMMA UnusedStep ==
    ASSUME TypeOK, Unused, [Next]_vars
    PROVE  Unused'
<1> USE DEF Unused
<1>0. CASE UNCHANGED vars
    BY Zenon, <1>0 DEF vars, Idle, Registered, IsKind
<1>1. ASSUME NEW t \in Threads, Put(t) PROVE Unused'
    BY RegistryAssumption, <1>1 DEF Put, Insert, With, Idle, Registered, IsKind, TypeOK, Ids
<1>2. ASSUME NEW t \in Threads, PutPermanent(t) PROVE Unused'
    BY RegistryAssumption, <1>2 DEF PutPermanent, With, Idle, Registered, IsKind, TypeOK, Ids
<1>3. ASSUME NEW t \in Threads, MemoryLookup(t) PROVE Unused'
    BY <1>3 DEF MemoryLookup, Remembered, Idle, Registered, IsKind, TypeOK
<1>4. ASSUME NEW t \in Threads, MemoryBump(t) PROVE Unused'
    BY <1>4 DEF MemoryBump, Idle, Registered, IsKind, TypeOK
<1>5. ASSUME NEW t \in Threads, PutBack(t) PROVE Unused'
    BY <1>5 DEF PutBack, With, Idle, Registered, IsKind, TypeOK
<1>6. ASSUME NEW t \in Threads, Remove(t) PROVE Unused'
  <2> DEFINE h == call[t].id
  <2>1. /\ h \in Ids /\ call[t].op = "check"
        /\ call' = [call EXCEPT ![t] = Idle] /\ nextId' = nextId /\ permanent' = permanent
        /\ cache' = cache /\ refs' = refs /\ dropped' = dropped
      BY Zenon, <1>6 DEF Remove, TypeOK
  <2>4. h < nextId
      BY RegistryAssumption, <2>1, <1>6 DEF Remove, TypeOK, Ids
  <2>2. CASE Registered(h)
    <3>1. entries' = Without(h) /\ freed' = [freed EXCEPT ![h] = @ + 1]
        BY Zenon, <1>6, <2>2 DEF Remove
    <3>2. \A j \in Ids : Registered(j)' <=> Registered(j) /\ j # h
        BY Zenon, <3>1 DEF Registered, Without
    <3> QED
        BY <2>1, <2>4, <3>1, <3>2 DEF Idle, TypeOK
  <2>3. CASE ~Registered(h)
    <3>1. entries' = entries /\ freed' = freed
        BY Zenon, <1>6, <2>3 DEF Remove
    <3> QED
        BY <2>1, <3>1 DEF Idle, Registered, TypeOK
  <2> QED
      BY Zenon, <2>2, <2>3
<1>7. ASSUME NEW t \in Threads, ChanUsed(t) PROVE Unused'
    BY <1>7 DEF ChanUsed, Idle, Registered, IsKind, TypeOK
<1>8. ASSUME NEW t \in Threads, DropChan(t) PROVE Unused'
    BY <1>8 DEF DropChan, Idle, Registered, IsKind, TypeOK
<1>9. ASSUME NEW t \in Threads, NEW i \in Ids, TakeString(t, i) PROVE Unused'
    BY <1>9 DEF TakeString, Without, Idle, Registered, IsKind
<1>10. ASSUME NEW t \in Threads, NEW i \in Ids, MemoryClone(t, i) PROVE Unused'
    BY RegistryAssumption, <1>10 DEF MemoryClone, Insert, With, Idle, Registered, IsKind, TypeOK, Ids
<1>11. ASSUME NEW t \in Threads, NEW i \in Ids, MemoryAccess(t, i) PROVE Unused'
    BY RegistryAssumption, <1>11 DEF MemoryAccess, InCall, Idle, Registered, IsKind, TypeOK, Ids
<1>12. ASSUME NEW t \in Threads, NEW i \in Ids, MemoryDrop(t, i) PROVE Unused'
    BY <1>12 DEF MemoryDrop, Without, InCall, Idle, Registered, IsKind
<1>13. ASSUME NEW t \in Threads, NEW i \in Ids, TakeForIo(t, i) PROVE Unused'
    BY <1>13 DEF TakeForIo, Without, InCall, Idle, Registered, IsKind
<1>14. ASSUME NEW t \in Threads, NEW i \in Ids, TakeOpaque(t, i) PROVE Unused'
    BY <1>14 DEF TakeOpaque, Without, Idle, Registered, IsKind
<1>15. ASSUME NEW t \in Threads, NEW i \in Ids, RemoveKind(t, i) PROVE Unused'
    BY <1>15 DEF RemoveKind, InCall, Idle, Registered, IsKind
<1>16. ASSUME NEW t \in Threads, NEW i \in Ids, ChanUse(t, i) PROVE Unused'
    BY <1>16 DEF ChanUse, InCall, Idle, Registered, IsKind
<1>17. ASSUME NEW t \in Threads, NEW i \in Ids, ChanDrop(t, i) PROVE Unused'
    BY <1>17 DEF ChanDrop, Without, InCall, Idle, Registered, IsKind, TypeOK
<1>18. ASSUME NEW t \in Threads, NEW u \in Threads, NEW i \in Ids, ChanRetain(t, u, i) PROVE Unused'
    BY <1>18 DEF ChanRetain, Idle, Registered, IsKind
<1> QED
    BY Zenon, <1>0, <1>1, <1>2, <1>3, <1>4, <1>5, <1>6, <1>7, <1>8, <1>9,
       <1>10, <1>11, <1>12, <1>13, <1>14, <1>15, <1>16, <1>17, <1>18 DEF Next

\* An insert at a new id.
LEMMA HomesAdded ==
    ASSUME TypeOK, Unused, Homes, nextId \in Ids, nextId' = nextId + 1,
           \A j \in Ids : Registered(j)' <=> Registered(j) \/ j = nextId,
           call' = call, freed' = freed, dropped' = dropped
    PROVE  Homes'
<1>1. \A s \in Threads, j \in Ids : Holds(s, j)' <=> Holds(s, j)
    BY Zenon DEF Holds
<1>2. freed[nextId] = 0 /\ nextId \notin dropped /\ \A s \in Threads : ~Holds(s, nextId)
    BY DEF Unused, Holds, TypeOK, Ids
<1>3. nextId \in Int /\ \A j \in Ids : j \in Int
    BY RegistryAssumption DEF Ids
<1> QED
    BY <1>1, <1>2, <1>3 DEF Homes

\* A resource moves from the table to a caller and back, or to the freed ones.
LEMMA HomesStep ==
    ASSUME TypeOK, Unused, Homes, Calls, [Next]_vars
    PROVE  Homes'
<1>0. CASE UNCHANGED vars
    BY <1>0 DEF vars, Registered, Idle, Homes, Holds
<1>1. ASSUME NEW t \in Threads, Put(t) PROVE Homes'
  <2>1. /\ nextId \in Ids /\ nextId' = nextId + 1
        /\ call' = call /\ freed' = freed /\ dropped' = dropped
      BY RegistryAssumption, <1>1 DEF Put, Insert, TypeOK, Ids
  <2>2. \A j \in Ids : Registered(j)' <=> Registered(j) \/ j = nextId
      BY Zenon, <1>1 DEF Put, Insert, With, Registered
  <2> QED
      BY Zenon, <2>1, <2>2, HomesAdded
<1>2. ASSUME NEW t \in Threads, PutPermanent(t) PROVE Homes'
  <2>1. /\ nextId \in Ids /\ nextId' = nextId + 1
        /\ call' = call /\ freed' = freed /\ dropped' = dropped
      BY RegistryAssumption, <1>2 DEF PutPermanent, TypeOK, Ids
  <2>2. \A j \in Ids : Registered(j)' <=> Registered(j) \/ j = nextId
      BY Zenon, <1>2 DEF PutPermanent, With, Registered
  <2> QED
      BY <2>1, <2>2, HomesAdded
<1>3. ASSUME NEW t \in Threads, MemoryLookup(t) PROVE Homes'
    BY <1>3 DEF MemoryLookup, Remembered, Registered, Idle, Homes, Holds
<1>4. ASSUME NEW t \in Threads, MemoryBump(t) PROVE Homes'
    BY <1>4 DEF MemoryBump, Registered, Idle, Homes, Holds, TypeOK
<1>5. ASSUME NEW t \in Threads, PutBack(t) PROVE Homes'
    BY <1>5 DEF PutBack, With, Registered, Idle, Homes, Holds, TypeOK
<1>6. ASSUME NEW t \in Threads, Remove(t) PROVE Homes'
  <2> DEFINE h == call[t].id
  <2>1. /\ h \in Ids /\ call[t].op = "check"
        /\ call' = [call EXCEPT ![t] = Idle] /\ nextId' = nextId /\ permanent' = permanent
        /\ cache' = cache /\ refs' = refs /\ dropped' = dropped
      BY Zenon, <1>6 DEF Remove, TypeOK
  <2>9. \A s \in Threads, j \in Ids : Holds(s, j)' <=> Holds(s, j)
      BY <2>1 DEF Holds, Idle
  <2>2. CASE Registered(h)
    <3>1. entries' = Without(h) /\ freed' = [freed EXCEPT ![h] = @ + 1]
        BY Zenon, <1>6, <2>2 DEF Remove
    <3>2. \A j \in Ids : Registered(j)' <=> Registered(j) /\ j # h
        BY Zenon, <3>1 DEF Registered, Without
    <3>3. freed[h] = 0
        BY <2>1, <2>2 DEF Homes, TypeOK
    <3>4. \A j \in Ids : freed'[j] = IF j = h THEN 1 ELSE freed[j]
        BY <2>1, <3>1, <3>3 DEF TypeOK
    <3>5. \A s \in Threads : ~Holds(s, h)
        BY Zenon, <2>1, <2>2 DEF Homes
    <3>6. h \notin dropped
        BY Zenon, <2>1, <2>2 DEF Homes
    <3> QED
        BY <2>1, <2>9, <3>2, <3>3, <3>4, <3>5, <3>6 DEF Homes
  <2>3. CASE ~Registered(h)
    <3>1. entries' = entries /\ freed' = freed
        BY Zenon, <1>6, <2>3 DEF Remove
    <3> QED
        BY Zenon, <2>1, <2>9, <3>1 DEF Homes, Registered
  <2> QED
      BY Zenon, <2>2, <2>3
<1>7. ASSUME NEW t \in Threads, ChanUsed(t) PROVE Homes'
  <2>1. \A s \in Threads, j \in Ids : Holds(s, j)' <=> Holds(s, j)
      BY <1>7 DEF ChanUsed, Holds, Idle
  <2>2. entries' = entries /\ freed' = freed /\ dropped' = dropped /\ nextId' = nextId
      BY Zenon, <1>7 DEF ChanUsed
  <2> QED
      BY Zenon, <2>1, <2>2 DEF Homes, Registered
<1>8. ASSUME NEW t \in Threads, DropChan(t) PROVE Homes'
    BY <1>8 DEF DropChan, Registered, Idle, Homes, Holds, TypeOK
<1>9. ASSUME NEW t \in Threads, NEW i \in Ids, TakeString(t, i) PROVE Homes'
    BY <1>9 DEF TakeString, Without, Registered, Idle, Homes, Holds, TypeOK, IsKind
<1>10. ASSUME NEW t \in Threads, NEW i \in Ids, MemoryClone(t, i) PROVE Homes'
  <2>1. /\ nextId \in Ids /\ nextId' = nextId + 1
        /\ call' = call /\ freed' = freed /\ dropped' = dropped
      BY SMTT(30), Z3T(30), RegistryAssumption, <1>10 DEF MemoryClone, Insert, TypeOK, Ids
  <2>2. \A j \in Ids : Registered(j)' <=> Registered(j) \/ j = nextId
      BY Zenon, <1>10 DEF MemoryClone, Insert, With, Registered
  <2> QED
      BY Zenon, <2>1, <2>2, HomesAdded
<1>11. ASSUME NEW t \in Threads, NEW i \in Ids, MemoryAccess(t, i) PROVE Homes'
    BY <1>11 DEF MemoryAccess, InCall, Registered, Idle, Homes, Holds
<1>12. ASSUME NEW t \in Threads, NEW i \in Ids, MemoryDrop(t, i) PROVE Homes'
    BY <1>12 DEF MemoryDrop, Without, InCall, Registered, Idle, Homes, Holds, TypeOK, IsKind
<1>13. ASSUME NEW t \in Threads, NEW i \in Ids, TakeForIo(t, i) PROVE Homes'
    BY <1>13 DEF TakeForIo, Without, InCall, Registered, Idle, Homes, Holds, TypeOK, IsKind
<1>14. ASSUME NEW t \in Threads, NEW i \in Ids, TakeOpaque(t, i) PROVE Homes'
    BY SMTT(30), Z3T(30), <1>14 DEF TakeOpaque, Without, Registered, Idle, Homes, Holds, TypeOK, IsKind
<1>15. ASSUME NEW t \in Threads, NEW i \in Ids, RemoveKind(t, i) PROVE Homes'
    BY <1>15 DEF RemoveKind, InCall, Registered, Idle, Homes, Holds
<1>16. ASSUME NEW t \in Threads, NEW i \in Ids, ChanUse(t, i) PROVE Homes'
    BY <1>16 DEF ChanUse, InCall, Registered, Idle, Homes, Holds
<1>17. ASSUME NEW t \in Threads, NEW i \in Ids, ChanDrop(t, i) PROVE Homes'
  <2>1. call[t] = Idle /\ Registered(i) /\ freed' = freed /\ dropped' = dropped /\ nextId' = nextId
      BY Zenon, <1>17 DEF ChanDrop, IsKind
  <2>2. CASE entries[i].count > 1
    <3>1. DOMAIN entries' = DOMAIN entries /\ call' = call
        BY Zenon, <1>17, <2>2 DEF ChanDrop
    <3> QED
        BY <2>1, <3>1 DEF Homes, Holds, Registered
  <2>3. CASE ~(entries[i].count > 1)
    <3>1. entries' = Without(i) /\ call' = [call EXCEPT ![t] = InCall("core", i)]
        BY Zenon, <1>17, <2>3 DEF ChanDrop
    <3>2. \A j \in Ids : Registered(j)' <=> Registered(j) /\ j # i
        BY Zenon, <3>1 DEF Registered, Without
    <3>3. \A s \in Threads, j \in Ids : Holds(s, j)' <=> IF s = t THEN j = i ELSE Holds(s, j)
        BY Zenon, <3>1 DEF Holds, InCall, TypeOK
    <3>4. \A j \in Ids : ~Holds(t, j)
        BY <2>1 DEF Holds, Idle
    <3>5. freed[i] = 0 /\ i \notin dropped /\ \A s \in Threads : ~Holds(s, i)
        BY <2>1 DEF Homes, TypeOK
    <3> QED
        BY <2>1, <3>2, <3>3, <3>4, <3>5 DEF Homes
  <2> QED
      BY Zenon, <2>2, <2>3
<1>18. ASSUME NEW t \in Threads, NEW u \in Threads, NEW i \in Ids, ChanRetain(t, u, i) PROVE Homes'
    BY <1>18 DEF ChanRetain, Registered, Idle, Homes, Holds
<1> QED
    BY Zenon, <1>0, <1>1, <1>2, <1>3, <1>4, <1>5, <1>6, <1>7, <1>8, <1>9,
       <1>10, <1>11, <1>12, <1>13, <1>14, <1>15, <1>16, <1>17, <1>18 DEF Next

\* What a thread found under one lock stays true while the others act.
LEMMA CallsStep ==
    ASSUME TypeOK, Unused, Homes, Calls, [Next]_vars
    PROVE  Calls'
<1>0. CASE UNCHANGED vars
    BY Zenon, <1>0 DEF vars, Registered, IsKind, Idle, Calls
<1>1. ASSUME NEW t \in Threads, Put(t) PROVE Calls'
    BY <1>1 DEF Put, Insert, With, Registered, IsKind, Idle, Calls, TypeOK, Unused
<1>2. ASSUME NEW t \in Threads, PutPermanent(t) PROVE Calls'
    BY <1>2 DEF PutPermanent, With, Registered, IsKind, Idle, Calls, TypeOK, Unused
<1>3. ASSUME NEW t \in Threads, MemoryLookup(t) PROVE Calls'
    BY <1>3 DEF MemoryLookup, Remembered, Registered, IsKind, Idle, Calls
<1>4. ASSUME NEW t \in Threads, MemoryBump(t) PROVE Calls'
    BY SMTT(30), Z3T(30), <1>4 DEF MemoryBump, Registered, IsKind, Idle, Calls
<1>5. ASSUME NEW t \in Threads, PutBack(t) PROVE Calls'
    BY <1>5 DEF PutBack, With, Registered, IsKind, Idle, Calls, Homes, Holds
<1>6. ASSUME NEW t \in Threads, Remove(t) PROVE Calls'
  <2> DEFINE h == call[t].id
  <2>1. /\ h \in Ids /\ call[t].op = "check"
        /\ call' = [call EXCEPT ![t] = Idle] /\ nextId' = nextId /\ permanent' = permanent
        /\ cache' = cache /\ refs' = refs /\ dropped' = dropped
      BY SMTT(30), Z3T(30), <1>6 DEF Remove, TypeOK
  <2>2. CASE Registered(h)
    <3>1. entries' = Without(h) /\ freed' = [freed EXCEPT ![h] = @ + 1]
        BY <1>6, <2>2 DEF Remove
    <3>2. \A j \in Ids : Registered(j)' <=> Registered(j) /\ j # h
        BY <3>1 DEF Registered, Without
    <3>3. freed[h] = 0
        BY <2>1, <2>2 DEF Homes, TypeOK
    <3>4. \A j \in Ids : freed'[j] = IF j = h THEN 1 ELSE freed[j]
        BY <2>1, <3>1, <3>3 DEF TypeOK
    <3>5. \A j \in Ids : j # h /\ IsKind(j, "goroutine") => IsKind(j, "goroutine")'
        BY Zenon, <3>1 DEF IsKind, Registered, Without
    <3> QED
        BY SMTT(30), Z3T(30), <2>1, <3>4, <3>5 DEF Calls, Idle
  <2>3. CASE ~Registered(h)
    <3>1. entries' = entries /\ freed' = freed
        BY <1>6, <2>3 DEF Remove
    <3> QED
        BY SMTT(30), Z3T(30), <2>1, <3>1 DEF Calls, Idle, IsKind, Registered
  <2> QED
      BY Zenon, <2>2, <2>3
<1>7. ASSUME NEW t \in Threads, ChanUsed(t) PROVE Calls'
    BY SMTT(30), Z3T(30), <1>7 DEF ChanUsed, Registered, IsKind, Idle, Calls
<1>8. ASSUME NEW t \in Threads, DropChan(t) PROVE Calls'
    BY <1>8 DEF DropChan, Registered, IsKind, Idle, Calls, Homes, Holds, TypeOK
<1>9. ASSUME NEW t \in Threads, NEW i \in Ids, TakeString(t, i) PROVE Calls'
    BY SMTT(30), Z3T(30), <1>9 DEF TakeString, Without, Registered, IsKind, Idle, Calls, Homes, TypeOK
<1>10. ASSUME NEW t \in Threads, NEW i \in Ids, MemoryClone(t, i) PROVE Calls'
    BY <1>10 DEF MemoryClone, Insert, With, Registered, IsKind, Idle, Calls, TypeOK, Unused
<1>11. ASSUME NEW t \in Threads, NEW i \in Ids, MemoryAccess(t, i) PROVE Calls'
    BY ZenonT(60), <1>11 DEF MemoryAccess, InCall, Registered, IsKind, Idle, Calls, TypeOK
<1>12. ASSUME NEW t \in Threads, NEW i \in Ids, MemoryDrop(t, i) PROVE Calls'
    BY <1>12 DEF MemoryDrop, Without, InCall, Registered, IsKind, Idle, Calls
<1>13. ASSUME NEW t \in Threads, NEW i \in Ids, TakeForIo(t, i) PROVE Calls'
    BY SMTT(30), Z3T(30), <1>13 DEF TakeForIo, Without, InCall, Registered, IsKind, Idle, Calls
<1>14. ASSUME NEW t \in Threads, NEW i \in Ids, TakeOpaque(t, i) PROVE Calls'
    BY SMTT(30), Z3T(30), <1>14 DEF TakeOpaque, Without, Registered, IsKind, Idle, Calls, Homes, TypeOK
<1>15. ASSUME NEW t \in Threads, NEW i \in Ids, RemoveKind(t, i) PROVE Calls'
    BY <1>15 DEF RemoveKind, InCall, Registered, IsKind, Idle, Calls
<1>16. ASSUME NEW t \in Threads, NEW i \in Ids, ChanUse(t, i) PROVE Calls'
    BY <1>16 DEF ChanUse, InCall, Registered, IsKind, Idle, Calls
<1>17. ASSUME NEW t \in Threads, NEW i \in Ids, ChanDrop(t, i) PROVE Calls'
  <2>1. call[t] = Idle /\ IsKind(i, "chan") /\ freed' = freed /\ refs' = [refs EXCEPT ![t] = @ \ {i}]
      BY Zenon, <1>17 DEF ChanDrop
  <2>2. \A j \in Ids : IsKind(j, "goroutine") => IsKind(j, "goroutine")'
    <3>1. \A j \in Ids : IsKind(j, "goroutine") => j # i
        BY Zenon, <2>1 DEF IsKind
    <3> QED
        BY Zenon, <1>17, <3>1, ChanDropKeeps DEF Kinds
  <2>3. \A s \in Threads : s # t => call'[s] = call[s]
      BY Zenon, <1>17 DEF ChanDrop, TypeOK
  <2>4. call'[t] = Idle \/ call'[t] = InCall("core", i)
      BY Zenon, <1>17 DEF ChanDrop, TypeOK
  <2> QED
      BY <2>1, <2>2, <2>3, <2>4 DEF Calls, Idle, InCall
<1>18. ASSUME NEW t \in Threads, NEW u \in Threads, NEW i \in Ids, ChanRetain(t, u, i) PROVE Calls'
    BY <1>18 DEF ChanRetain, Registered, IsKind, Idle, Calls
<1> QED
    BY Zenon, <1>0, <1>1, <1>2, <1>3, <1>4, <1>5, <1>6, <1>7, <1>8, <1>9,
       <1>10, <1>11, <1>12, <1>13, <1>14, <1>15, <1>16, <1>17, <1>18 DEF Next

\* Generations only grow: a thread knows none that has not begun.
LEMMA GenerationsStep ==
    ASSUME TypeOK, Generations, [Next]_vars
    PROVE  Generations'
<1>0. CASE UNCHANGED vars
    BY Zenon, <1>0 DEF vars, Generations, Idle, InCall
<1>1. ASSUME NEW t \in Threads, Put(t) PROVE Generations'
    BY Zenon, <1>1 DEF Put, Insert, With, Generations, Idle, InCall
<1>2. ASSUME NEW t \in Threads, PutPermanent(t) PROVE Generations'
    BY Zenon, <1>2 DEF PutPermanent, With, Generations, Idle, InCall
<1>3. ASSUME NEW t \in Threads, MemoryLookup(t) PROVE Generations'
    BY <1>3 DEF MemoryLookup, Remembered, Generations, Idle, InCall, TypeOK
<1>4. ASSUME NEW t \in Threads, MemoryBump(t) PROVE Generations'
    BY <1>4 DEF MemoryBump, Generations, Idle, InCall, TypeOK
<1>5. ASSUME NEW t \in Threads, PutBack(t) PROVE Generations'
    BY <1>5 DEF PutBack, With, Generations, Idle, InCall, TypeOK
<1>6. ASSUME NEW t \in Threads, Remove(t) PROVE Generations'
    BY <1>6 DEF Remove, Without, Generations, Idle, InCall, TypeOK
<1>7. ASSUME NEW t \in Threads, ChanUsed(t) PROVE Generations'
    BY <1>7 DEF ChanUsed, Generations, Idle, InCall, TypeOK
<1>8. ASSUME NEW t \in Threads, DropChan(t) PROVE Generations'
    BY <1>8 DEF DropChan, Generations, Idle, InCall, TypeOK
<1>9. ASSUME NEW t \in Threads, NEW i \in Ids, TakeString(t, i) PROVE Generations'
    BY Zenon, <1>9 DEF TakeString, Without, Generations, Idle, InCall
<1>10. ASSUME NEW t \in Threads, NEW i \in Ids, MemoryClone(t, i) PROVE Generations'
    BY Zenon, <1>10 DEF MemoryClone, Insert, With, Generations, Idle, InCall
<1>11. ASSUME NEW t \in Threads, NEW i \in Ids, MemoryAccess(t, i) PROVE Generations'
    BY <1>11 DEF MemoryAccess, InCall, Generations, Idle, InCall, TypeOK
<1>12. ASSUME NEW t \in Threads, NEW i \in Ids, MemoryDrop(t, i) PROVE Generations'
    BY <1>12 DEF MemoryDrop, Without, InCall, Generations, Idle, InCall, TypeOK
<1>13. ASSUME NEW t \in Threads, NEW i \in Ids, TakeForIo(t, i) PROVE Generations'
    BY <1>13 DEF TakeForIo, Without, InCall, Generations, Idle, InCall, TypeOK
<1>14. ASSUME NEW t \in Threads, NEW i \in Ids, TakeOpaque(t, i) PROVE Generations'
    BY Zenon, <1>14 DEF TakeOpaque, Without, Generations, Idle, InCall
<1>15. ASSUME NEW t \in Threads, NEW i \in Ids, RemoveKind(t, i) PROVE Generations'
    BY <1>15 DEF RemoveKind, InCall, Generations, Idle, InCall, TypeOK
<1>16. ASSUME NEW t \in Threads, NEW i \in Ids, ChanUse(t, i) PROVE Generations'
    BY <1>16 DEF ChanUse, InCall, Generations, Idle, InCall, TypeOK
<1>17. ASSUME NEW t \in Threads, NEW i \in Ids, ChanDrop(t, i) PROVE Generations'
    BY SMTT(30), Z3T(30), <1>17 DEF ChanDrop, Without, InCall, Generations, Idle, InCall, TypeOK
<1>18. ASSUME NEW t \in Threads, NEW u \in Threads, NEW i \in Ids, ChanRetain(t, u, i) PROVE Generations'
    BY Zenon, <1>18 DEF ChanRetain, Generations, Idle, InCall
<1> QED
    BY Zenon, <1>0, <1>1, <1>2, <1>3, <1>4, <1>5, <1>6, <1>7, <1>8, <1>9,
       <1>10, <1>11, <1>12, <1>13, <1>14, <1>15, <1>16, <1>17, <1>18 DEF Next

\* A cached entry of the current generation is the entry of the table.
LEMMA CachesStep ==
    ASSUME TypeOK, Unused, Homes, Calls, Generations, Caches, [Next]_vars
    PROVE  Caches'
<1>0. CASE UNCHANGED vars
    BY Zenon, <1>0 DEF vars, Caches, IsKind, Registered
<1>1. ASSUME NEW t \in Threads, Put(t) PROVE Caches'
  <2>1. cache' = cache /\ gen' = gen
      BY Zenon, <1>1 DEF Put
  <2>2. \A s \in Threads : call[s].op = "bump" => call'[s] = call[s]
      BY Zenon, <1>1 DEF Put, Idle
  <2>3. \A j \in Ids : IsKind(j, "memory") =>
            IsKind(j, "memory")' /\ entries'[j].of = entries[j].of
      BY <1>1 DEF Put, IsKind, Registered, Insert, With, Unused, TypeOK
  <2> QED
      BY Zenon, <2>1, <2>2, <2>3, CachesKept
<1>2. ASSUME NEW t \in Threads, PutPermanent(t) PROVE Caches'
  <2>1. cache' = cache /\ gen' = gen
      BY Zenon, <1>2 DEF PutPermanent
  <2>2. \A s \in Threads : call[s].op = "bump" => call'[s] = call[s]
      BY Zenon, <1>2 DEF PutPermanent, Idle
  <2>3. \A j \in Ids : IsKind(j, "memory") =>
            IsKind(j, "memory")' /\ entries'[j].of = entries[j].of
      BY <1>2 DEF PutPermanent, IsKind, Registered, With, Unused, TypeOK
  <2> QED
      BY <2>1, <2>2, <2>3, CachesKept
<1>3. ASSUME NEW t \in Threads, MemoryLookup(t) PROVE Caches'
  <2>1. entries' = entries /\ gen' = gen /\ \A s \in Threads : s # t => call'[s] = call[s]
      BY <1>3 DEF MemoryLookup
  <2>2. CASE ~IsKind(call[t].id, "memory")
    <3>1. cache' = cache /\ \A s \in Threads : call[s].op = "bump" => call'[s] = call[s]
        BY Zenon, <1>3, <2>1, <2>2 DEF MemoryLookup
    <3>2. \A j \in Ids : IsKind(j, "memory") =>
              IsKind(j, "memory")' /\ entries'[j].of = entries[j].of
        BY Zenon, <2>1 DEF IsKind, Registered
    <3> QED
        BY Zenon, <2>1, <3>1, <3>2, CachesKept
  <2>3. CASE IsKind(call[t].id, "memory")
    <3>1. cache'[t] = Remembered(t) /\ \A s \in Threads : s # t => cache'[s] = cache[s]
        BY Zenon, <1>3, <2>3 DEF MemoryLookup, TypeOK
    <3> SUFFICES ASSUME NEW s \in Threads, cache'[s].id # 0, cache'[s].generation = gen
                 PROVE  \/ IsKind(cache'[s].id, "memory") /\ entries[cache'[s].id].of = cache'[s].of
                        \/ \E u \in Threads : call'[u].op = "bump" /\ call'[u].id = cache'[s].id
        BY Zenon, <2>1 DEF Caches, IsKind, Registered
    <3>2. CASE s = t
        BY SMTT(30), Z3T(30), <2>3, <3>1, <3>2 DEF Remembered
    <3>3. CASE s # t
      <4>1. CASE IsKind(cache[s].id, "memory") /\ entries[cache[s].id].of = cache[s].of
          BY Zenon, <3>1, <3>3, <4>1
      <4>2. CASE \E u \in Threads : call[u].op = "bump" /\ call[u].id = cache[s].id
          BY SMTT(30), Z3T(30), <1>3, <2>1, <3>1, <3>3, <4>2 DEF MemoryLookup
      <4> QED
          BY Zenon, <3>1, <3>3, <4>1, <4>2 DEF Caches
    <3> QED
        BY Zenon, <3>2, <3>3
  <2> QED
      BY Zenon, <2>2, <2>3
<1>4. ASSUME NEW t \in Threads, MemoryBump(t) PROVE Caches'
    BY <1>4 DEF MemoryBump, Caches, Generations, TypeOK
<1>5. ASSUME NEW t \in Threads, PutBack(t) PROVE Caches'
  <2>1. cache' = cache /\ gen' = gen
      BY Zenon, <1>5 DEF PutBack
  <2>2. \A s \in Threads : call[s].op = "bump" => call'[s] = call[s]
      BY <1>5 DEF PutBack, Idle
  <2>3. \A j \in Ids : IsKind(j, "memory") =>
            IsKind(j, "memory")' /\ entries'[j].of = entries[j].of
      BY <1>5 DEF PutBack, IsKind, Registered, With, Homes, Holds
  <2> QED
      BY <2>1, <2>2, <2>3, CachesKept
<1>6. ASSUME NEW t \in Threads, Remove(t) PROVE Caches'
  <2>1. CASE gen' = gen + 1
      BY SMTT(30), Z3T(30), <1>6, <2>1 DEF Remove, Caches, Generations, TypeOK
  <2>2. CASE gen' # gen + 1
    <3>1. entries' = entries /\ cache' = cache /\ gen' = gen
          /\ \A s \in Threads : call[s].op = "bump" => call'[s] = call[s]
        BY <1>6, <2>2 DEF Remove
    <3>2. \A j \in Ids : IsKind(j, "memory") =>
              IsKind(j, "memory")' /\ entries'[j].of = entries[j].of
        BY Zenon, <3>1 DEF IsKind, Registered
    <3> QED
        BY Zenon, <3>1, <3>2, CachesKept
  <2> QED
      BY Zenon, <2>1, <2>2
<1>7. ASSUME NEW t \in Threads, ChanUsed(t) PROVE Caches'
  <2>1. cache' = cache /\ gen' = gen
      BY Zenon, <1>7 DEF ChanUsed
  <2>2. \A s \in Threads : call[s].op = "bump" => call'[s] = call[s]
      BY <1>7 DEF ChanUsed, Idle
  <2>3. \A j \in Ids : IsKind(j, "memory") =>
            IsKind(j, "memory")' /\ entries'[j].of = entries[j].of
      BY Zenon, <1>7 DEF ChanUsed, IsKind, Registered
  <2> QED
      BY <2>1, <2>2, <2>3, CachesKept
<1>8. ASSUME NEW t \in Threads, DropChan(t) PROVE Caches'
  <2>1. cache' = cache /\ gen' = gen
      BY Zenon, <1>8 DEF DropChan
  <2>2. \A s \in Threads : call[s].op = "bump" => call'[s] = call[s]
      BY <1>8 DEF DropChan, Idle
  <2>3. \A j \in Ids : IsKind(j, "memory") =>
            IsKind(j, "memory")' /\ entries'[j].of = entries[j].of
      BY Zenon, <1>8 DEF DropChan, IsKind, Registered
  <2> QED
      BY <2>1, <2>2, <2>3, CachesKept
<1>9. ASSUME NEW t \in Threads, NEW i \in Ids, TakeString(t, i) PROVE Caches'
  <2>1. cache' = cache /\ gen' = gen
      BY Zenon, <1>9 DEF TakeString
  <2>2. \A s \in Threads : call[s].op = "bump" => call'[s] = call[s]
      BY Zenon, <1>9 DEF TakeString, Idle
  <2>3. \A j \in Ids : IsKind(j, "memory") =>
            IsKind(j, "memory")' /\ entries'[j].of = entries[j].of
      BY Zenon, <1>9 DEF TakeString, IsKind, Registered, Without
  <2> QED
      BY Zenon, <2>1, <2>2, <2>3, CachesKept
<1>10. ASSUME NEW t \in Threads, NEW i \in Ids, MemoryClone(t, i) PROVE Caches'
  <2>1. cache' = cache /\ gen' = gen
      BY Zenon, <1>10 DEF MemoryClone
  <2>2. \A s \in Threads : call[s].op = "bump" => call'[s] = call[s]
      BY Zenon, <1>10 DEF MemoryClone, Idle
  <2>3. \A j \in Ids : IsKind(j, "memory") =>
            IsKind(j, "memory")' /\ entries'[j].of = entries[j].of
      BY SMTT(30), Z3T(30), <1>10 DEF MemoryClone, IsKind, Registered, Insert, With, Unused, TypeOK
  <2> QED
      BY <2>1, <2>2, <2>3, CachesKept
<1>11. ASSUME NEW t \in Threads, NEW i \in Ids, MemoryAccess(t, i) PROVE Caches'
  <2>1. cache' = cache /\ gen' = gen
      BY ZenonT(60), <1>11 DEF MemoryAccess
  <2>2. \A s \in Threads : call[s].op = "bump" => call'[s] = call[s]
      BY <1>11 DEF MemoryAccess, Idle
  <2>3. \A j \in Ids : IsKind(j, "memory") =>
            IsKind(j, "memory")' /\ entries'[j].of = entries[j].of
      BY Zenon, <1>11 DEF MemoryAccess, IsKind, Registered
  <2> QED
      BY <2>1, <2>2, <2>3, CachesKept
<1>12. ASSUME NEW t \in Threads, NEW i \in Ids, MemoryDrop(t, i) PROVE Caches'
  <2>1. cache' = cache /\ gen' = gen
      BY Zenon, <1>12 DEF MemoryDrop
  <2>2. \A s \in Threads : call[s].op = "bump" => call'[s] = call[s]
      BY <1>12 DEF MemoryDrop, Idle
  <2>3. call'[t].op = "bump" /\ call'[t].id = i
      BY Zenon, <1>12 DEF MemoryDrop, InCall, TypeOK
  <2>4. \A j \in Ids : IsKind(j, "memory") /\ j # i =>
            IsKind(j, "memory")' /\ entries'[j].of = entries[j].of
      BY Zenon, <1>12 DEF MemoryDrop, IsKind, Registered, Without
  <2> QED
      BY Zenon, <2>1, <2>2, <2>3, <2>4, CachesKept
<1>13. ASSUME NEW t \in Threads, NEW i \in Ids, TakeForIo(t, i) PROVE Caches'
  <2>1. cache' = cache /\ gen' = gen
      BY Zenon, <1>13 DEF TakeForIo
  <2>2. \A s \in Threads : call[s].op = "bump" => call'[s] = call[s]
      BY <1>13 DEF TakeForIo, Idle
  <2>3. \A j \in Ids : IsKind(j, "memory") =>
            IsKind(j, "memory")' /\ entries'[j].of = entries[j].of
      BY Zenon, <1>13 DEF TakeForIo, IsKind, Registered, Without
  <2> QED
      BY <2>1, <2>2, <2>3, CachesKept
<1>14. ASSUME NEW t \in Threads, NEW i \in Ids, TakeOpaque(t, i) PROVE Caches'
  <2>1. cache' = cache /\ gen' = gen
      BY Zenon, <1>14 DEF TakeOpaque
  <2>2. \A s \in Threads : call[s].op = "bump" => call'[s] = call[s]
      BY Zenon, <1>14 DEF TakeOpaque, Idle
  <2>3. \A j \in Ids : IsKind(j, "memory") =>
            IsKind(j, "memory")' /\ entries'[j].of = entries[j].of
      BY Zenon, <1>14 DEF TakeOpaque, IsKind, Registered, Without
  <2> QED
      BY <2>1, <2>2, <2>3, CachesKept
<1>15. ASSUME NEW t \in Threads, NEW i \in Ids, RemoveKind(t, i) PROVE Caches'
  <2>1. cache' = cache /\ gen' = gen
      BY Zenon, <1>15 DEF RemoveKind
  <2>2. \A s \in Threads : call[s].op = "bump" => call'[s] = call[s]
      BY <1>15 DEF RemoveKind, Idle
  <2>3. \A j \in Ids : IsKind(j, "memory") =>
            IsKind(j, "memory")' /\ entries'[j].of = entries[j].of
      BY Zenon, <1>15 DEF RemoveKind, IsKind, Registered
  <2> QED
      BY <2>1, <2>2, <2>3, CachesKept
<1>16. ASSUME NEW t \in Threads, NEW i \in Ids, ChanUse(t, i) PROVE Caches'
  <2>1. cache' = cache /\ gen' = gen
      BY Zenon, <1>16 DEF ChanUse
  <2>2. \A s \in Threads : call[s].op = "bump" => call'[s] = call[s]
      BY <1>16 DEF ChanUse, Idle
  <2>3. \A j \in Ids : IsKind(j, "memory") =>
            IsKind(j, "memory")' /\ entries'[j].of = entries[j].of
      BY Zenon, <1>16 DEF ChanUse, IsKind, Registered
  <2> QED
      BY <2>1, <2>2, <2>3, CachesKept
<1>17. ASSUME NEW t \in Threads, NEW i \in Ids, ChanDrop(t, i) PROVE Caches'
  <2>1. cache' = cache /\ gen' = gen
      BY Zenon, <1>17 DEF ChanDrop
  <2>2. \A s \in Threads : call[s].op = "bump" => call'[s] = call[s]
      BY <1>17 DEF ChanDrop, Idle, TypeOK
  <2>3. \A j \in Ids : IsKind(j, "memory") => j # i
      BY Zenon, <1>17 DEF ChanDrop, IsKind
  <2>4. \A j \in Ids : IsKind(j, "memory") =>
            IsKind(j, "memory")' /\ entries'[j].of = entries[j].of
      BY Zenon, <1>17, <2>3, ChanDropKeeps DEF Kinds
  <2> QED
      BY <2>1, <2>2, <2>4, CachesKept
<1>18. ASSUME NEW t \in Threads, NEW u \in Threads, NEW i \in Ids, ChanRetain(t, u, i) PROVE Caches'
  <2>1. cache' = cache /\ gen' = gen
      BY Zenon, <1>18 DEF ChanRetain
  <2>2. \A s \in Threads : call[s].op = "bump" => call'[s] = call[s]
      BY Zenon, <1>18 DEF ChanRetain, Idle
  <2>3. \A j \in Ids : IsKind(j, "memory") =>
            IsKind(j, "memory")' /\ entries'[j].of = entries[j].of
      BY Zenon, <1>18 DEF ChanRetain, IsKind, Registered, Handle
  <2> QED
      BY Zenon, <2>1, <2>2, <2>3, CachesKept
<1> QED
    BY Zenon, <1>0, <1>1, <1>2, <1>3, <1>4, <1>5, <1>6, <1>7, <1>8, <1>9,
       <1>10, <1>11, <1>12, <1>13, <1>14, <1>15, <1>16, <1>17, <1>18 DEF Next

-----------------------------------------------------------------------------
\* The invariant is inductive.
LEMMA Invariance == Spec => []Inv
<1>1. Inv /\ [Next]_vars => Inv'
    BY Zenon, TypeStep, UnusedStep, HomesStep, CallsStep, GenerationsStep, CachesStep DEF Inv
<1> QED
    BY InitInv, <1>1, PTL DEF Spec

\* Every handle, counter and cache of the registry keeps its type.
THEOREM TypesHold == Spec => []TypeOK
<1>1. Inv => TypeOK
    BY Zenon DEF Inv
<1> QED
    BY <1>1, Invariance, PTL

\* memory_region never serves a dropped pointer from a thread's cache, nor a
\* region other than the registered one: a drop on any thread ends the
\* generation before it returns.
THEOREM CachesServeLive == Spec => []ServedLive
<1>1. Inv => ServedLive
  <2> SUFFICES ASSUME Inv, NEW t \in Threads, cache[t].id # 0, cache[t].generation = gen
               PROVE  /\ cache[t].id \notin dropped
                      /\ Registered(cache[t].id) => entries[cache[t].id].of = cache[t].of
      BY Zenon DEF ServedLive
  <2>1. cache[t].id \in Ids
      BY Zenon DEF Inv, TypeOK
  <2>2. CASE IsKind(cache[t].id, "memory") /\ entries[cache[t].id].of = cache[t].of
      BY Zenon, <2>1, <2>2 DEF Inv, Homes, IsKind
  <2>3. CASE \E u \in Threads : call[u].op = "bump" /\ call[u].id = cache[t].id
      BY Zenon, <2>1, <2>3 DEF Inv, Homes, Holds
  <2> QED
      BY Zenon, <2>2, <2>3 DEF Inv, Caches
<1> QED
    BY <1>1, Invariance, PTL

\* A resource is in the table, with the one thread that has taken it out, or
\* given up once: no two threads that close, drop or use one handle both get it.
THEOREM ResourcesHaveOneHome == Spec => []OneHome
<1>1. Inv => OneHome
  <2> SUFFICES ASSUME Inv, NEW i \in 1..(nextId - 1),
                      ~(Registered(i) /\ entries[i].kind = "memory"),
                      i \notin dropped, Unlocked(i)
               PROVE  Cardinality({t \in Threads : call[t].op \in {"io", "core"} /\ call[t].id = i})
                        + freed[i] + (IF Registered(i) THEN 1 ELSE 0) = 1
      BY Zenon DEF OneHome
  <2> DEFINE holders == {t \in Threads : call[t].op \in {"io", "core"} /\ call[t].id = i}
  <2>1. i \in Ids /\ i < nextId /\ freed[i] \in Nat
      BY SMTT(30), Z3T(30), RegistryAssumption DEF Inv, TypeOK, Ids
  <2>2. holders = {t \in Threads : Holds(t, i)}
      BY Zenon DEF Holds, Unlocked
  <2> HIDE DEF holders
  <2>3. Cardinality({}) = 0 /\ \A t : Cardinality({t}) = 1
      BY Zenon, FS_EmptySet, FS_Singleton
  <2>4. CASE \E t \in Threads : Holds(t, i)
    <3>1. PICK t \in Threads : Holds(t, i)
        BY Zenon, <2>4
    <3>2. holders = {t}
        BY Zenon, <2>1, <2>2, <3>1 DEF Inv, Homes
    <3>3. freed[i] = 0 /\ ~Registered(i)
        BY Zenon, <2>1, <3>1 DEF Inv, Homes
    <3>4. Cardinality(holders) = 1
        BY Zenon, <2>3, <3>2
    <3> QED
        BY <3>3, <3>4 DEF holders
  <2>5. CASE ~\E t \in Threads : Holds(t, i)
    <3>1. holders = {}
        BY Zenon, <2>2, <2>5
    <3>2. \/ Registered(i) /\ freed[i] = 0
          \/ ~Registered(i) /\ freed[i] = 1
        BY <2>1, <2>5 DEF Inv, Homes
    <3>3. Cardinality(holders) = 0
        BY Zenon, <2>3, <3>1
    <3> QED
        BY <3>2, <3>3 DEF holders
  <2> QED
      BY Zenon, <2>4, <2>5
<1> QED
    BY <1>1, Invariance, PTL

-----------------------------------------------------------------------------
(* The counts: the copies of a channel handle, and the leak counters. *)

\* The threads that hold a copy of the channel handle i.
Sharers(i) == {t \in Threads : i \in refs[t]}

\* Copies of a channel handle are counted, and copies only exist of channels
\* that are registered.
Copies ==
    \A i \in Ids :
        /\ IsKind(i, "chan") => entries[i].count = Cardinality(Sharers(i))
        /\ \A t \in Threads : i \in refs[t] => IsKind(i, "chan")

-----------------------------------------------------------------------------
\* A step that leaves the copies of channel handles alone.
LEMMA CopiesKept ==
    ASSUME Copies, refs' = refs,
           \A j \in Ids : IsKind(j, "chan")' <=> IsKind(j, "chan"),
           \A j \in Ids : IsKind(j, "chan") => entries'[j].count = entries[j].count
    PROVE  Copies'
    BY Zenon DEF Copies, Sharers

\* A core has finitely many sharers.
LEMMA SharersFinite ==
    \A i : IsFiniteSet(Sharers(i)) /\ Cardinality(Sharers(i)) \in Nat
    BY Zenon, RegistryAssumption, FS_Subset, FS_CardinalityType DEF Sharers

\* A clone adds one copy and one count, a drop takes one of each.
LEMMA CopiesStep ==
    ASSUME TypeOK, Unused, Homes, Calls, Copies, [Next]_vars
    PROVE  Copies'
<1>0. CASE UNCHANGED vars
    BY Zenon, <1>0 DEF vars, Copies, Sharers, IsKind, Registered
<1>1. ASSUME NEW t \in Threads, Put(t) PROVE Copies'
  <2>0. PICK n \in Ids : n = nextId
      BY RegistryAssumption, <1>1 DEF Put, Insert, TypeOK, Ids
  <2>1. PICK k \in kinds :
          /\ entries' = With(n, [kind |-> k, of |-> n, count |-> 1])
          /\ refs' = IF k = "chan" THEN [refs EXCEPT ![t] = @ \cup {n}] ELSE refs
      BY Zenon, <1>1, <2>0 DEF Put, Insert
  <2>2. ~Registered(n) /\ Sharers(n) = {}
      BY <2>0 DEF Unused, Sharers, TypeOK
  <2>3. \A j \in Ids : j # n =>
            /\ Sharers(j)' = Sharers(j)
            /\ IsKind(j, "chan")' <=> IsKind(j, "chan")
            /\ IsKind(j, "chan") => entries'[j] = entries[j]
    <3>1. \A j \in Ids : j # n => Sharers(j)' = Sharers(j)
        BY Zenon, <2>1 DEF Sharers, TypeOK
    <3>2. \A j \in Ids : j # n =>
              /\ IsKind(j, "chan")' <=> IsKind(j, "chan")
              /\ IsKind(j, "chan") => entries'[j] = entries[j]
        BY Zenon, <2>1 DEF IsKind, Registered, With
    <3> QED
        BY Zenon, <3>1, <3>2
  <2>4. \A j \in Ids : \A s \in Threads : j # n => (j \in refs'[s] <=> j \in refs[s])
      BY <2>1
  <2>5. CASE k = "chan"
    <3>1. IsKind(n, "chan")' /\ entries'[n].count = 1
        BY Zenon, <2>1, <2>5 DEF IsKind, Registered, With
    <3>2. Sharers(n)' = {t}
        BY Zenon, <2>1, <2>2, <2>5 DEF Sharers, TypeOK
    <3>3. Cardinality({t}) = 1
        BY Zenon, FS_Singleton
    <3> QED
        BY Zenon, <2>3, <2>4, <3>1, <3>2, <3>3 DEF Copies
  <2>6. CASE k # "chan"
    <3>1. ~IsKind(n, "chan")' /\ \A s \in Threads : n \notin refs'[s]
        BY Zenon, <2>1, <2>2, <2>6 DEF IsKind, Registered, With, Sharers
    <3> QED
        BY Zenon, <2>3, <2>4, <3>1 DEF Copies
  <2> QED
      BY Zenon, <2>5, <2>6
<1>2. ASSUME NEW t \in Threads, PutPermanent(t) PROVE Copies'
  <2>1. /\ refs' = refs /\ \A j \in Ids : IsKind(j, "chan")' <=> IsKind(j, "chan")
        /\ \A j \in Ids : IsKind(j, "chan") => entries'[j].count = entries[j].count
      BY <1>2 DEF PutPermanent, IsKind, Registered, With, Unused, TypeOK
  <2> QED
      BY Zenon, <2>1, CopiesKept
<1>3. ASSUME NEW t \in Threads, MemoryLookup(t) PROVE Copies'
  <2>1. /\ refs' = refs /\ \A j \in Ids : IsKind(j, "chan")' <=> IsKind(j, "chan")
        /\ \A j \in Ids : IsKind(j, "chan") => entries'[j].count = entries[j].count
      BY Zenon, <1>3 DEF MemoryLookup, IsKind, Registered
  <2> QED
      BY <2>1, CopiesKept
<1>4. ASSUME NEW t \in Threads, MemoryBump(t) PROVE Copies'
  <2>1. /\ refs' = refs /\ \A j \in Ids : IsKind(j, "chan")' <=> IsKind(j, "chan")
        /\ \A j \in Ids : IsKind(j, "chan") => entries'[j].count = entries[j].count
      BY Zenon, <1>4 DEF MemoryBump, IsKind, Registered
  <2> QED
      BY <2>1, CopiesKept
<1>5. ASSUME NEW t \in Threads, PutBack(t) PROVE Copies'
  <2>1. /\ refs' = refs /\ \A j \in Ids : IsKind(j, "chan")' <=> IsKind(j, "chan")
        /\ \A j \in Ids : IsKind(j, "chan") => entries'[j].count = entries[j].count
      BY ZenonT(60), <1>5 DEF PutBack, IsKind, Registered, With, Homes, Holds
  <2> QED
      BY <2>1, CopiesKept
<1>6. ASSUME NEW t \in Threads, Remove(t) PROVE Copies'
  <2>1. PICK h \in Ids : h = call[t].id
      BY Zenon, <1>6 DEF Remove, TypeOK
  <2>2. Registered(h) => IsKind(h, "goroutine")
      BY <1>6, <2>1 DEF Remove, Calls, Homes, TypeOK
  <2>3. refs' = refs /\ entries' \in {entries, Without(h)} /\ (entries' # entries => Registered(h))
      BY Zenon, <1>6, <2>1 DEF Remove
  <2>4. \A j \in Ids : IsKind(j, "chan")' <=> IsKind(j, "chan")
      BY Zenon, <2>2, <2>3 DEF IsKind, Registered, Without
  <2>5. \A j \in Ids : IsKind(j, "chan") => entries'[j].count = entries[j].count
      BY Zenon, <2>2, <2>3 DEF IsKind, Registered, Without
  <2> QED
      BY Zenon, <2>3, <2>4, <2>5, CopiesKept
<1>7. ASSUME NEW t \in Threads, ChanUsed(t) PROVE Copies'
  <2>1. /\ refs' = refs /\ \A j \in Ids : IsKind(j, "chan")' <=> IsKind(j, "chan")
        /\ \A j \in Ids : IsKind(j, "chan") => entries'[j].count = entries[j].count
      BY Zenon, <1>7 DEF ChanUsed, IsKind, Registered
  <2> QED
      BY <2>1, CopiesKept
<1>8. ASSUME NEW t \in Threads, DropChan(t) PROVE Copies'
  <2>1. /\ refs' = refs /\ \A j \in Ids : IsKind(j, "chan")' <=> IsKind(j, "chan")
        /\ \A j \in Ids : IsKind(j, "chan") => entries'[j].count = entries[j].count
      BY Zenon, <1>8 DEF DropChan, IsKind, Registered
  <2> QED
      BY <2>1, CopiesKept
<1>9. ASSUME NEW t \in Threads, NEW i \in Ids, TakeString(t, i) PROVE Copies'
  <2>1. /\ refs' = refs /\ \A j \in Ids : IsKind(j, "chan")' <=> IsKind(j, "chan")
        /\ \A j \in Ids : IsKind(j, "chan") => entries'[j].count = entries[j].count
      BY Zenon, <1>9 DEF TakeString, IsKind, Registered, Without
  <2> QED
      BY Zenon, <2>1, CopiesKept
<1>10. ASSUME NEW t \in Threads, NEW i \in Ids, MemoryClone(t, i) PROVE Copies'
  <2>1. /\ refs' = refs /\ \A j \in Ids : IsKind(j, "chan")' <=> IsKind(j, "chan")
        /\ \A j \in Ids : IsKind(j, "chan") => entries'[j].count = entries[j].count
      BY <1>10 DEF MemoryClone, IsKind, Registered, Insert, With, Unused, TypeOK
  <2> QED
      BY SMTT(30), Z3T(30), <2>1, CopiesKept
<1>11. ASSUME NEW t \in Threads, NEW i \in Ids, MemoryAccess(t, i) PROVE Copies'
  <2>1. /\ refs' = refs /\ \A j \in Ids : IsKind(j, "chan")' <=> IsKind(j, "chan")
        /\ \A j \in Ids : IsKind(j, "chan") => entries'[j].count = entries[j].count
      BY Zenon, <1>11 DEF MemoryAccess, IsKind, Registered
  <2> QED
      BY <2>1, CopiesKept
<1>12. ASSUME NEW t \in Threads, NEW i \in Ids, MemoryDrop(t, i) PROVE Copies'
  <2>1. /\ refs' = refs /\ \A j \in Ids : IsKind(j, "chan")' <=> IsKind(j, "chan")
        /\ \A j \in Ids : IsKind(j, "chan") => entries'[j].count = entries[j].count
      BY Zenon, <1>12 DEF MemoryDrop, IsKind, Registered, Without
  <2> QED
      BY <2>1, CopiesKept
<1>13. ASSUME NEW t \in Threads, NEW i \in Ids, TakeForIo(t, i) PROVE Copies'
  <2>1. /\ refs' = refs /\ \A j \in Ids : IsKind(j, "chan")' <=> IsKind(j, "chan")
        /\ \A j \in Ids : IsKind(j, "chan") => entries'[j].count = entries[j].count
      BY Zenon, <1>13 DEF TakeForIo, IsKind, Registered, Without
  <2> QED
      BY <2>1, CopiesKept
<1>14. ASSUME NEW t \in Threads, NEW i \in Ids, TakeOpaque(t, i) PROVE Copies'
  <2>1. /\ refs' = refs /\ \A j \in Ids : IsKind(j, "chan")' <=> IsKind(j, "chan")
        /\ \A j \in Ids : IsKind(j, "chan") => entries'[j].count = entries[j].count
      BY Zenon, <1>14 DEF TakeOpaque, IsKind, Registered, Without
  <2> QED
      BY <2>1, CopiesKept
<1>15. ASSUME NEW t \in Threads, NEW i \in Ids, RemoveKind(t, i) PROVE Copies'
  <2>1. /\ refs' = refs /\ \A j \in Ids : IsKind(j, "chan")' <=> IsKind(j, "chan")
        /\ \A j \in Ids : IsKind(j, "chan") => entries'[j].count = entries[j].count
      BY Zenon, <1>15 DEF RemoveKind, IsKind, Registered
  <2> QED
      BY <2>1, CopiesKept
<1>16. ASSUME NEW t \in Threads, NEW i \in Ids, ChanUse(t, i) PROVE Copies'
  <2>1. /\ refs' = refs /\ \A j \in Ids : IsKind(j, "chan")' <=> IsKind(j, "chan")
        /\ \A j \in Ids : IsKind(j, "chan") => entries'[j].count = entries[j].count
      BY Zenon, <1>16 DEF ChanUse, IsKind, Registered
  <2> QED
      BY <2>1, CopiesKept
<1>17. ASSUME NEW t \in Threads, NEW i \in Ids, ChanDrop(t, i) PROVE Copies'
  <2>1. /\ IsKind(i, "chan") /\ t \in Sharers(i)
        /\ refs' = [refs EXCEPT ![t] = @ \ {i}]
      BY Zenon, <1>17 DEF ChanDrop, Sharers
  <2>2. \A j \in Ids : j # i =>
            (IsKind(j, "chan")' <=> IsKind(j, "chan")) /\ Sharers(j)' = Sharers(j)
    <3>1. CASE entries[i].count > 1
        BY <1>17, <2>1, <3>1 DEF ChanDrop, IsKind, Registered, Sharers
    <3>2. CASE ~(entries[i].count > 1)
        BY <1>17, <2>1, <3>2 DEF ChanDrop, Without, IsKind, Registered, Sharers
    <3> QED
        BY Zenon, <3>1, <3>2
  <2>3. \A j \in Ids : j # i /\ IsKind(j, "chan") => entries'[j] = entries[j]
      BY Zenon, <1>17, ChanDropKeeps DEF Kinds
  <2>4. Sharers(i)' = Sharers(i) \ {t} /\ \A s \in Threads : i \in refs'[s] => s \in Sharers(i) \ {t}
      BY Zenon, <2>1 DEF Sharers, TypeOK
  <2>5. Cardinality(Sharers(i) \ {t}) = Cardinality(Sharers(i)) - 1
      BY Zenon, <2>1, SharersFinite, FS_RemoveElement
  <2>6. entries[i].count = Cardinality(Sharers(i)) /\ Cardinality(Sharers(i)) \in Nat
      BY Zenon, <2>1, SharersFinite DEF Copies
  <2>7. \A j \in Ids, s \in Threads : j \in refs'[s] => j \in refs[s]
      BY <2>1
  <2>8. CASE entries[i].count > 1
    <3>1. IsKind(i, "chan")' /\ entries'[i].count = entries[i].count - 1
        BY <1>17, <2>1, <2>8 DEF ChanDrop, IsKind, Registered, Handle, TypeOK
    <3> QED
        BY Zenon, <2>2, <2>3, <2>4, <2>5, <2>6, <2>7, <3>1 DEF Copies
  <2>9. CASE ~(entries[i].count > 1)
    <3>1. ~IsKind(i, "chan")'
        BY Zenon, <1>17, <2>9 DEF ChanDrop, Without, IsKind, Registered
    <3>2. Cardinality(Sharers(i) \ {t}) \in Nat
        BY Zenon, SharersFinite, FS_Subset, FS_CardinalityType
    <3>3. Cardinality(Sharers(i) \ {t}) = 0
        BY <2>5, <2>6, <2>9, <3>2
    <3>4. Sharers(i) \ {t} = {}
        BY Zenon, <3>3, SharersFinite, FS_Subset, FS_EmptySet
    <3> QED
        BY Zenon, <2>2, <2>3, <2>4, <2>7, <3>1, <3>4 DEF Copies
  <2> QED
      BY Zenon, <2>8, <2>9
<1>18. ASSUME NEW t \in Threads, NEW u \in Threads, NEW i \in Ids, ChanRetain(t, u, i) PROVE Copies'
  <2>1. /\ IsKind(i, "chan") /\ u \notin Sharers(i)
        /\ entries' = [entries EXCEPT ![i].count = @ + 1]
        /\ refs' = [refs EXCEPT ![u] = @ \cup {i}]
      BY Zenon, <1>18 DEF ChanRetain, Sharers
  <2>2. \A j \in Ids : IsKind(j, "chan")' <=> IsKind(j, "chan")
      BY <2>1 DEF IsKind, Registered, Handle
  <2>3. entries'[i].count = entries[i].count + 1
      BY Zenon, <2>1 DEF IsKind, Registered, Handle, TypeOK
  <2>4. \A j \in Ids : j # i /\ IsKind(j, "chan") => entries'[j] = entries[j]
      BY Zenon, <2>1 DEF IsKind, Registered
  <2>5. Sharers(i)' = Sharers(i) \cup {u} /\ \A j \in Ids : j # i => Sharers(j)' = Sharers(j)
      BY <2>1 DEF Sharers, TypeOK
  <2>6. Cardinality(Sharers(i) \cup {u}) = Cardinality(Sharers(i)) + 1
      BY Zenon, <2>1, SharersFinite, FS_AddElement
  <2>7. \A j \in Ids, s \in Threads : j \in refs'[s] => j = i \/ j \in refs[s]
      BY <2>1
  <2> QED
      BY Zenon, <2>1, <2>2, <2>3, <2>4, <2>5, <2>6, <2>7 DEF Copies
<1> QED
    BY SMTT(30), Z3T(30), <1>0, <1>1, <1>2, <1>3, <1>4, <1>5, <1>6, <1>7, <1>8, <1>9,
       <1>10, <1>11, <1>12, <1>13, <1>14, <1>15, <1>16, <1>17, <1>18 DEF Next

\* The three counted sets are finite.
LEMMA Finite ==
    ASSUME TypeOK
    PROVE  /\ IsFiniteSet(DOMAIN entries) /\ Cardinality(DOMAIN entries) \in Nat
           /\ IsFiniteSet(permanent) /\ Cardinality(permanent) \in Nat
           /\ IsFiniteSet(Out) /\ Cardinality(Out) \in Nat
<1>1. IsFiniteSet(Ids)
    BY RegistryAssumption, FS_Interval DEF Ids
<1>2. DOMAIN entries \subseteq Ids /\ permanent \subseteq Ids /\ Out \subseteq Threads
    BY Zenon DEF TypeOK, Out
<1> QED
    BY Zenon, <1>1, <1>2, RegistryAssumption, FS_Subset, FS_CardinalityType

\* What a step does to the three sets the counters measure.
LEMMA Counted ==
    ASSUME TypeOK, CountersAgree,
           \/ /\ DOMAIN entries' = DOMAIN entries /\ permanent' = permanent
              /\ Out' = Out /\ live' = live
           \/ \E i \in Ids \ DOMAIN entries :
                /\ DOMAIN entries' = DOMAIN entries \cup {i} /\ Out' = Out
                /\ \/ permanent' = permanent /\ live' = live + 1
                   \/ i \notin permanent /\ permanent' = permanent \cup {i} /\ live' = live
           \/ \E i \in DOMAIN entries :
                /\ DOMAIN entries' = DOMAIN entries \ {i} /\ permanent' = permanent
                /\ \/ Out' = Out /\ live' = live - 1
                   \/ \E t \in Threads \ Out : Out' = Out \cup {t} /\ live' = live
           \/ \E i \in Ids \ DOMAIN entries, t \in Out :
                /\ DOMAIN entries' = DOMAIN entries \cup {i} /\ permanent' = permanent
                /\ Out' = Out \ {t} /\ live' = live
    PROVE  CountersAgree'
<1>1. live \in Int
    BY Zenon DEF TypeOK
<1> USE <1>1, Finite
<1>2. \A i \in Ids \ DOMAIN entries :
          Cardinality(DOMAIN entries \cup {i}) = Cardinality(DOMAIN entries) + 1
    BY Zenon, FS_AddElement
<1>3. \A i \in DOMAIN entries :
          Cardinality(DOMAIN entries \ {i}) = Cardinality(DOMAIN entries) - 1
    BY Zenon, FS_RemoveElement
<1>4. \A i : i \notin permanent => Cardinality(permanent \cup {i}) = Cardinality(permanent) + 1
    BY Zenon, FS_AddElement
<1>5. \A t : t \notin Out => Cardinality(Out \cup {t}) = Cardinality(Out) + 1
    BY Zenon, FS_AddElement
<1>6. \A t \in Out : Cardinality(Out \ {t}) = Cardinality(Out) - 1
    BY Zenon, FS_RemoveElement
<1>7. CASE /\ DOMAIN entries' = DOMAIN entries /\ permanent' = permanent
           /\ Out' = Out /\ live' = live
    BY Zenon, <1>7 DEF CountersAgree
<1>8. ASSUME NEW i \in Ids \ DOMAIN entries,
             DOMAIN entries' = DOMAIN entries \cup {i}, Out' = Out,
             \/ permanent' = permanent /\ live' = live + 1
             \/ i \notin permanent /\ permanent' = permanent \cup {i} /\ live' = live
      PROVE  CountersAgree'
    BY SMTT(30), Z3T(30), <1>2, <1>4, <1>8 DEF CountersAgree
<1>9. ASSUME NEW i \in DOMAIN entries,
             DOMAIN entries' = DOMAIN entries \ {i}, permanent' = permanent,
             \/ Out' = Out /\ live' = live - 1
             \/ \E t \in Threads \ Out : Out' = Out \cup {t} /\ live' = live
      PROVE  CountersAgree'
    BY <1>3, <1>5, <1>9 DEF CountersAgree
<1>10. ASSUME NEW i \in Ids \ DOMAIN entries, NEW t \in Out,
              DOMAIN entries' = DOMAIN entries \cup {i}, permanent' = permanent,
              Out' = Out \ {t}, live' = live
       PROVE  CountersAgree'
    BY <1>2, <1>6, <1>10 DEF CountersAgree
<1> QED
    BY Zenon, <1>7, <1>8, <1>9, <1>10

\* Every action changes a counter by what it adds to or takes from the table.
LEMMA CountersStep ==
    ASSUME TypeOK, Unused, Homes, CountersAgree, [Next]_vars
    PROVE  CountersAgree'
<1>0. CASE UNCHANGED vars
    BY Zenon, <1>0 DEF vars, CountersAgree, Out
<1>1. ASSUME NEW t \in Threads, Put(t) PROVE CountersAgree'
  <2>1. nextId \in Ids \ DOMAIN entries /\ nextId \notin permanent
      BY RegistryAssumption, <1>1 DEF Put, Insert, Unused, Registered, TypeOK, Ids
  <2>2. DOMAIN entries' = DOMAIN entries \cup {nextId} /\ Out' = Out
      BY Zenon, <1>1 DEF Put, Insert, With, Out
  <2>3. permanent' = permanent /\ live' = live + 1
      BY Zenon, <1>1 DEF Put, Insert
  <2> QED
      BY Zenon, <2>1, <2>2, <2>3, Counted
<1>2. ASSUME NEW t \in Threads, PutPermanent(t) PROVE CountersAgree'
  <2>1. nextId \in Ids \ DOMAIN entries /\ nextId \notin permanent
      BY RegistryAssumption, <1>2 DEF PutPermanent, Unused, Registered, TypeOK, Ids
  <2>2. DOMAIN entries' = DOMAIN entries \cup {nextId} /\ Out' = Out
      BY Zenon, <1>2 DEF PutPermanent, With, Out
  <2>3. permanent' = permanent \cup {nextId} /\ live' = live
      BY Zenon, <1>2 DEF PutPermanent
  <2> QED
      BY Zenon, <2>1, <2>2, <2>3, Counted
<1>3. ASSUME NEW t \in Threads, MemoryLookup(t) PROVE CountersAgree'
  <2>1. entries' = entries /\ permanent' = permanent /\ Out' = Out /\ live' = live
      BY <1>3 DEF MemoryLookup, Out, Idle
  <2> QED
      BY Zenon, <2>1, Counted
<1>4. ASSUME NEW t \in Threads, MemoryBump(t) PROVE CountersAgree'
  <2>1. entries' = entries /\ permanent' = permanent /\ Out' = Out /\ live' = live
      BY <1>4 DEF MemoryBump, Out, Idle
  <2> QED
      BY <2>1, Counted
<1>5. ASSUME NEW t \in Threads, PutBack(t) PROVE CountersAgree'
  <2>1. call[t].id \in Ids \ DOMAIN entries
      BY Zenon, <1>5 DEF PutBack, Homes, Holds, Registered, TypeOK
  <2>2. DOMAIN entries' = DOMAIN entries \cup {call[t].id}
      BY Zenon, <1>5 DEF PutBack, With
  <2>3. t \in Out /\ Out' = Out \ {t}
      BY Zenon, <1>5 DEF PutBack, Out, Idle, TypeOK
  <2>4. permanent' = permanent /\ live' = live
      BY Zenon, <1>5 DEF PutBack
  <2> QED
      BY Zenon, <2>1, <2>2, <2>3, <2>4, Counted
<1>6. ASSUME NEW t \in Threads, Remove(t) PROVE CountersAgree'
  <2>1. Out' = Out /\ permanent' = permanent
      BY <1>6 DEF Remove, Out, Idle
  <2>2. CASE Registered(call[t].id)
    <3>1. call[t].id \in DOMAIN entries /\ DOMAIN entries' = DOMAIN entries \ {call[t].id}
        BY Zenon, <1>6, <2>2 DEF Remove, Without, Registered
    <3>2. live' = live - 1
        BY Zenon, <1>6, <2>2 DEF Remove
    <3> QED
        BY Zenon, <2>1, <3>1, <3>2, Counted
  <2>3. CASE ~Registered(call[t].id)
    <3>1. entries' = entries /\ live' = live
        BY Zenon, <1>6, <2>3 DEF Remove
    <3> QED
        BY Zenon, <2>1, <3>1, Counted
  <2> QED
      BY Zenon, <2>2, <2>3
<1>7. ASSUME NEW t \in Threads, ChanUsed(t) PROVE CountersAgree'
  <2>1. entries' = entries /\ permanent' = permanent /\ Out' = Out /\ live' = live
      BY <1>7 DEF ChanUsed, Out, Idle
  <2> QED
      BY <2>1, Counted
<1>8. ASSUME NEW t \in Threads, DropChan(t) PROVE CountersAgree'
  <2>1. entries' = entries /\ permanent' = permanent /\ Out' = Out /\ live' = live
      BY <1>8 DEF DropChan, Out, Idle
  <2> QED
      BY <2>1, Counted
<1>9. ASSUME NEW t \in Threads, NEW i \in Ids, TakeString(t, i) PROVE CountersAgree'
  <2>1. i \in DOMAIN entries /\ DOMAIN entries' = DOMAIN entries \ {i}
      BY Zenon, <1>9 DEF TakeString, Without, IsKind, Registered
  <2>2. Out' = Out /\ permanent' = permanent /\ live' = live - 1
      BY Zenon, <1>9 DEF TakeString, Out, Idle
  <2> QED
      BY Zenon, <2>1, <2>2, Counted
<1>10. ASSUME NEW t \in Threads, NEW i \in Ids, MemoryClone(t, i) PROVE CountersAgree'
  <2>1. nextId \in Ids \ DOMAIN entries /\ nextId \notin permanent
      BY RegistryAssumption, <1>10 DEF MemoryClone, Insert, Unused, Registered, TypeOK, Ids
  <2>2. DOMAIN entries' = DOMAIN entries \cup {nextId} /\ Out' = Out
      BY Zenon, <1>10 DEF MemoryClone, Insert, With, Out
  <2>3. permanent' = permanent /\ live' = live + 1
      BY Zenon, <1>10 DEF MemoryClone, Insert
  <2> QED
      BY Zenon, <2>1, <2>2, <2>3, Counted
<1>11. ASSUME NEW t \in Threads, NEW i \in Ids, MemoryAccess(t, i) PROVE CountersAgree'
  <2>1. entries' = entries /\ permanent' = permanent /\ Out' = Out /\ live' = live
      BY <1>11 DEF MemoryAccess, Out, Idle, InCall
  <2> QED
      BY Zenon, <2>1, Counted
<1>12. ASSUME NEW t \in Threads, NEW i \in Ids, MemoryDrop(t, i) PROVE CountersAgree'
  <2>1. i \in DOMAIN entries /\ DOMAIN entries' = DOMAIN entries \ {i}
      BY Zenon, <1>12 DEF MemoryDrop, Without, IsKind, Registered
  <2>2. Out' = Out /\ permanent' = permanent /\ live' = live - 1
      BY <1>12 DEF MemoryDrop, Out, Idle, InCall
  <2> QED
      BY <2>1, <2>2, Counted
<1>13. ASSUME NEW t \in Threads, NEW i \in Ids, TakeForIo(t, i) PROVE CountersAgree'
  <2>1. i \in DOMAIN entries /\ DOMAIN entries' = DOMAIN entries \ {i}
      BY ZenonT(60), <1>13 DEF TakeForIo, Without, IsKind, Registered
  <2>2. t \in Threads \ Out /\ Out' = Out \cup {t}
      BY <1>13 DEF TakeForIo, Out, Idle, InCall, TypeOK
  <2>3. permanent' = permanent /\ live' = live
      BY Zenon, <1>13 DEF TakeForIo
  <2> QED
      BY Zenon, <2>1, <2>2, <2>3, Counted
<1>14. ASSUME NEW t \in Threads, NEW i \in Ids, TakeOpaque(t, i) PROVE CountersAgree'
  <2>1. i \in DOMAIN entries /\ DOMAIN entries' = DOMAIN entries \ {i}
      BY Zenon, <1>14 DEF TakeOpaque, Without, IsKind, Registered
  <2>2. Out' = Out /\ permanent' = permanent /\ live' = live - 1
      BY Zenon, <1>14 DEF TakeOpaque, Out, Idle
  <2> QED
      BY <2>1, <2>2, Counted
<1>15. ASSUME NEW t \in Threads, NEW i \in Ids, RemoveKind(t, i) PROVE CountersAgree'
  <2>1. entries' = entries /\ permanent' = permanent /\ Out' = Out /\ live' = live
      BY SMTT(30), Z3T(30), <1>15 DEF RemoveKind, Out, Idle, InCall
  <2> QED
      BY SMTT(30), Z3T(30), <2>1, Counted
<1>16. ASSUME NEW t \in Threads, NEW i \in Ids, ChanUse(t, i) PROVE CountersAgree'
  <2>1. entries' = entries /\ permanent' = permanent /\ Out' = Out /\ live' = live
      BY <1>16 DEF ChanUse, Out, Idle, InCall
  <2> QED
      BY <2>1, Counted
<1>17. ASSUME NEW t \in Threads, NEW i \in Ids, ChanDrop(t, i) PROVE CountersAgree'
  <2>1. Out' = Out /\ permanent' = permanent
    <3>0. call[t] = Idle
        BY Zenon, <1>17 DEF ChanDrop
    <3>1. call' = call \/ call' = [call EXCEPT ![t] = InCall("core", i)]
        BY Zenon, <1>17 DEF ChanDrop
    <3>2. Out' = Out
      <4>1. CASE call' = call
          BY Zenon, <4>1 DEF Out
      <4>2. CASE call' = [call EXCEPT ![t] = InCall("core", i)]
          BY <3>0, <4>2 DEF Out, Idle, InCall
      <4> QED
          BY Zenon, <3>1, <4>1, <4>2
    <3> QED
        BY Zenon, <1>17, <3>2 DEF ChanDrop
  <2>2. CASE entries[i].count > 1
    <3>1. DOMAIN entries' = DOMAIN entries /\ live' = live
        BY Zenon, <1>17, <2>2 DEF ChanDrop
    <3> QED
        BY Zenon, <2>1, <3>1, Counted
  <2>3. CASE ~(entries[i].count > 1)
    <3>1. i \in DOMAIN entries /\ DOMAIN entries' = DOMAIN entries \ {i} /\ live' = live - 1
        BY Zenon, <1>17, <2>3 DEF ChanDrop, Without, IsKind, Registered
    <3> QED
        BY Zenon, <2>1, <3>1, Counted
  <2> QED
      BY Zenon, <2>2, <2>3
<1>18. ASSUME NEW t \in Threads, NEW u \in Threads, NEW i \in Ids, ChanRetain(t, u, i) PROVE CountersAgree'
  <2>1. DOMAIN entries' = DOMAIN entries /\ permanent' = permanent /\ Out' = Out /\ live' = live
      BY Zenon, <1>18 DEF ChanRetain, Out
  <2> QED
      BY Zenon, <2>1, Counted
<1> QED
    BY Zenon, <1>0, <1>1, <1>2, <1>3, <1>4, <1>5, <1>6, <1>7, <1>8, <1>9,
       <1>10, <1>11, <1>12, <1>13, <1>14, <1>15, <1>16, <1>17, <1>18 DEF Next

-----------------------------------------------------------------------------
\* chan_retain and chan_drop count every copy, so the last drop is the last,
\* and a core in use by a send or receive is not freed by another thread.
THEOREM CoresAreKept == Spec => []CoreKept
<1>1. Init => Copies
    BY DEF Init, Copies, Sharers, IsKind, Registered
<1>2. Inv /\ Copies /\ [Next]_vars => Copies'
    BY Zenon, CopiesStep DEF Inv
<1>3. Inv /\ Copies => CoreKept
  <2> SUFFICES ASSUME Inv, Copies, NEW i \in Ids
               PROVE  /\ IsKind(i, "chan") =>
                           entries[i].count = Cardinality({t \in Threads : i \in refs[t]})
                      /\ \A t \in Threads :
                           i \in refs[t] \/ (call[t].op = "use" /\ call[t].id = i) =>
                               IsKind(i, "chan") /\ freed[i] = 0
      BY Zenon DEF CoreKept
  <2>1. \A t \in Threads : i \in refs[t] => IsKind(i, "chan")
      BY Zenon DEF Copies
  <2>2. \A t \in Threads : call[t].op = "use" /\ call[t].id = i => i \in refs[t]
      BY Zenon DEF Inv, Calls
  <2>3. IsKind(i, "chan") => freed[i] = 0
      BY DEF Inv, Homes, IsKind, TypeOK
  <2> QED
      BY Zenon, <2>1, <2>2, <2>3 DEF Copies, Sharers
<1> QED
    BY <1>1, <1>2, <1>3, Invariance, PTL DEF Spec

\* LIVE and PERMANENT agree with the table whatever the threads interleave, a
\* socket or file that a blocking call has out still counted.
THEOREM CountersHold == Spec => []CountersAgree
<1>1. Init => CountersAgree
  <2>1. ASSUME Init PROVE permanent = {} /\ DOMAIN entries = {} /\ Out = {} /\ live = 0
      BY <2>1 DEF Init, Out, Idle
  <2> QED
      BY Zenon, <2>1, FS_EmptySet DEF CountersAgree
<1>2. Inv /\ CountersAgree /\ [Next]_vars => CountersAgree'
    BY Zenon, CountersStep DEF Inv
<1> QED
    BY <1>1, <1>2, Invariance, PTL DEF Spec
=============================================================================
