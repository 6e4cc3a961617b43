---------------------------- MODULE RunQueueProof ----------------------------
(***************************************************************************)
(* RunQueue.tla keeps every goroutine in exactly one place and never       *)
(* overruns a ring, for any number of workers and goroutines and any ring  *)
(* capacity, as long as no ring's index makes a whole lap of the 32-bit    *)
(* counter while a worker holds copies it has not claimed (NoLaps).        *)
(***************************************************************************)
EXTENDS RunQueue, TLAPS

\* How many ids a ring holds.
Size(w) == Dist(tail[w], head[w])

\* What a worker has with it at each place of the code.
Control(w) ==
    /\ Size(w) <= Capacity /\ RingIds(w) \in Seq(Gids)
    /\ pc[w] = "run" => running[w] # Null
    /\ pc[w] \in {"run", "seek", "pop", "popCas", "refill", "steal", "stealTail",
                  "stealCopy", "stealCas"} => todo[w] = <<>>
    /\ pc[w] \in {"seek", "pop", "popCas", "refill", "steal", "stealTail", "stealCopy",
                  "stealCas"} => running[w] = Null
    /\ pc[w] \in {"make", "push", "half", "halfCas", "flush"} => Len(todo[w]) = 1
    /\ pc[w] \in {"stock", "store", "publish"} =>
          Len(todo[w]) > 0 /\ Size(w) + Len(todo[w]) <= Capacity
    /\ pc[w] = "publish" => ring[w][tail[w] % Capacity] = Head(todo[w])
    /\ pc[w] \in {"refill", "steal", "stealTail", "stealCopy", "stealCas"} => Size(w) = 0
    /\ pc[w] = "flush" => snap[w].batch \in Seq(Gids)

\* A worker that has copied slots it has not claimed yet, and the ring it
\* claims them from.
Claims(w) == pc[w] \in {"popCas", "halfCas", "stealCopy", "stealCas"}
Source(w) == IF pc[w] \in {"stealCopy", "stealCas"} THEN Victim(w) ELSE w

\* While the head is where it was, the copies are what the ring holds.
Copied(w) ==
    Claims(w) =>
        /\ snap[w].take >= 1
        /\ IF pc[w] = "stealCopy" THEN Len(snap[w].batch) < snap[w].take
                                  ELSE Len(snap[w].batch) = snap[w].take
        /\ pc[w] = "popCas" => snap[w].take = 1
        /\ head[Source(w)] = snap[w].h =>
             /\ snap[w].take <= Size(Source(w))
             /\ \A i \in 1..Len(snap[w].batch) : snap[w].batch[i] = RingIds(Source(w))[i]

NoDup(s) == \A i, j \in DOMAIN s : s[i] = s[j] => i = j

\* No queue holds an id twice.
Single ==
    /\ NoDup(ready)
    /\ \A w \in Workers : NoDup(RingIds(w)) /\ NoDup(todo[w]) /\ NoDup(Claimed(w))

\* Goroutine g is in the place of kind k of worker w; the places all workers
\* share count as those of worker 0.
Kinds == {"fresh", "finished", "ready", "next", "running", "ring", "todo", "claimed"}
Has(g, k, w) ==
    \/ k = "fresh" /\ w = 0 /\ g \in fresh
    \/ k = "finished" /\ w = 0 /\ g \in finished
    \/ k = "ready" /\ w = 0 /\ g \in Range(ready)
    \/ k = "next" /\ g = next[w]
    \/ k = "running" /\ g = running[w]
    \/ k = "ring" /\ g \in Range(RingIds(w))
    \/ k = "todo" /\ g \in Range(todo[w])
    \/ k = "claimed" /\ g \in Range(Claimed(w))

Home(g) ==
    \E k \in Kinds, w \in Workers : \A j \in Kinds, v \in Workers :
        Has(g, j, v) <=> j = k /\ v = w

Ctl == \A w \in Workers : Control(w)
Cpy == \A w \in Workers : Copied(w)
Part == \A g \in Gids : Home(g)

\* The inductive invariant.
Inv == TypeOK /\ Ctl /\ Cpy /\ Single /\ Part

\* No claim is mistaken for another one: the head of the ring a worker is
\* copying from does not come back to the value the worker has read.  It would
\* take 2^32 pops of that ring between the load and the compare-exchange of one
\* pop or steal; runqueue.rs relies on this and has no other guard against it.
NoLap ==
    \A w \in Workers :
        Claims(w) /\ head'[Source(w)] # head[Source(w)] => head'[Source(w)] # snap[w].h
NoLaps == [][NoLap]_vars
-----------------------------------------------------------------------------
LEMMA DivMod == ASSUME NEW m \in Nat \ {0}, NEW x \in Int
                PROVE x = m * (x \div m) + (x % m) /\ x \div m \in Int /\ x % m \in 0..(m-1)
  BY Z3
LEMMA Unique == ASSUME NEW m \in Nat \ {0}, NEW q \in Int, NEW p \in Int, NEW r \in 0..(m-1), NEW s \in 0..(m-1),
                       m * q + r = m * p + s
                PROVE q = p /\ r = s
  BY Z3
LEMMA ModIs == ASSUME NEW m \in Nat \ {0}, NEW q \in Int, NEW r \in 0..(m-1), NEW x \in Int, x = m * q + r
               PROVE x % m = r
  <1> DEFINE p == x \div m
             s == x % m
  <1>1. x = m * p + s /\ p \in Int /\ s \in 0..(m-1) BY ZenonT(60), DivMod
  <1> HIDE DEF p, s
  <1>2. m * q + r = m * p + s BY <1>1
  <1>3. r = s BY ZenonT(40), <1>1, <1>2, Unique
  <1> QED BY <1>3 DEF s
LEMMA Shift == ASSUME NEW m \in Nat \ {0}, NEW x \in Int, NEW k \in Int PROVE (x + m * k) % m = x % m
  <1> DEFINE p == x \div m
             s == x % m
  <1>1. x = m * p + s /\ p \in Int /\ s \in 0..(m-1) BY DivMod
  <1> HIDE DEF p, s
  <1>2. x + m * k = m * (p + k) + s BY <1>1
  <1>3. p + k \in Int /\ x + m * k \in Int BY <1>1
  <1>4. (x + m * k) % m = s BY <1>1, <1>2, <1>3, ModIs
  <1> QED BY <1>4 DEF s

Indices == 0..(IndexMod - 1)

LEMMA DistIs == ASSUME NEW t \in Indices, NEW h \in Indices
                PROVE Dist(t, h) = IF t >= h THEN t - h ELSE (t - h) + IndexMod
  <1>1. CASE t >= h
    <2>1. t - h \in 0..(IndexMod - 1) /\ t - h = IndexMod * 0 + (t - h) /\ t - h \in Int
      BY <1>1, RunQueueAssumption DEF Indices
    <2> QED BY <1>1, <2>1, ModIs, RunQueueAssumption DEF Dist
  <1>2. CASE t < h
    <2>1. (t - h) + IndexMod \in 0..(IndexMod - 1) /\ t - h \in Int
      BY <1>2, RunQueueAssumption DEF Indices
    <2>2. t - h = IndexMod * (-1) + ((t - h) + IndexMod)
      BY RunQueueAssumption DEF Indices
    <2>3. (t - h) % IndexMod = (t - h) + IndexMod
      BY <2>1, <2>2, ModIs, RunQueueAssumption
    <2> QED BY <1>2, <2>3 DEF Dist, Indices
  <1> QED BY <1>1, <1>2 DEF Indices

LEMMA IncIs == ASSUME NEW h \in Indices, NEW n \in Indices
               PROVE Inc(h, n) = (IF h + n < IndexMod THEN h + n ELSE (h + n) - IndexMod) /\ Inc(h, n) \in Indices
  <1>1. CASE h + n < IndexMod
    <2>1. h + n \in 0..(IndexMod - 1) /\ h + n = IndexMod * 0 + (h + n) /\ h + n \in Int
      BY <1>1, RunQueueAssumption DEF Indices
    <2>2. (h + n) % IndexMod = h + n BY <2>1, ModIs, RunQueueAssumption
    <2> QED BY <1>1, <2>1, <2>2 DEF Inc, Indices
  <1>2. CASE h + n >= IndexMod
    <2>1. (h + n) - IndexMod \in 0..(IndexMod - 1) /\ h + n \in Int
      BY <1>2, RunQueueAssumption DEF Indices
    <2>2. h + n = IndexMod * 1 + ((h + n) - IndexMod)
      BY RunQueueAssumption DEF Indices
    <2>3. (h + n) % IndexMod = (h + n) - IndexMod
      BY <2>1, <2>2, ModIs, RunQueueAssumption
    <2>4. ~(h + n < IndexMod)
      BY <1>2, RunQueueAssumption DEF Indices
    <2> QED BY <2>4, <2>1, <2>3 DEF Inc, Indices
  <1> QED BY <1>1, <1>2, RunQueueAssumption DEF Indices

\* A lap of the indices is a whole number of laps of the ring.
LEMMA Lap == ASSUME NEW x \in Int PROVE (x + IndexMod) % Capacity = x % Capacity
  <1> DEFINE k == IndexMod \div Capacity
  <1>1. IndexMod = Capacity * k /\ k \in Int
    BY DivMod, RunQueueAssumption
  <1> HIDE DEF k
  <1> QED BY Zenon, <1>1, Shift, RunQueueAssumption

LEMMA SlotsDiffer == ASSUME NEW h \in Int, NEW i \in 0..(Capacity - 1), NEW j \in 0..(Capacity - 1),
                            (h + i) % Capacity = (h + j) % Capacity
                     PROVE i = j
  <1> DEFINE p == (h + i) \div Capacity
             q == (h + j) \div Capacity
             r == (h + i) % Capacity
  <1>0. h + i \in Int /\ h + j \in Int /\ Capacity \in Nat \ {0}
    BY RunQueueAssumption
  <1>1. h + i = Capacity * p + r /\ p \in Int /\ r \in 0..(Capacity - 1)
    BY <1>0, DivMod
  <1>4. h + j = Capacity * q + r /\ q \in Int
    BY Zenon, <1>0, DivMod
  <1> HIDE DEF p, q, r
  <1>2. i - j = Capacity * (p - q)
    BY <1>1, <1>4, RunQueueAssumption
  <1>3. p - q = 0
    BY <1>1, <1>2, <1>4, RunQueueAssumption, Z3
  <1> QED BY <1>2, <1>3, RunQueueAssumption

LEMMA DistType ==
    ASSUME NEW t \in Indices, NEW h \in Indices
    PROVE  Dist(t, h) \in Indices /\ (Dist(t, h) = 0 <=> t = h)
  BY DistIs, RunQueueAssumption DEF Indices

LEMMA DistUp ==
    ASSUME NEW t \in Indices, NEW h \in Indices, Dist(t, h) + 1 < IndexMod
    PROVE  Dist(Inc(t, 1), h) = Dist(t, h) + 1
  <1>1. 1 \in Indices /\ IndexMod \in Nat
    BY RunQueueAssumption DEF Indices
  <1>2. Inc(t, 1) \in Indices /\ Inc(t, 1) = IF t + 1 < IndexMod THEN t + 1 ELSE (t + 1) - IndexMod
    BY <1>1, IncIs
  <1>3. Dist(t, h) = IF t >= h THEN t - h ELSE (t - h) + IndexMod
    BY DistIs
  <1> DEFINE u == Inc(t, 1)
  <1>4. Dist(u, h) = IF u >= h THEN u - h ELSE (u - h) + IndexMod
    BY <1>2, DistIs
  <1> QED
    BY <1>1, <1>2, <1>3, <1>4 DEF Indices

LEMMA DistDown ==
    ASSUME NEW t \in Indices, NEW h \in Indices, NEW n \in 0..Dist(t, h)
    PROVE  Inc(h, n) \in Indices /\ Dist(t, Inc(h, n)) = Dist(t, h) - n /\ (n > 0 => Inc(h, n) # h)
  <1>1. IndexMod \in Nat /\ n \in Indices
    BY DistType, RunQueueAssumption DEF Indices
  <1>2. Inc(h, n) \in Indices /\ Inc(h, n) = IF h + n < IndexMod THEN h + n ELSE (h + n) - IndexMod
    BY <1>1, IncIs
  <1>3. Dist(t, h) = IF t >= h THEN t - h ELSE (t - h) + IndexMod
    BY DistIs
  <1> DEFINE u == Inc(h, n)
  <1>4. Dist(t, u) = IF t >= u THEN t - u ELSE (t - u) + IndexMod
    BY <1>2, DistIs
  <1> QED
    BY <1>1, <1>2, <1>3, <1>4 DEF Indices

LEMMA ClaimedSlot ==
    ASSUME NEW h \in Indices, NEW n \in Indices, NEW i \in Nat
    PROVE  (Inc(h, n) + i) % Capacity = (h + (n + i)) % Capacity
  <1> DEFINE x == ((h + n) - IndexMod) + i
  <1>1. CASE h + n < IndexMod
    <2>1. Inc(h, n) + i = h + (n + i)
      BY <1>1, IncIs DEF Indices
    <2> QED
      BY <2>1
  <1>2. CASE ~(h + n < IndexMod)
    <2>1. Inc(h, n) + i = x /\ x \in Int /\ x + IndexMod = h + (n + i)
      BY <1>2, IncIs, RunQueueAssumption DEF Indices
    <2> HIDE DEF x
    <2>2. (x + IndexMod) % Capacity = x % Capacity
      BY <2>1, Lap
    <2> QED
      BY <2>1, <2>2
  <1> QED
    BY <1>1, <1>2

LEMMA TailSlot ==
    ASSUME NEW t \in Indices, NEW h \in Indices
    PROVE  (h + Dist(t, h)) % Capacity = t % Capacity
  <1>1. CASE t >= h
    <2>1. h + Dist(t, h) = t
      BY <1>1, DistIs DEF Indices
    <2> QED
      BY <2>1
  <1>2. CASE ~(t >= h)
    <2>1. h + Dist(t, h) = t + IndexMod /\ t \in Int
      BY <1>2, DistIs, RunQueueAssumption DEF Indices
    <2>2. (t + IndexMod) % Capacity = t % Capacity
      BY <2>1, Lap
    <2> QED
      BY <2>1, <2>2
  <1> QED
    BY <1>1, <1>2
-----------------------------------------------------------------------------
\* The n ids a ring r holds from index h on, oldest first.
Ids(r, h, n) == [i \in 1..n |-> r[(h + i - 1) % Capacity]]
Rings == [0..(Capacity - 1) -> Gids \cup {Null}]

LEMMA IdsType ==
    ASSUME NEW r \in Rings, NEW h \in Indices, NEW n \in Nat
    PROVE  /\ Ids(r, h, n) \in Seq(Gids \cup {Null}) /\ Len(Ids(r, h, n)) = n
           /\ DOMAIN Ids(r, h, n) = 1..n
           /\ \A i \in 1..n : Ids(r, h, n)[i] = r[(h + i - 1) % Capacity]
  <1>1. \A i \in 1..n : h + i - 1 \in Int
    BY RunQueueAssumption DEF Indices
  <1>2. \A i \in 1..n : (h + i - 1) % Capacity \in 0..(Capacity - 1)
    BY Zenon, <1>1, DivMod, RunQueueAssumption
  <1>3. \A i \in 1..n : r[(h + i - 1) % Capacity] \in Gids \cup {Null}
    BY Zenon, <1>2 DEF Rings
  <1>4. Ids(r, h, n) \in [1..n -> Gids \cup {Null}]
    BY Zenon, <1>3 DEF Ids
  <1>5. Ids(r, h, n) \in Seq(Gids \cup {Null})
    BY <1>4
  <1> QED
    BY <1>4, <1>5 DEF Ids

LEMMA IdsAppend ==
    ASSUME NEW r \in Rings, NEW h \in Indices, NEW n \in Nat, NEW g \in Gids \cup {Null},
           r[(h + n) % Capacity] = g
    PROVE  Ids(r, h, n + 1) = Append(Ids(r, h, n), g)
  <1> DEFINE a == Ids(r, h, n)
             b == Ids(r, h, n + 1)
  <1>1. /\ a \in Seq(Gids \cup {Null}) /\ Len(a) = n
        /\ \A i \in 1..n : a[i] = r[(h + i - 1) % Capacity]
    BY IdsType
  <1>2. /\ b \in Seq(Gids \cup {Null}) /\ Len(b) = n + 1
        /\ \A i \in 1..(n + 1) : b[i] = r[(h + i - 1) % Capacity]
    BY IdsType
  <1>3. b[n + 1] = g
    <2>1. n + 1 \in 1..(n + 1) /\ h + (n + 1) - 1 = h + n
      BY RunQueueAssumption DEF Indices
    <2> QED
      BY <1>2, <2>1
  <1> HIDE DEF a, b
  <1>4. \A i \in 1..n : b[i] = a[i]
    BY <1>1, <1>2
  <1>5. b = Append(a, g)
    BY <1>1, <1>2, <1>3, <1>4
  <1> QED
    BY <1>5 DEF a, b

LEMMA IdsStore ==
    ASSUME NEW r \in Rings, NEW h \in Indices, NEW n \in 0..(Capacity - 1), NEW g \in Gids
    PROVE  Ids([r EXCEPT ![(h + n) % Capacity] = g], h, n) = Ids(r, h, n)
  <1>1. \A i \in 1..n : (h + i - 1) % Capacity # (h + n) % Capacity
    <2> SUFFICES ASSUME NEW i \in 1..n, (h + i - 1) % Capacity = (h + n) % Capacity
                 PROVE  FALSE
      OBVIOUS
    <2> DEFINE j == i - 1
    <2>1. /\ h \in Int /\ j \in 0..(Capacity - 1) /\ n \in 0..(Capacity - 1) /\ j # n
          /\ h + i - 1 = h + j
      BY RunQueueAssumption DEF Indices
    <2> HIDE DEF j
    <2>2. (h + j) % Capacity = (h + n) % Capacity
      BY <2>1
    <2> QED
      BY Zenon, <2>1, <2>2, SlotsDiffer
  <1>2. \A i \in 1..n : [r EXCEPT ![(h + n) % Capacity] = g][(h + i - 1) % Capacity]
                          = r[(h + i - 1) % Capacity]
    <2>1. \A i \in 1..n : h + i - 1 \in Int
      BY RunQueueAssumption DEF Indices
    <2>2. \A i \in 1..n : (h + i - 1) % Capacity \in 0..(Capacity - 1)
      BY <2>1, DivMod, RunQueueAssumption, Zenon
    <2> QED
      BY Zenon, <1>1, <2>2 DEF Rings
  <1> QED
    BY Zenon, <1>2 DEF Ids

LEMMA IdsClaim ==
    ASSUME NEW r \in Rings, NEW h \in Indices, NEW n \in 0..Capacity, NEW m \in 0..n
    PROVE  Ids(r, Inc(h, m), n - m) = SubSeq(Ids(r, h, n), m + 1, n)
  <1> DEFINE a == Ids(r, h, n)
             b == Ids(r, Inc(h, m), n - m)
  <1>0. m \in Indices /\ n \in Nat /\ n - m \in Nat /\ Inc(h, m) \in Indices /\ Capacity \in Nat
    BY IncIs, RunQueueAssumption DEF Indices
  <1>1. /\ a \in Seq(Gids \cup {Null}) /\ Len(a) = n
        /\ \A i \in 1..n : a[i] = r[(h + i - 1) % Capacity]
    BY <1>0, IdsType
  <1>2. /\ b \in Seq(Gids \cup {Null}) /\ Len(b) = n - m
        /\ \A i \in 1..(n - m) : b[i] = r[(Inc(h, m) + i - 1) % Capacity]
    BY Zenon, <1>0, IdsType
  <1>3. \A i \in 1..(n - m) : b[i] = a[m + i]
    <2> SUFFICES ASSUME NEW i \in 1..(n - m) PROVE b[i] = a[m + i]
      OBVIOUS
    <2> DEFINE j == i - 1
    <2>1. /\ j \in Nat /\ Inc(h, m) + i - 1 = Inc(h, m) + j /\ h + (m + i) - 1 = h + (m + j)
          /\ m + i \in 1..n
      BY <1>0 DEF Indices
    <2> HIDE DEF j, a, b
    <2>2. (Inc(h, m) + j) % Capacity = (h + (m + j)) % Capacity
      BY <1>0, <2>1, ClaimedSlot
    <2>3. b[i] = r[(Inc(h, m) + j) % Capacity]
      BY <1>2, <2>1
    <2>4. a[m + i] = r[(h + (m + j)) % Capacity]
      BY <1>1, <2>1
    <2> QED
      BY <2>2, <2>3, <2>4
  <1> HIDE DEF a, b
  <1>4. b = SubSeq(a, m + 1, n)
    BY <1>0, <1>1, <1>2, <1>3
  <1> QED
    BY <1>4 DEF a, b
-----------------------------------------------------------------------------
(* What a step does to a ring, seen as the sequence of ids it holds. *)

Same(v) == head'[v] = head[v] /\ Size(v)' = Size(v) /\ RingIds(v)' = RingIds(v)
Grown(v, g) ==
    head'[v] = head[v] /\ Size(v)' = Size(v) + 1 /\ RingIds(v)' = Append(RingIds(v), g)
Shrunk(v, n) ==
    /\ n \in 1..Size(v) /\ head'[v] # head[v] /\ Size(v)' = Size(v) - n
    /\ RingIds(v)' = SubSeq(RingIds(v), n + 1, Size(v))

LEMMA RingIsIds ==
    ASSUME TypeOK, NEW w \in Workers
    PROVE  /\ RingIds(w) = Ids(ring[w], head[w], Size(w)) /\ Size(w) \in Indices /\ Size(w) \in Nat
           /\ ring[w] \in Rings /\ head[w] \in Indices /\ tail[w] \in Indices
           /\ RingIds(w) \in Seq(Gids \cup {Null}) /\ Len(RingIds(w)) = Size(w)
           /\ Size(w) = 0 <=> head[w] = tail[w]
  <1>1. RingIds(w) = Ids(ring[w], head[w], Size(w))
    BY Zenon DEF RingIds, Ids, Size, Slice, Slot
  <1>2. ring[w] \in Rings /\ head[w] \in Indices /\ tail[w] \in Indices
    BY Zenon DEF TypeOK, Rings, Indices
  <1>3. Size(w) \in Indices /\ (Size(w) = 0 <=> head[w] = tail[w])
    BY Zenon, <1>2, DistType DEF Size
  <1>4. Size(w) \in Nat
    BY <1>3, RunQueueAssumption DEF Indices
  <1>5. RingIds(w) \in Seq(Gids \cup {Null}) /\ Len(RingIds(w)) = Size(w)
    BY <1>1, <1>2, <1>4, IdsType
  <1> QED
    BY Zenon, <1>1, <1>2, <1>3, <1>4, <1>5

LEMMA StillRing ==
    ASSUME NEW v \in Workers, head'[v] = head[v], tail'[v] = tail[v], ring'[v] = ring[v]
    PROVE  Same(v)
  BY Zenon DEF Same, Size, RingIds, Slice, Slot

LEMMA GrownRing ==
    ASSUME TypeOK, NEW w \in Workers, Size(w) < Capacity,
           head' = head, ring' = ring, tail' = [tail EXCEPT ![w] = Inc(@, 1)]
    PROVE  /\ Grown(w, ring[w][tail[w] % Capacity])
           /\ \A v \in Workers : v # w => Same(v)
  <1> DEFINE g == ring[w][tail[w] % Capacity]
             n == Size(w)
  <1>1. /\ RingIds(w) = Ids(ring[w], head[w], n) /\ n \in Nat
        /\ ring[w] \in Rings /\ head[w] \in Indices /\ tail[w] \in Indices
    BY Zenon, RingIsIds
  <1>2. tail'[w] = Inc(tail[w], 1) /\ \A v \in Workers : v # w => tail'[v] = tail[v]
    BY Zenon DEF TypeOK
  <1>3. n + 1 < IndexMod
    BY <1>1, RunQueueAssumption
  <1>4. Size(w)' = n + 1
    BY Zenon, <1>1, <1>2, <1>3, DistUp DEF Size
  <1>5. g = ring[w][(head[w] + n) % Capacity]
    BY Zenon, <1>1, TailSlot DEF Size
  <1>6. RingIds(w)' = Ids(ring[w], head[w], n + 1)
    BY Zenon, <1>4 DEF RingIds, Ids, Size, Slice, Slot
  <1>7. g \in Gids \cup {Null}
    <2>1. tail[w] \in Int
      BY <1>1, RunQueueAssumption DEF Indices
    <2>2. tail[w] % Capacity \in 0..(Capacity - 1)
      BY Zenon, <2>1, DivMod, RunQueueAssumption
    <2> QED
      BY Zenon, <1>1, <2>2 DEF Rings
  <1> HIDE DEF n, g
  <1>8. RingIds(w)' = Append(RingIds(w), g)
    BY ZenonT(40), <1>1, <1>5, <1>6, <1>7, IdsAppend
  <1> QED
    BY Zenon, <1>2, <1>4, <1>8, StillRing DEF Grown, n, g

LEMMA StoredRing ==
    ASSUME TypeOK, NEW w \in Workers, NEW g \in Gids, Size(w) < Capacity,
           head' = head, tail' = tail, ring' = [ring EXCEPT ![w][tail[w] % Capacity] = g]
    PROVE  \A v \in Workers : Same(v)
  <1> DEFINE n == Size(w)
  <1>1. /\ RingIds(w) = Ids(ring[w], head[w], n) /\ n \in Nat
        /\ ring[w] \in Rings /\ head[w] \in Indices /\ tail[w] \in Indices
    BY Zenon, RingIsIds
  <1>2. /\ ring'[w] = [ring[w] EXCEPT ![tail[w] % Capacity] = g]
        /\ \A v \in Workers : v # w => ring'[v] = ring[v]
    BY Zenon DEF TypeOK
  <1>3. n \in 0..(Capacity - 1)
    BY <1>1, RunQueueAssumption
  <1>4. tail[w] % Capacity = (head[w] + n) % Capacity
    BY Zenon, <1>1, TailSlot DEF Size
  <1>5. RingIds(w)' = Ids(ring'[w], head'[w], Size(w)') /\ Size(w)' = n /\ head'[w] = head[w]
    BY Zenon DEF RingIds, Ids, Size, Slice, Slot
  <1> HIDE DEF n
  <1>6. RingIds(w)' = RingIds(w)
    <2>1. ring'[w] = [ring[w] EXCEPT ![(head[w] + n) % Capacity] = g]
      BY Zenon, <1>2, <1>4
    <2>2. Ids([ring[w] EXCEPT ![(head[w] + n) % Capacity] = g], head[w], n) = Ids(ring[w], head[w], n)
      BY Zenon, <1>1, <1>3, IdsStore
    <2> QED
      BY Zenon, <1>1, <1>5, <2>1, <2>2
  <1> QED
    BY Zenon, <1>2, <1>5, <1>6, StillRing DEF Same, n

LEMMA ShrunkRing ==
    ASSUME TypeOK, NEW x \in Workers, Size(x) <= Capacity, NEW n \in 1..Size(x),
           head' = [head EXCEPT ![x] = Inc(@, n)], tail' = tail, ring' = ring
    PROVE  Shrunk(x, n) /\ \A v \in Workers : v # x => Same(v)
  <1> DEFINE m == Size(x)
  <1>1. /\ RingIds(x) = Ids(ring[x], head[x], m) /\ m \in Nat
        /\ ring[x] \in Rings /\ head[x] \in Indices /\ tail[x] \in Indices
    BY Zenon, RingIsIds
  <1>2. head'[x] = Inc(head[x], n) /\ \A v \in Workers : v # x => head'[v] = head[v]
    BY Zenon DEF TypeOK
  <1>3. n \in 0..m /\ m \in 0..Capacity /\ n > 0
    BY <1>1, RunQueueAssumption
  <1>4. Size(x)' = m - n /\ head'[x] # head[x]
    <2>1. Dist(tail[x], Inc(head[x], n)) = Dist(tail[x], head[x]) - n /\ Inc(head[x], n) # head[x]
      BY <1>1, <1>3, DistDown DEF Size
    <2> QED
      BY Zenon, <1>2, <2>1 DEF Size
  <1>5. RingIds(x)' = Ids(ring'[x], head'[x], Size(x)')
    BY Zenon DEF RingIds, Ids, Size, Slice, Slot
  <1> HIDE DEF m
  <1>6. RingIds(x)' = SubSeq(RingIds(x), n + 1, m)
    BY ZenonT(40), <1>1, <1>2, <1>3, <1>4, <1>5, IdsClaim
  <1> QED
    BY Zenon, <1>2, <1>4, <1>6, StillRing DEF Shrunk, m
-----------------------------------------------------------------------------
(* Sequences without repetitions. *)

LEMMA SeqRange ==
    ASSUME NEW S, NEW s \in Seq(S)
    PROVE  /\ Range(s) \subseteq S /\ DOMAIN s = 1..Len(s) /\ Len(s) \in Nat
           /\ \A x : x \in Range(s) <=> \E i \in 1..Len(s) : s[i] = x
  BY DEF Range

LEMMA SeqShort ==
    ASSUME NEW S
    PROVE  /\ <<>> \in Seq(S) /\ Range(<<>>) = {} /\ NoDup(<<>>)
           /\ \A s \in Seq(S) : Len(s) = 1 => Head(s) \in S /\ Range(s) = {Head(s)} /\ NoDup(s)
  <1>1. <<>> \in Seq(S) /\ Len(<<>>) = 0
    OBVIOUS
  <1>2. 1..0 = {}
    OBVIOUS
  <1>3. Range(<<>>) = {} /\ NoDup(<<>>)
    BY ZenonT(40), <1>1, <1>2, SeqRange DEF NoDup
  <1>4. ASSUME NEW s \in Seq(S), Len(s) = 1 PROVE Head(s) \in S /\ Range(s) = {Head(s)} /\ NoDup(s)
    <2>1. Head(s) = s[1] /\ 1..1 = {1} /\ s[1] \in S
      BY <1>4
    <2> QED
      BY <1>4, <2>1, SeqRange DEF NoDup
  <1> QED
    BY Zenon, <1>1, <1>3, <1>4

LEMMA SeqUnit ==
    ASSUME NEW S, NEW g \in S
    PROVE  <<g>> \in Seq(S) /\ Len(<<g>>) = 1 /\ Range(<<g>>) = {g} /\ NoDup(<<g>>)
  <1>1. <<g>> \in Seq(S) /\ Len(<<g>>) = 1 /\ Head(<<g>>) = g
    OBVIOUS
  <1> QED
    BY Zenon, <1>1, SeqShort

\* A function s is made of a function a and a shifted function b.
Splits(s, a, b, up) ==
    /\ \A i \in DOMAIN s : i \in DOMAIN a \/ \E j \in DOMAIN b : up[j] = i
    /\ \A i \in DOMAIN a : i \in DOMAIN s /\ s[i] = a[i]
    /\ \A j \in DOMAIN b : up[j] \in DOMAIN s /\ up[j] \notin DOMAIN a /\ s[up[j]] = b[j]
    /\ \A i, j \in DOMAIN b : up[i] = up[j] => i = j

LEMMA FunSplit ==
    ASSUME NEW s, NEW a, NEW b, NEW up, Splits(s, a, b, up)
    PROVE  /\ Range(s) = Range(a) \cup Range(b)
           /\ NoDup(s) <=> NoDup(a) /\ NoDup(b) /\ Range(a) \cap Range(b) = {}
  <1> USE DEF Splits
  <1>1. Range(s) \subseteq Range(a) \cup Range(b)
    BY DEF Range
  <1>2. Range(a) \subseteq Range(s) /\ Range(b) \subseteq Range(s)
    BY DEF Range
  <1>3. ASSUME NoDup(s) PROVE NoDup(a) /\ NoDup(b) /\ Range(a) \cap Range(b) = {}
    <2>1. NoDup(a)
      BY ZenonT(40), <1>3 DEF NoDup
    <2>2. NoDup(b)
      BY <1>3 DEF NoDup
    <2>3. ASSUME NEW i \in DOMAIN a, NEW j \in DOMAIN b, a[i] = b[j] PROVE FALSE
      BY ZenonT(40), <1>3, <2>3 DEF NoDup
    <2> QED
      BY <2>1, <2>2, <2>3 DEF Range
  <1>4. ASSUME NoDup(a), NoDup(b), Range(a) \cap Range(b) = {} PROVE NoDup(s)
    <2>1. \A i \in DOMAIN a, j \in DOMAIN b : a[i] # b[j]
      BY <1>4 DEF Range
    <2> SUFFICES ASSUME NEW i \in DOMAIN s, NEW j \in DOMAIN s, s[i] = s[j] PROVE i = j
      BY Zenon DEF NoDup
    <2>2. CASE i \in DOMAIN a /\ j \in DOMAIN a
      BY Zenon, <1>4, <2>2 DEF NoDup
    <2>3. CASE i \in DOMAIN a /\ j \notin DOMAIN a
      BY <2>1, <2>3
    <2>4. CASE i \notin DOMAIN a /\ j \in DOMAIN a
      BY <2>1, <2>4
    <2>5. CASE i \notin DOMAIN a /\ j \notin DOMAIN a
      BY <1>4, <2>5 DEF NoDup
    <2> QED
      BY Zenon, <2>2, <2>3, <2>4, <2>5
  <1> QED
    BY Zenon, <1>1, <1>2, <1>3, <1>4

\* A sequence s is a followed by b.
Follows(s, a, b) ==
    /\ DOMAIN s = 1..Len(s) /\ DOMAIN a = 1..Len(a) /\ DOMAIN b = 1..Len(b)
    /\ Len(a) \in Nat /\ Len(b) \in Nat /\ Len(s) = Len(a) + Len(b)
    /\ \A i \in 1..Len(a) : s[i] = a[i]
    /\ \A i \in 1..Len(b) : s[Len(a) + i] = b[i]

LEMMA SeqSplit ==
    ASSUME NEW s, NEW a, NEW b, Follows(s, a, b)
    PROVE  /\ Range(s) = Range(a) \cup Range(b)
           /\ NoDup(s) <=> NoDup(a) /\ NoDup(b) /\ Range(a) \cap Range(b) = {}
  <1> DEFINE up == [i \in 1..Len(b) |-> Len(a) + i]
  <1>1. /\ DOMAIN s = 1..Len(s) /\ DOMAIN a = 1..Len(a) /\ DOMAIN b = 1..Len(b)
        /\ Len(a) \in Nat /\ Len(b) \in Nat /\ Len(s) = Len(a) + Len(b)
        /\ \A i \in 1..Len(a) : s[i] = a[i]
        /\ \A i \in 1..Len(b) : s[Len(a) + i] = b[i]
    BY Zenon DEF Follows
  <1>2. ASSUME NEW i \in DOMAIN s, i \notin DOMAIN a PROVE \E j \in DOMAIN b : up[j] = i
    <2>1. i - Len(a) \in 1..Len(b) /\ up[i - Len(a)] = i
      BY <1>1, <1>2
    <2> QED
      BY Zenon, <1>1, <2>1
  <1>3. \A i \in DOMAIN a : i \in DOMAIN s /\ s[i] = a[i]
    BY <1>1
  <1>4. \A j \in DOMAIN b : up[j] \in DOMAIN s /\ up[j] \notin DOMAIN a /\ s[up[j]] = b[j]
    BY <1>1
  <1>5. \A i, j \in DOMAIN b : up[i] = up[j] => i = j
    BY <1>1
  <1> HIDE DEF up
  <1>6. \A i \in DOMAIN s : i \in DOMAIN a \/ \E j \in DOMAIN b : up[j] = i
    BY Zenon, <1>2
  <1>7. Splits(s, a, b, up)
    BY Zenon, <1>3, <1>4, <1>5, <1>6 DEF Splits
  <1> QED
    BY Zenon, <1>7, FunSplit

LEMMA SeqAppend ==
    ASSUME NEW S, NEW s \in Seq(S), NEW g \in S
    PROVE  /\ Append(s, g) \in Seq(S) /\ Len(Append(s, g)) = Len(s) + 1
           /\ Range(Append(s, g)) = Range(s) \cup {g}
           /\ NoDup(Append(s, g)) <=> NoDup(s) /\ g \notin Range(s)
  <1> DEFINE t == Append(s, g)
             b == <<g>>
  <1>1. /\ t \in Seq(S) /\ Len(t) = Len(s) + 1 /\ b \in Seq(S) /\ Len(b) = 1
    OBVIOUS
  <1>0. Follows(t, s, b)
    BY <1>1 DEF Follows
  <1>2. Range(b) = {g} /\ NoDup(b)
    BY Zenon, SeqUnit
  <1> HIDE DEF t, b
  <1>3. /\ Range(t) = Range(s) \cup Range(b)
        /\ NoDup(t) <=> NoDup(s) /\ NoDup(b) /\ Range(s) \cap Range(b) = {}
    BY Zenon, <1>0, SeqSplit
  <1> QED
    BY Zenon, <1>1, <1>2, <1>3 DEF t

LEMMA SeqCut ==
    ASSUME NEW S, NEW s \in Seq(S), NEW n \in 0..Len(s)
    PROVE  LET a == SubSeq(s, 1, n)
               b == SubSeq(s, n + 1, Len(s))
           IN /\ a \in Seq(S) /\ b \in Seq(S) /\ Len(a) = n /\ Len(b) = Len(s) - n
              /\ \A i \in 1..n : a[i] = s[i]
              /\ Range(s) = Range(a) \cup Range(b)
              /\ NoDup(s) <=> NoDup(a) /\ NoDup(b) /\ Range(a) \cap Range(b) = {}
  <1> DEFINE a == SubSeq(s, 1, n)
             b == SubSeq(s, n + 1, Len(s))
  <1>1. /\ a \in Seq(S) /\ Len(a) = n /\ b \in Seq(S) /\ Len(b) = Len(s) - n
    OBVIOUS
  <1>2. \A i \in 1..n : a[i] = s[i]
    OBVIOUS
  <1>3. \A i \in 1..(Len(s) - n) : b[i] = s[n + i]
    OBVIOUS
  <1> HIDE DEF a, b
  <1>4. Follows(s, a, b)
    BY <1>1, <1>2, <1>3 DEF Follows
  <1>5. /\ Range(s) = Range(a) \cup Range(b)
        /\ NoDup(s) <=> NoDup(a) /\ NoDup(b) /\ Range(a) \cap Range(b) = {}
    BY Zenon, <1>4, SeqSplit
  <1> QED
    BY Zenon, <1>1, <1>2, <1>5 DEF a, b

LEMMA SeqTail ==
    ASSUME NEW S, NEW s \in Seq(S), Len(s) > 0
    PROVE  /\ Head(s) \in S /\ Tail(s) \in Seq(S) /\ Len(Tail(s)) = Len(s) - 1
           /\ Range(s) = {Head(s)} \cup Range(Tail(s))
           /\ NoDup(s) => NoDup(Tail(s)) /\ Head(s) \notin Range(Tail(s))
  <1> DEFINE a == <<Head(s)>>
             b == Tail(s)
  <1>1. /\ Head(s) \in S /\ a \in Seq(S) /\ Len(a) = 1 /\ b \in Seq(S) /\ Len(b) = Len(s) - 1
    OBVIOUS
  <1>0. Follows(s, a, b)
    BY <1>1 DEF Follows
  <1>2. Range(a) = {Head(s)} /\ NoDup(a)
    BY Zenon, <1>1, SeqUnit
  <1> HIDE DEF a, b
  <1>3. /\ Range(s) = Range(a) \cup Range(b)
        /\ NoDup(s) => NoDup(a) /\ NoDup(b) /\ Range(a) \cap Range(b) = {}
    BY ZenonT(40), <1>0, SeqSplit
  <1> QED
    BY Zenon, <1>1, <1>2, <1>3 DEF b

LEMMA SeqLast ==
    ASSUME NEW S, NEW s \in Seq(S), Len(s) > 0
    PROVE  LET f == SubSeq(s, 1, Len(s) - 1)
           IN /\ s[Len(s)] \in S /\ f \in Seq(S) /\ Len(f) = Len(s) - 1
              /\ Range(s) = {s[Len(s)]} \cup Range(f)
              /\ NoDup(s) => NoDup(f) /\ s[Len(s)] \notin Range(f)
  <1> DEFINE n == Len(s) - 1
             f == SubSeq(s, 1, n)
             b == <<s[Len(s)]>>
  <1>1. s[Len(s)] \in S /\ b \in Seq(S) /\ Len(b) = 1 /\ b[1] = s[Len(s)] /\ n \in 0..Len(s)
    OBVIOUS
  <1>4. f \in Seq(S) /\ Len(f) = n /\ \A i \in 1..n : f[i] = s[i]
    <2> HIDE DEF n
    <2> QED
      BY <1>1, SeqCut
  <1>2. Range(b) = {s[Len(s)]} /\ NoDup(b)
    BY Zenon, <1>1, SeqUnit
  <1> HIDE DEF f, b
  <1>0. Follows(s, f, b)
    BY <1>1, <1>4 DEF Follows
  <1>3. /\ Range(s) = Range(f) \cup Range(b)
        /\ NoDup(s) <=> NoDup(f) /\ NoDup(b) /\ Range(f) \cap Range(b) = {}
    BY Zenon, <1>0, SeqSplit
  <1> QED
    BY Zenon, <1>1, <1>2, <1>3, <1>4 DEF f

LEMMA SeqJoin ==
    ASSUME NEW S, NEW s \in Seq(S), NEW t \in Seq(S)
    PROVE  /\ s \o t \in Seq(S) /\ Range(s \o t) = Range(s) \cup Range(t)
           /\ NoDup(s \o t) <=> NoDup(s) /\ NoDup(t) /\ Range(s) \cap Range(t) = {}
  <1> DEFINE u == s \o t
  <1>1. /\ u \in Seq(S) /\ Len(u) = Len(s) + Len(t)
    OBVIOUS
  <1>0. Follows(u, s, t)
    BY <1>1 DEF Follows
  <1> HIDE DEF u
  <1>2. /\ Range(u) = Range(s) \cup Range(t)
        /\ NoDup(u) <=> NoDup(s) /\ NoDup(t) /\ Range(s) \cap Range(t) = {}
    BY Zenon, <1>0, SeqSplit
  <1> QED
    BY Zenon, <1>1, <1>2 DEF u
-----------------------------------------------------------------------------
(* The workers that a step is not a step of. *)

Others(w) ==
    \A v \in Workers : v # w =>
        /\ pc'[v] = pc[v] /\ todo'[v] = todo[v] /\ running'[v] = running[v]
        /\ next'[v] = next[v] /\ snap'[v] = snap[v]
        /\ tail'[v] = tail[v] /\ ring'[v] = ring[v]

\* Nobody but worker w itself fills its ring.
Evolves(w) ==
    /\ \A v \in Workers : v # w => Same(v) \/ \E n \in Nat : Shrunk(v, n)
    /\ Same(w) \/ (\E g \in Gids : Grown(w, g)) \/ \E n \in Nat : Shrunk(w, n)

LEMMA WorkerTypes ==
    ASSUME TypeOK, NEW w \in Workers
    PROVE  /\ snap[w].h \in Indices /\ snap[w].take \in 0..Capacity /\ snap[w].take \in Nat
           /\ snap[w].off \in Nat /\ snap[w].batch \in Seq(Gids \cup {Null})
           /\ Len(snap[w].batch) \in Nat /\ todo[w] \in Seq(Gids) /\ Len(todo[w]) \in Nat
           /\ running[w] \in Gids \cup {Null} /\ next[w] \in Gids \cup {Null}
           /\ w \in Int /\ NumWorkers \in Nat \ {0} /\ Capacity \in Nat
  <1>1. /\ snap[w] \in [h : 0..(IndexMod - 1), take : 0..Capacity, off : Nat,
                        batch : Seq(Gids \cup {Null})]
        /\ todo[w] \in Seq(Gids)
        /\ running[w] \in Gids \cup {Null} /\ next[w] \in Gids \cup {Null}
    BY Zenon DEF TypeOK
  <1>2. w \in Int /\ NumWorkers \in Nat \ {0} /\ Capacity \in Nat
    BY RunQueueAssumption DEF Workers
  <1>3. /\ snap[w].h \in 0..(IndexMod - 1) /\ snap[w].take \in 0..Capacity
        /\ snap[w].off \in Nat /\ snap[w].batch \in Seq(Gids \cup {Null})
    BY Zenon, <1>1
  <1> QED
    BY <1>1, <1>2, <1>3 DEF Indices

LEMMA VictimType ==
    ASSUME TypeOK, NEW w \in Workers PROVE Victim(w) \in Workers /\ Source(w) \in Workers
  <1>0. snap[w].off \in Nat /\ w \in Int /\ NumWorkers \in Nat \ {0}
    BY Zenon, WorkerTypes
  <1>1. w + snap[w].off \in Int
    BY <1>0
  <1>2. Victim(w) \in Workers
    BY Zenon, <1>0, <1>1, DivMod DEF Victim, Workers
  <1> QED
    BY Zenon, <1>2 DEF Source

LEMMA ShrunkFacts ==
    ASSUME TypeOK, NEW v \in Workers, NEW n \in Nat, Shrunk(v, n), RingIds(v) \in Seq(Gids)
    PROVE  /\ RingIds(v)' \in Seq(Gids) /\ Size(v)' \in Nat /\ Size(v)' < Size(v)
           /\ SubSeq(RingIds(v), 1, n) \in Seq(Gids) /\ Len(SubSeq(RingIds(v), 1, n)) = n
           /\ Range(RingIds(v)) = Range(SubSeq(RingIds(v), 1, n)) \cup Range(RingIds(v)')
           /\ NoDup(RingIds(v)) => /\ NoDup(RingIds(v)') /\ NoDup(SubSeq(RingIds(v), 1, n))
                                   /\ Range(SubSeq(RingIds(v), 1, n)) \cap Range(RingIds(v)') = {}
  <1> DEFINE s == RingIds(v)
  <1>1. Len(s) = Size(v) /\ Size(v) \in Nat
    BY Zenon, RingIsIds
  <1>2. n \in 1..Size(v) /\ Size(v)' = Size(v) - n /\ s' = SubSeq(s, n + 1, Len(s))
    BY Zenon, <1>1 DEF Shrunk
  <1>3. n \in 0..Len(s)
    BY <1>1, <1>2
  <1>4. Size(v)' \in Nat /\ Size(v)' < Size(v)
    BY <1>1, <1>2
  <1> HIDE DEF s
  <1> QED
    BY <1>2, <1>3, <1>4, SeqCut DEF s

LEMMA ControlKept ==
    ASSUME TypeOK, NEW w \in Workers, Ctl, Others(w), Evolves(w),
           NEW v \in Workers, v # w
    PROVE  Control(v)'
  <1>1. Size(v)' <= Size(v) /\ RingIds(v)' \in Seq(Gids) /\ Size(v)' \in Nat /\ Size(v) \in Nat
    <2>1. Size(v) \in Nat /\ RingIds(v) \in Seq(Gids)
      BY Zenon, RingIsIds DEF Ctl, Control
    <2>2. CASE Same(v)
      BY <2>1, <2>2 DEF Same
    <2>3. CASE \E n \in Nat : Shrunk(v, n)
      BY <2>1, <2>3, ShrunkFacts
    <2> QED
      BY Zenon, <2>2, <2>3 DEF Evolves
  <1>2. /\ pc'[v] = pc[v] /\ todo'[v] = todo[v] /\ running'[v] = running[v]
        /\ snap'[v] = snap[v] /\ tail'[v] = tail[v] /\ ring'[v] = ring[v]
    BY Zenon DEF Others
  <1>3. Size(v) <= Capacity => Size(v)' <= Capacity
    BY <1>1, RunQueueAssumption
  <1>4. Size(v) = 0 => Size(v)' = 0
    BY <1>1
  <1>5. Size(v) + Len(todo[v]) <= Capacity => Size(v)' + Len(todo[v]) <= Capacity
    <2>1. Len(todo[v]) \in Nat /\ Capacity \in Nat
      BY Zenon, WorkerTypes
    <2> QED
      BY <1>1, <2>1
  <1>6. Control(v)
    BY Zenon DEF Ctl
  <1> QED
    BY Zenon, <1>1, <1>2, <1>3, <1>4, <1>5, <1>6 DEF Control

LEMMA CopiedKept ==
    ASSUME TypeOK, NEW w \in Workers, Ctl, Evolves(w), NoLap,
           NEW v \in Workers, Copied(v), pc'[v] = pc[v], snap'[v] = snap[v]
    PROVE  Copied(v)'
  <1>0. PICK x \in Workers : x = Source(v)
    BY Zenon, VictimType
  <1> DEFINE s == RingIds(x)
             b == snap[v].batch
  <1>1. Claims(v)' = Claims(v) /\ Source(v)' = x /\ Source(v) = x
    BY Zenon, <1>0 DEF Claims, Source, Victim
  <1> SUFFICES ASSUME Claims(v), head'[x] = snap[v].h
               PROVE  /\ snap[v].take <= Size(x)'
                      /\ \A i \in 1..Len(b) : b[i] = s'[i]
    BY Zenon, <1>1 DEF Copied
  <1>2. head'[x] = head[x]
    BY Zenon, <1>1 DEF NoLap
  <1>3. /\ snap[v].take <= Size(x) /\ \A i \in 1..Len(b) : b[i] = s[i]
        /\ Len(b) < snap[v].take \/ Len(b) = snap[v].take
    BY Zenon, <1>1, <1>2 DEF Copied
  <1>4. /\ Len(s) = Size(x) /\ Size(x) \in Nat /\ s \in Seq(Gids)
        /\ snap[v].take \in Nat /\ Len(b) \in Nat
    BY Zenon, <1>1, WorkerTypes, RingIsIds DEF Ctl, Control
  <1>5. CASE Same(x)
    BY Zenon, <1>3, <1>5 DEF Same
  <1>6. ASSUME NEW g \in Gids, Grown(x, g)
        PROVE  snap[v].take <= Size(x)' /\ \A i \in 1..Len(b) : b[i] = s'[i]
    <2>1. Size(x)' = Size(x) + 1 /\ s' = Append(s, g)
      BY Zenon, <1>6 DEF Grown
    <2>2. \A i \in 1..Len(s) : Append(s, g)[i] = s[i]
      BY <1>4
    <2>3. 1..Len(b) \subseteq 1..Len(s) /\ snap[v].take <= Size(x) + 1
      BY <1>3, <1>4
    <2> QED
      BY Zenon, <1>3, <2>1, <2>2, <2>3
  <1> QED
    BY Zenon, <1>1, <1>2, <1>5, <1>6 DEF Evolves, Shrunk
-----------------------------------------------------------------------------
(* How goroutines change places. *)

\* The step leaves alone who is in place j of worker v.
Still(j, v) == \A g \in Gids : Has(g, j, v)' <=> Has(g, j, v)

LEMMA StillPlaces ==
    ASSUME NEW v \in Workers
    PROVE  /\ fresh' = fresh \/ v # 0 => Still("fresh", v)
           /\ finished' = finished \/ v # 0 => Still("finished", v)
           /\ ready' = ready \/ v # 0 => Still("ready", v)
           /\ next'[v] = next[v] => Still("next", v)
           /\ running'[v] = running[v] => Still("running", v)
           /\ Same(v) => Still("ring", v)
           /\ todo'[v] = todo[v] => Still("todo", v)
           /\ Claimed(v)' = Claimed(v) => Still("claimed", v)
  BY Zenon DEF Still, Has, Same

LEMMA HasIs ==
    ASSUME NEW g \in Gids, NEW v \in Workers
    PROVE  /\ Has(g, "fresh", 0) <=> g \in fresh
           /\ Has(g, "finished", 0) <=> g \in finished
           /\ Has(g, "ready", 0) <=> g \in Range(ready)
           /\ Has(g, "next", v) <=> g = next[v]
           /\ Has(g, "running", v) <=> g = running[v]
           /\ Has(g, "ring", v) <=> g \in Range(RingIds(v))
           /\ Has(g, "todo", v) <=> g \in Range(todo[v])
           /\ Has(g, "claimed", v) <=> g \in Range(Claimed(v))
  BY Zenon DEF Has

LEMMA HasIsNext ==
    ASSUME NEW g \in Gids, NEW v \in Workers
    PROVE  /\ Has(g, "fresh", 0)' <=> g \in fresh'
           /\ Has(g, "finished", 0)' <=> g \in finished'
           /\ Has(g, "ready", 0)' <=> g \in Range(ready')
           /\ Has(g, "next", v)' <=> g = next'[v]
           /\ Has(g, "running", v)' <=> g = running'[v]
           /\ Has(g, "ring", v)' <=> g \in Range(RingIds(v)')
           /\ Has(g, "todo", v)' <=> g \in Range(todo'[v])
           /\ Has(g, "claimed", v)' <=> g \in Range(Claimed(v)')
  BY Zenon DEF Has

\* A goroutine that is in one place is in no other.
LEMMA OneHome ==
    ASSUME Part, NEW g \in Gids, NEW k \in Kinds, NEW w \in Workers, Has(g, k, w),
           NEW j \in Kinds, NEW v \in Workers, Has(g, j, v)
    PROVE  j = k /\ v = w
  BY Zenon DEF Part, Home

LEMMA Unmoved ==
    ASSUME Part, \A j \in Kinds, v \in Workers : Still(j, v) PROVE Part'
  <1> SUFFICES ASSUME NEW g \in Gids PROVE Home(g)'
    BY Zenon DEF Part
  <1>1. PICK k \in Kinds, w \in Workers : \A j \in Kinds, v \in Workers : Has(g, j, v) <=> j = k /\ v = w
    BY Zenon DEF Part, Home
  <1>2. \A j \in Kinds, v \in Workers : Has(g, j, v)' <=> j = k /\ v = w
    BY Zenon, <1>1 DEF Still
  <1> QED
    BY Zenon, <1>2 DEF Home

\* Three places exchange what they have between them.
Rotate(k1, w1, k2, w2, k3, w3) ==
    /\ k1 \in Kinds /\ w1 \in Workers /\ k2 \in Kinds /\ w2 \in Workers /\ k3 \in Kinds /\ w3 \in Workers
    /\ k1 # k2 /\ k1 # k3 /\ k2 # k3
    /\ \A j \in Kinds, v \in Workers :
           (j = k1 /\ v = w1) \/ (j = k2 /\ v = w2) \/ (j = k3 /\ v = w3) \/ Still(j, v)
    /\ \A g \in Gids :
           /\ Has(g, k1, w1)' \/ Has(g, k2, w2)' \/ Has(g, k3, w3)'
                <=> Has(g, k1, w1) \/ Has(g, k2, w2) \/ Has(g, k3, w3)
           /\ ~(Has(g, k1, w1)' /\ Has(g, k2, w2)') /\ ~(Has(g, k1, w1)' /\ Has(g, k3, w3)')
           /\ ~(Has(g, k2, w2)' /\ Has(g, k3, w3)')

LEMMA Regroup ==
    ASSUME Part, NEW k1, NEW w1, NEW k2, NEW w2, NEW k3, NEW w3, Rotate(k1, w1, k2, w2, k3, w3)
    PROVE  Part'
  <1> USE DEF Rotate
  <1> SUFFICES ASSUME NEW g \in Gids PROVE Home(g)'
    BY Zenon DEF Part
  <1>1. PICK k \in Kinds, w \in Workers : \A j \in Kinds, v \in Workers : Has(g, j, v) <=> j = k /\ v = w
    BY Zenon DEF Part, Home
  <1> DEFINE Moved(j, v) == (j = k1 /\ v = w1) \/ (j = k2 /\ v = w2) \/ (j = k3 /\ v = w3)
  <1>2. \A j \in Kinds, v \in Workers : ~Moved(j, v) => (Has(g, j, v)' <=> j = k /\ v = w)
    BY Zenon, <1>1 DEF Still
  <1>3. CASE ~Moved(k, w)
    <2>1. ~Has(g, k1, w1)' /\ ~Has(g, k2, w2)' /\ ~Has(g, k3, w3)'
      BY Zenon, <1>1, <1>3
    <2>2. \A j \in Kinds, v \in Workers : Has(g, j, v)' <=> j = k /\ v = w
      BY Zenon, <1>2, <1>3, <2>1
    <2> QED
      BY Zenon, <2>2 DEF Home
  <1>4. CASE Moved(k, w)
    <2>0. \A j \in Kinds, v \in Workers : ~Moved(j, v) => ~Has(g, j, v)'
      BY Zenon, <1>2, <1>4
    <2>1. Has(g, k1, w1)' \/ Has(g, k2, w2)' \/ Has(g, k3, w3)'
      BY Zenon, <1>1, <1>4
    <2>2. CASE Has(g, k1, w1)'
      <3>1. \A j \in Kinds, v \in Workers : Has(g, j, v)' <=> j = k1 /\ v = w1
        BY Zenon, <2>0, <2>2
      <3> QED
        BY Zenon, <3>1 DEF Home
    <2>3. CASE Has(g, k2, w2)'
      <3>1. \A j \in Kinds, v \in Workers : Has(g, j, v)' <=> j = k2 /\ v = w2
        BY Zenon, <2>0, <2>3
      <3> QED
        BY Zenon, <3>1 DEF Home
    <2>4. CASE Has(g, k3, w3)'
      <3>1. \A j \in Kinds, v \in Workers : Has(g, j, v)' <=> j = k3 /\ v = w3
        BY Zenon, <2>0, <2>4
      <3> QED
        BY Zenon, <3>1 DEF Home
    <2> QED
      BY Zenon, <2>1, <2>2, <2>3, <2>4
  <1> QED
    BY Zenon, <1>3, <1>4

\* Two places exchange what they have between them.
Swap(k1, w1, k2, w2) ==
    /\ k1 \in Kinds /\ w1 \in Workers /\ k2 \in Kinds /\ w2 \in Workers /\ k1 # k2
    /\ \A j \in Kinds, v \in Workers : (j = k1 /\ v = w1) \/ (j = k2 /\ v = w2) \/ Still(j, v)
    /\ \A g \in Gids : /\ Has(g, k1, w1)' \/ Has(g, k2, w2)' <=> Has(g, k1, w1) \/ Has(g, k2, w2)
                       /\ ~(Has(g, k1, w1)' /\ Has(g, k2, w2)')

LEMMA Exchange ==
    ASSUME Part, NEW k1, NEW w1, NEW k2, NEW w2, Swap(k1, w1, k2, w2) PROVE Part'
  <1> USE DEF Swap
  <1> SUFFICES ASSUME NEW g \in Gids PROVE Home(g)'
    BY Zenon DEF Part
  <1>1. PICK k \in Kinds, w \in Workers : \A j \in Kinds, v \in Workers : Has(g, j, v) <=> j = k /\ v = w
    BY Zenon DEF Part, Home
  <1> DEFINE Moved(j, v) == (j = k1 /\ v = w1) \/ (j = k2 /\ v = w2)
  <1>2. \A j \in Kinds, v \in Workers : ~Moved(j, v) => (Has(g, j, v)' <=> j = k /\ v = w)
    BY Zenon, <1>1 DEF Still
  <1>3. CASE ~Moved(k, w)
    <2>1. ~Has(g, k1, w1)' /\ ~Has(g, k2, w2)'
      BY Zenon, <1>1, <1>3
    <2>2. \A j \in Kinds, v \in Workers : Has(g, j, v)' <=> j = k /\ v = w
      BY Zenon, <1>2, <1>3, <2>1
    <2> QED
      BY Zenon, <2>2 DEF Home
  <1>4. CASE Moved(k, w)
    <2>0. \A j \in Kinds, v \in Workers : ~Moved(j, v) => ~Has(g, j, v)'
      BY Zenon, <1>2, <1>4
    <2>1. Has(g, k1, w1)' \/ Has(g, k2, w2)'
      BY Zenon, <1>1, <1>4
    <2>2. CASE Has(g, k1, w1)'
      <3>1. \A j \in Kinds, v \in Workers : Has(g, j, v)' <=> j = k1 /\ v = w1
        BY Zenon, <2>0, <2>2
      <3> QED
        BY Zenon, <3>1 DEF Home
    <2>3. CASE Has(g, k2, w2)'
      <3>1. \A j \in Kinds, v \in Workers : Has(g, j, v)' <=> j = k2 /\ v = w2
        BY Zenon, <2>0, <2>3
      <3> QED
        BY Zenon, <3>1 DEF Home
    <2> QED
      BY Zenon, <2>1, <2>2, <2>3
  <1> QED
    BY Zenon, <1>3, <1>4

LEMMA SingleKept ==
    ASSUME TypeOK, NEW w \in Workers, Ctl, Others(w), Evolves(w), Single,
           NEW v \in Workers, v # w
    PROVE  NoDup(RingIds(v)') /\ NoDup(todo'[v]) /\ NoDup(Claimed(v)') /\ Claimed(v)' = Claimed(v)
  <1>1. NoDup(RingIds(v)')
    <2>1. CASE Same(v)
      BY Zenon, <2>1 DEF Same, Single
    <2>2. ASSUME NEW n \in Nat, Shrunk(v, n) PROVE NoDup(RingIds(v)')
      BY Zenon, <2>2, ShrunkFacts DEF Single, Ctl, Control
    <2> QED
      BY Zenon, <2>1, <2>2 DEF Evolves
  <1>2. todo'[v] = todo[v] /\ pc'[v] = pc[v] /\ snap'[v] = snap[v]
    BY Zenon DEF Others
  <1> QED
    BY Zenon, <1>1, <1>2 DEF Single, Claimed
-----------------------------------------------------------------------------
(* The steps of worker w, one lemma for each. *)

LEMMA QuietRings ==
    ASSUME NEW w \in Workers, head' = head, tail' = tail, ring' = ring
    PROVE  Evolves(w) /\ \A v \in Workers : Same(v)
  BY Zenon, StillRing DEF Evolves

\* What is left to show of a step of worker w.
LEMMA Assemble ==
    ASSUME Inv, NoLap, NEW w \in Workers, Others(w), Evolves(w), TypeOK', Control(w)', Copied(w)',
           NoDup(ready'), NoDup(RingIds(w)'), NoDup(todo'[w]), NoDup(Claimed(w)'), Part'
    PROVE  Inv'
  <1>1. Ctl'
    BY Zenon, ControlKept DEF Ctl, Inv
  <1>2. Cpy'
    <2>1. \A v \in Workers : v # w => pc'[v] = pc[v] /\ snap'[v] = snap[v]
      BY Zenon DEF Others
    <2>2. ASSUME NEW v \in Workers, v # w PROVE Copied(v)'
      BY Zenon, <2>1, <2>2, CopiedKept DEF Inv, Cpy
    <2> QED
      BY Zenon, <2>2 DEF Cpy
  <1>3. Single'
    BY Zenon, SingleKept DEF Single, Inv
  <1> QED
    BY Zenon, <1>1, <1>2, <1>3 DEF Inv

\* The places a step of worker w may change.
Changes(w, j, v) ==
    \/ j = "fresh" /\ v = 0 /\ fresh' # fresh
    \/ j = "finished" /\ v = 0 /\ finished' # finished
    \/ j = "ready" /\ v = 0 /\ ready' # ready
    \/ j = "next" /\ v = w /\ next'[w] # next[w]
    \/ j = "running" /\ v = w /\ running'[w] # running[w]
    \/ j = "ring" /\ ~Same(v)
    \/ j = "todo" /\ v = w /\ todo'[w] # todo[w]
    \/ j = "claimed" /\ v = w /\ Claimed(w)' # Claimed(w)

LEMMA StillMost ==
    ASSUME TypeOK, Ctl, Single, NEW w \in Workers, Others(w), Evolves(w)
    PROVE  \A j \in Kinds, v \in Workers : Still(j, v) \/ Changes(w, j, v)
  <1> SUFFICES ASSUME NEW j \in Kinds, NEW v \in Workers PROVE Still(j, v) \/ Changes(w, j, v)
    OBVIOUS
  <1>1. v # w => /\ next'[v] = next[v] /\ running'[v] = running[v] /\ todo'[v] = todo[v]
                 /\ Claimed(v)' = Claimed(v)
    BY Zenon, SingleKept DEF Others
  <1> QED
    BY Zenon, <1>1, StillPlaces DEF Kinds, Changes

LEMMA NothingMoves ==
    ASSUME TypeOK, Ctl, Single, Part, NEW w \in Workers, Others(w), Evolves(w),
           fresh' = fresh, finished' = finished, ready' = ready, next'[w] = next[w],
           running'[w] = running[w], todo'[w] = todo[w], Claimed(w)' = Claimed(w),
           \A v \in Workers : Same(v)
    PROVE  Part'
  <1>1. \A j \in Kinds, v \in Workers : Still(j, v) \/ Changes(w, j, v)
    BY Zenon, StillMost
  <1>2. \A j \in Kinds, v \in Workers : Still(j, v)
    BY Zenon, <1>1 DEF Changes
  <1> QED
    BY Zenon, <1>2, Unmoved

LEMMA Basics ==
    ASSUME Inv, NEW w \in Workers
    PROVE  /\ TypeOK /\ Ctl /\ Single /\ Part /\ Control(w) /\ Copied(w)
           /\ todo[w] \in Seq(Gids) /\ Len(todo[w]) \in Nat
           /\ running[w] \in Gids \cup {Null} /\ next[w] \in Gids \cup {Null} /\ 0 \in Workers
           /\ NoDup(ready) /\ NoDup(RingIds(w)) /\ NoDup(todo[w]) /\ NoDup(Claimed(w))
           /\ <<>> \in Seq(Gids) /\ Range(<<>>) = {} /\ NoDup(<<>>) /\ Null \notin Gids
  <1>1. 0 \in Workers /\ Null \notin Gids
    BY RunQueueAssumption DEF Workers
  <1>2. <<>> \in Seq(Gids) /\ Range(<<>>) = {} /\ NoDup(<<>>)
    BY Zenon, SeqShort
  <1>3. TypeOK /\ Ctl /\ Single /\ Part /\ Control(w) /\ Copied(w)
    BY Zenon DEF Inv, Ctl, Cpy
  <1> QED
    BY Zenon, <1>1, <1>2, <1>3, WorkerTypes DEF Single

LEMMA SpawnStep ==
    ASSUME Inv, NoLap, NEW w \in Workers, NEW g \in Gids, Spawn(w, g) PROVE Inv'
  <1>0. /\ TypeOK /\ Ctl /\ Single /\ Part /\ Control(w) /\ 0 \in Workers
        /\ Range(<<>>) = {} /\ NoDup(<<>>) /\ NoDup(ready) /\ NoDup(RingIds(w))
    BY Zenon, Basics
  <1>1. /\ pc'[w] = "make" /\ todo'[w] = <<g>> /\ running'[w] = running[w] /\ next'[w] = next[w]
        /\ head' = head /\ tail' = tail /\ ring' = ring /\ ready' = ready
        /\ fresh' = fresh \ {g} /\ finished' = finished /\ pc[w] = "run" /\ g \in fresh
    BY Zenon, <1>0 DEF Spawn, Goto, TypeOK, queueVars
  <1>2. Others(w)
    BY Zenon, <1>0 DEF Spawn, Others, Goto, TypeOK, queueVars
  <1>3. Evolves(w) /\ \A v \in Workers : Same(v)
    BY Zenon, <1>1, QuietRings
  <1>4. <<g>> \in Seq(Gids) /\ Len(<<g>>) = 1 /\ Range(<<g>>) = {g} /\ NoDup(<<g>>)
    BY Zenon, SeqUnit
  <1>5. TypeOK'
    BY Zenon, <1>0, <1>4 DEF Spawn, Goto, TypeOK, queueVars
  <1>6. Control(w)'
    BY Zenon, <1>0, <1>1, <1>3, <1>4 DEF Control, Same
  <1>7. Copied(w)' /\ Claimed(w)' = Claimed(w) /\ Claimed(w) = <<>> /\ todo[w] = <<>>
    BY Zenon, <1>0, <1>1 DEF Copied, Claims, Claimed, Control
  <1>8. Part'
    <2>0. \A j \in Kinds, v \in Workers : Still(j, v) \/ Changes(w, j, v)
      BY Zenon, <1>0, <1>2, <1>3, StillMost
    <2>1. \A j \in Kinds, v \in Workers : (j = "fresh" /\ v = 0) \/ (j = "todo" /\ v = w) \/ Still(j, v)
      BY Zenon, <1>1, <1>3, <1>7, <2>0 DEF Changes
    <2>2. \A h \in Gids : /\ Has(h, "fresh", 0) <=> h \in fresh
                          /\ ~Has(h, "todo", w)
                          /\ Has(h, "fresh", 0)' <=> h \in fresh \ {g}
                          /\ Has(h, "todo", w)' <=> h = g
      BY Zenon, <1>0, <1>1, <1>4, <1>7, HasIs, HasIsNext
    <2>3. "fresh" \in Kinds /\ "todo" \in Kinds /\ "fresh" # "todo"
      BY Zenon DEF Kinds
    <2>4. Swap("fresh", 0, "todo", w)
      BY Zenon, <1>0, <1>1, <2>1, <2>2, <2>3 DEF Swap
    <2> QED
      BY Zenon, <1>0, <2>4, Exchange
  <1> QED
    BY Zenon, <1>0, <1>1, <1>2, <1>3, <1>4, <1>5, <1>6, <1>7, <1>8, Assemble DEF Same

LEMMA YieldStep ==
    ASSUME Inv, NoLap, NEW w \in Workers, Yield(w) PROVE Inv'
  <1> DEFINE g == running[w]
  <1>0. /\ TypeOK /\ Ctl /\ Single /\ Part /\ Control(w) /\ 0 \in Workers /\ Null \notin Gids
        /\ Range(<<>>) = {} /\ NoDup(<<>>) /\ NoDup(ready) /\ NoDup(RingIds(w)) /\ g \in Gids \cup {Null}
    BY Zenon, Basics
  <1>1. /\ pc'[w] = "make" /\ todo'[w] = <<g>> /\ running'[w] = Null /\ next'[w] = next[w]
        /\ head' = head /\ tail' = tail /\ ring' = ring /\ ready' = ready
        /\ fresh' = fresh /\ finished' = finished /\ pc[w] = "run"
    BY Zenon, <1>0 DEF Yield, Goto, TypeOK, queueVars
  <1>2. Others(w)
    BY Zenon, <1>0 DEF Yield, Others, Goto, TypeOK, queueVars
  <1>3. Evolves(w) /\ \A v \in Workers : Same(v)
    BY Zenon, <1>1, QuietRings
  <1>4. g \in Gids /\ <<g>> \in Seq(Gids) /\ Len(<<g>>) = 1 /\ Range(<<g>>) = {g} /\ NoDup(<<g>>)
    BY Zenon, <1>0, <1>1, SeqUnit DEF Control
  <1>5. TypeOK'
    <2>1. yields' \in 0..MaxYields
      BY <1>0, RunQueueAssumption DEF Yield, TypeOK
    <2> QED
      BY Zenon, <1>0, <1>4, <2>1 DEF Yield, Goto, TypeOK, queueVars
  <1>6. Control(w)'
    BY Zenon, <1>0, <1>1, <1>3, <1>4 DEF Control, Same
  <1>7. Copied(w)' /\ Claimed(w)' = Claimed(w) /\ Claimed(w) = <<>> /\ todo[w] = <<>>
    BY Zenon, <1>0, <1>1 DEF Copied, Claims, Claimed, Control
  <1>8. Part'
    <2>0. \A j \in Kinds, v \in Workers : Still(j, v) \/ Changes(w, j, v)
      BY Zenon, <1>0, <1>2, <1>3, StillMost
    <2>1. \A j \in Kinds, v \in Workers : (j = "running" /\ v = w) \/ (j = "todo" /\ v = w) \/ Still(j, v)
      BY Zenon, <1>1, <1>3, <1>7, <2>0 DEF Changes
    <2>2. \A h \in Gids : /\ Has(h, "running", w) <=> h = g
                          /\ ~Has(h, "todo", w)
                          /\ ~Has(h, "running", w)'
                          /\ Has(h, "todo", w)' <=> h = g
      BY Zenon, <1>0, <1>1, <1>4, <1>7, HasIs, HasIsNext
    <2>3. "running" \in Kinds /\ "todo" \in Kinds /\ "running" # "todo"
      BY Zenon DEF Kinds
    <2>4. Swap("running", w, "todo", w)
      BY Zenon, <2>1, <2>2, <2>3 DEF Swap
    <2> QED
      BY Zenon, <1>0, <2>4, Exchange
  <1> QED
    BY Zenon, <1>0, <1>1, <1>2, <1>3, <1>4, <1>5, <1>6, <1>7, <1>8, Assemble DEF Same

LEMMA FinishStep ==
    ASSUME Inv, NoLap, NEW w \in Workers, Finish(w) PROVE Inv'
  <1> DEFINE g == running[w]
  <1>0. /\ TypeOK /\ Ctl /\ Single /\ Part /\ Control(w) /\ 0 \in Workers /\ Null \notin Gids
        /\ NoDup(<<>>) /\ NoDup(ready) /\ NoDup(RingIds(w)) /\ g \in Gids \cup {Null}
    BY Zenon, Basics
  <1>1. /\ pc'[w] = "seek" /\ todo'[w] = todo[w] /\ running'[w] = Null /\ next'[w] = next[w]
        /\ head' = head /\ tail' = tail /\ ring' = ring /\ ready' = ready
        /\ fresh' = fresh /\ finished' = finished \cup {g} /\ pc[w] = "run"
    BY Zenon, <1>0 DEF Finish, Goto, TypeOK, queueVars
  <1>2. Others(w)
    BY Zenon, <1>0 DEF Finish, Others, Goto, TypeOK, queueVars
  <1>3. Evolves(w) /\ \A v \in Workers : Same(v)
    BY Zenon, <1>1, QuietRings
  <1>4. g \in Gids /\ todo[w] = <<>>
    BY Zenon, <1>0, <1>1 DEF Control
  <1>5. TypeOK'
    BY Zenon, <1>0, <1>4 DEF Finish, Goto, TypeOK, queueVars
  <1>6. Control(w)'
    BY Zenon, <1>0, <1>1, <1>3, <1>4 DEF Control, Same
  <1>7. Copied(w)' /\ Claimed(w)' = Claimed(w) /\ Claimed(w) = <<>>
    BY Zenon, <1>0, <1>1 DEF Copied, Claims, Claimed, Control
  <1>8. Part'
    <2>0. \A j \in Kinds, v \in Workers : Still(j, v) \/ Changes(w, j, v)
      BY Zenon, <1>0, <1>2, <1>3, StillMost
    <2>1. \A j \in Kinds, v \in Workers :
            (j = "running" /\ v = w) \/ (j = "finished" /\ v = 0) \/ Still(j, v)
      BY Zenon, <1>1, <1>3, <1>7, <2>0 DEF Changes
    <2>2. \A h \in Gids : /\ Has(h, "running", w) <=> h = g
                          /\ Has(h, "finished", 0) <=> h \in finished
                          /\ ~Has(h, "running", w)'
                          /\ Has(h, "finished", 0)' <=> h \in finished \cup {g}
      BY ZenonT(40), <1>0, <1>1, <1>4, HasIs, HasIsNext
    <2>3. "running" \in Kinds /\ "finished" \in Kinds /\ "running" # "finished"
      BY Zenon DEF Kinds
    <2>4. Swap("running", w, "finished", 0)
      BY Zenon, <1>0, <2>1, <2>2, <2>3 DEF Swap
    <2> QED
      BY Zenon, <1>0, <2>4, Exchange
  <1> QED
    BY Zenon, <1>0, <1>1, <1>2, <1>3, <1>4, <1>5, <1>6, <1>7, <1>8, Assemble DEF Same

LEMMA SpawnOutsideStep ==
    ASSUME Inv, NoLap, NEW g \in Gids, SpawnOutside(g) PROVE Inv'
  <1> DEFINE w == 0
  <1>0. w \in Workers
    BY RunQueueAssumption DEF Workers
  <1>1. /\ TypeOK /\ Ctl /\ Single /\ Part /\ Control(w) /\ Copied(w) /\ NoDup(ready)
        /\ NoDup(RingIds(w)) /\ NoDup(todo[w]) /\ NoDup(Claimed(w))
    BY Zenon, <1>0, Basics
  <1>2. /\ pc' = pc /\ todo' = todo /\ running' = running /\ next' = next /\ snap' = snap
        /\ head' = head /\ tail' = tail /\ ring' = ring /\ ready' = Append(ready, g)
        /\ fresh' = fresh \ {g} /\ finished' = finished /\ g \in fresh /\ ready \in Seq(Gids)
        /\ yields' = yields
    BY Zenon, <1>1 DEF SpawnOutside, TypeOK, queueVars
  <1>3. Others(w)
    BY Zenon, <1>2 DEF Others
  <1>4. Evolves(w) /\ \A v \in Workers : Same(v)
    BY Zenon, <1>0, <1>2, QuietRings
  <1>5. "fresh" \in Kinds /\ "ready" \in Kinds /\ "fresh" # "ready"
    BY Zenon DEF Kinds
  <1>6. g \notin Range(ready)
    BY Zenon, <1>0, <1>1, <1>2, <1>5, OneHome, HasIs
  <1>7. /\ Append(ready, g) \in Seq(Gids) /\ Range(Append(ready, g)) = Range(ready) \cup {g}
        /\ NoDup(Append(ready, g))
    BY Zenon, <1>1, <1>2, <1>6, SeqAppend
  <1>8. TypeOK'
    BY Zenon, <1>1, <1>2, <1>7 DEF TypeOK
  <1>9. Control(w)' /\ Claimed(w)' = Claimed(w)
    BY Zenon, <1>0, <1>1, <1>2, <1>4 DEF Control, Same, Claimed
  <1>10. Copied(w)'
    BY Zenon, <1>0, <1>1, <1>2, <1>4, CopiedKept
  <1>11. Part'
    <2>0. \A j \in Kinds, v \in Workers : Still(j, v) \/ Changes(w, j, v)
      BY Zenon, <1>0, <1>1, <1>3, <1>4, StillMost
    <2>1. \A j \in Kinds, v \in Workers :
            (j = "fresh" /\ v = 0) \/ (j = "ready" /\ v = 0) \/ Still(j, v)
      BY Zenon, <1>2, <1>4, <1>9, <2>0 DEF Changes
    <2>2. \A h \in Gids : /\ Has(h, "fresh", 0) <=> h \in fresh
                          /\ Has(h, "ready", 0) <=> h \in Range(ready)
                          /\ Has(h, "fresh", 0)' <=> h \in fresh \ {g}
                          /\ Has(h, "ready", 0)' <=> h \in Range(ready) \cup {g}
      BY Zenon, <1>0, <1>2, <1>7, HasIs, HasIsNext
    <2>3. \A h \in Gids : ~(h \in fresh /\ h \in Range(ready))
      BY ZenonT(40), <1>0, <1>1, <1>5, OneHome, HasIs
    <2>4. Swap("fresh", 0, "ready", 0)
      BY Zenon, <1>0, <1>2, <1>5, <2>1, <2>2, <2>3 DEF Swap
    <2> QED
      BY Zenon, <1>1, <2>4, Exchange
  <1> QED
    BY ZenonT(40), <1>0, <1>1, <1>2, <1>3, <1>4, <1>7, <1>8, <1>9, <1>10, <1>11, Assemble DEF Same

\* Assembles the invariant after a step that moves no goroutine.
LEMMA Quiet ==
    ASSUME Inv, NoLap, NEW w \in Workers, Others(w), Evolves(w), \A v \in Workers : Same(v),
           TypeOK', Control(w)', Copied(w)', fresh' = fresh, finished' = finished, ready' = ready,
           next'[w] = next[w], running'[w] = running[w], todo'[w] = todo[w], Claimed(w)' = Claimed(w)
    PROVE  Inv'
  <1>1. /\ TypeOK /\ Ctl /\ Single /\ Part /\ NoDup(ready) /\ NoDup(RingIds(w)) /\ NoDup(todo[w])
        /\ NoDup(Claimed(w))
    BY Zenon, Basics
  <1>2. Part'
    BY Zenon, <1>1, NothingMoves
  <1>3. RingIds(w)' = RingIds(w)
    BY Zenon DEF Same
  <1> QED
    BY Zenon, <1>1, <1>2, <1>3, Assemble

LEMMA PushNextStep ==
    ASSUME Inv, NoLap, NEW w \in Workers, PushNext(w) PROVE Inv'
  <1> DEFINE x == Head(todo[w])
             y == next[w]
  <1>0. /\ TypeOK /\ Ctl /\ Single /\ Part /\ Control(w) /\ 0 \in Workers /\ Null \notin Gids
        /\ <<>> \in Seq(Gids) /\ Range(<<>>) = {} /\ NoDup(<<>>) /\ NoDup(ready) /\ NoDup(RingIds(w))
        /\ y \in Gids \cup {Null} /\ todo[w] \in Seq(Gids)
    BY Zenon, Basics
  <1>1. /\ next'[w] = x /\ running'[w] = running[w] /\ snap'[w] = snap[w]
        /\ head' = head /\ tail' = tail /\ ring' = ring /\ ready' = ready
        /\ fresh' = fresh /\ finished' = finished /\ pc[w] = "make"
        /\ y = Null => todo'[w] = <<>> /\ pc'[w] = IF running[w] = Null THEN "seek" ELSE "run"
        /\ y # Null => todo'[w] = <<y>> /\ pc'[w] = "push"
    BY Zenon, <1>0 DEF PushNext, Resume, Goto, TypeOK, taskVars
  <1>2. Others(w)
    BY Zenon, <1>0 DEF PushNext, Others, Resume, Goto, TypeOK, taskVars
  <1>3. Evolves(w) /\ \A v \in Workers : Same(v)
    BY Zenon, <1>1, QuietRings
  <1>4. x \in Gids /\ Range(todo[w]) = {x}
    BY Zenon, <1>0, <1>1, SeqShort DEF Control
  <1>5. y # Null => <<y>> \in Seq(Gids) /\ Len(<<y>>) = 1 /\ Range(<<y>>) = {y} /\ NoDup(<<y>>) /\ y \in Gids
    BY Zenon, <1>0, SeqUnit
  <1>6. TypeOK'
    <2>1. next' \in [Workers -> Gids \cup {Null}]
      BY Zenon, <1>0, <1>4 DEF PushNext, TypeOK
    <2>2. todo' \in [Workers -> Seq(Gids)]
      BY ZenonT(40), <1>0, <1>5 DEF PushNext, TypeOK
    <2>3. /\ UNCHANGED <<head, tail, ring, ready, running, snap, fresh, finished, yields>>
          /\ \E l \in {"seek", "run", "push"} : pc' = [pc EXCEPT ![w] = l]
      BY Zenon, <1>0 DEF PushNext, Resume, Goto, taskVars
    <2> QED
      BY Zenon, <1>0, <2>1, <2>2, <2>3 DEF TypeOK
  <1>7. Control(w)'
    BY Zenon, <1>0, <1>1, <1>3, <1>5 DEF Control, Same
  <1>8. Copied(w)' /\ Claimed(w)' = Claimed(w) /\ Claimed(w) = <<>>
    BY Zenon, <1>0, <1>1 DEF Copied, Claims, Claimed, Control
  <1>9. "next" \in Kinds /\ "todo" \in Kinds /\ "next" # "todo"
    BY Zenon DEF Kinds
  <1>10. NoDup(todo'[w]) /\ \A h \in Gids : (h \in Range(todo'[w]) <=> h = y)
    BY Zenon, <1>0, <1>1, <1>5
  <1>11. Part'
    <2>0. \A j \in Kinds, v \in Workers : Still(j, v) \/ Changes(w, j, v)
      BY Zenon, <1>0, <1>2, <1>3, StillMost
    <2>1. \A j \in Kinds, v \in Workers : (j = "next" /\ v = w) \/ (j = "todo" /\ v = w) \/ Still(j, v)
      BY Zenon, <1>1, <1>3, <1>8, <2>0 DEF Changes
    <2>2. \A h \in Gids : /\ Has(h, "next", w) <=> h = y
                          /\ Has(h, "todo", w) <=> h = x
                          /\ Has(h, "next", w)' <=> h = x
                          /\ Has(h, "todo", w)' <=> h = y
      BY Zenon, <1>1, <1>4, <1>10, HasIs, HasIsNext
    <2>3. x # y
      BY Zenon, <1>0, <1>4, <1>9, <2>2, OneHome
    <2>4. Swap("next", w, "todo", w)
      BY Zenon, <1>9, <2>1, <2>2, <2>3 DEF Swap
    <2> QED
      BY Zenon, <1>0, <2>4, Exchange
  <1> QED
    BY Zenon, <1>0, <1>1, <1>2, <1>3, <1>6, <1>7, <1>8, <1>10, <1>11, Assemble DEF Same

LEMMA PushCheckStep ==
    ASSUME Inv, NoLap, NEW w \in Workers, PushCheck(w) PROVE Inv'
  <1>0. /\ TypeOK /\ Ctl /\ Control(w) /\ Len(todo[w]) \in Nat
    BY Zenon, Basics
  <1>1. /\ next'[w] = next[w] /\ running'[w] = running[w] /\ snap'[w] = snap[w] /\ todo'[w] = todo[w]
        /\ head' = head /\ tail' = tail /\ ring' = ring /\ ready' = ready
        /\ fresh' = fresh /\ finished' = finished /\ pc[w] \in {"push", "stock"}
        /\ (pc'[w] = "half" /\ pc[w] = "push") \/ (pc'[w] = "store" /\ ~RingFull(w))
    BY Zenon, <1>0 DEF PushCheck, Goto, TypeOK, taskVars, queueVars
  <1>2. Others(w)
    BY Zenon, <1>0 DEF PushCheck, Others, Goto, TypeOK, taskVars, queueVars
  <1>3. Evolves(w) /\ \A v \in Workers : Same(v)
    BY Zenon, <1>1, QuietRings
  <1>4. TypeOK'
    BY Zenon, <1>0 DEF PushCheck, Goto, TypeOK, taskVars, queueVars
  <1>5. pc'[w] = "store" => Len(todo[w]) > 0 /\ Size(w) + Len(todo[w]) <= Capacity
    <2>1. Size(w) \in Nat /\ Capacity \in Nat
      BY Zenon, <1>0, RingIsIds, WorkerTypes
    <2>2. pc'[w] = "store" => ~(Size(w) >= Capacity)
      BY Zenon, <1>1 DEF RingFull, Size
    <2>3. Len(todo[w]) = 1 \/ (Len(todo[w]) > 0 /\ Size(w) + Len(todo[w]) <= Capacity)
      BY Zenon, <1>0, <1>1 DEF Control
    <2> DEFINE n == Len(todo[w])
               m == Size(w)
    <2>4. n \in Nat /\ m \in Nat /\ (n = 1 \/ (n > 0 /\ m + n <= Capacity))
      BY Zenon, <1>0, <2>1, <2>3
    <2> HIDE DEF n, m
    <2>5. ~(m >= Capacity) => n > 0 /\ m + n <= Capacity
      BY <2>1, <2>4
    <2> QED
      BY Zenon, <2>2, <2>5 DEF n, m
  <1>6. Control(w)'
    BY Zenon, <1>0, <1>1, <1>3, <1>5 DEF Control, Same
  <1>7. Copied(w)' /\ Claimed(w)' = Claimed(w)
    BY Zenon, <1>0, <1>1 DEF Copied, Claims, Claimed
  <1> QED
    BY Zenon, <1>1, <1>2, <1>3, <1>4, <1>6, <1>7, Quiet

LEMMA PushStoreStep ==
    ASSUME Inv, NoLap, NEW w \in Workers, PushStore(w) PROVE Inv'
  <1> DEFINE x == Head(todo[w])
  <1>0. /\ TypeOK /\ Ctl /\ Control(w) /\ todo[w] \in Seq(Gids) /\ Len(todo[w]) \in Nat
    BY Zenon, Basics
  <1>1. /\ next'[w] = next[w] /\ running'[w] = running[w] /\ snap'[w] = snap[w] /\ todo'[w] = todo[w]
        /\ head' = head /\ tail' = tail /\ ready' = ready
        /\ ring' = [ring EXCEPT ![w][tail[w] % Capacity] = x]
        /\ fresh' = fresh /\ finished' = finished /\ pc[w] = "store" /\ pc'[w] = "publish"
    BY Zenon, <1>0 DEF PushStore, Goto, TypeOK, taskVars
  <1>2. Size(w) < Capacity /\ x \in Gids
    <2>1. Size(w) \in Nat /\ Capacity \in Nat
      BY Zenon, <1>0, RingIsIds, WorkerTypes
    <2>2. Len(todo[w]) > 0 /\ Size(w) + Len(todo[w]) <= Capacity
      BY Zenon, <1>0, <1>1 DEF Control
    <2>3. x \in Gids
      BY Zenon, <1>0, <2>2, SeqTail
    <2> QED
      BY <1>0, <2>1, <2>2, <2>3
  <1>3. tail[w] % Capacity \in 0..(Capacity - 1)
    BY SMTT(30), Z3T(30), <1>0, RunQueueAssumption DEF TypeOK
  <1>4. /\ \A v \in Workers : v # w => ring'[v] = ring[v]
        /\ ring'[w][tail[w] % Capacity] = x
        /\ ring' \in [Workers -> [0..(Capacity - 1) -> Gids \cup {Null}]]
    BY Zenon, <1>0, <1>1, <1>2, <1>3 DEF TypeOK
  <1>5. Others(w)
    BY Zenon, <1>0, <1>4 DEF PushStore, Others, Goto, TypeOK, taskVars
  <1>6. \A v \in Workers : Same(v)
    BY Zenon, <1>0, <1>1, <1>2, StoredRing
  <1>7. TypeOK'
    BY Zenon, <1>0, <1>4 DEF PushStore, Goto, TypeOK, taskVars
  <1>8. Control(w)'
    BY Zenon, <1>0, <1>1, <1>4, <1>6 DEF Control, Same
  <1>9. Copied(w)' /\ Claimed(w)' = Claimed(w) /\ Evolves(w)
    BY Zenon, <1>0, <1>1, <1>6 DEF Copied, Claims, Claimed, Evolves
  <1> QED
    BY Zenon, <1>1, <1>5, <1>6, <1>7, <1>8, <1>9, Quiet

LEMMA PushPublishStep ==
    ASSUME Inv, NoLap, NEW w \in Workers, PushPublish(w) PROVE Inv'
  <1> DEFINE x == Head(todo[w])
             rest == Tail(todo[w])
  <1>0. /\ TypeOK /\ Ctl /\ Single /\ Part /\ Control(w) /\ 0 \in Workers /\ Null \notin Gids
        /\ NoDup(ready) /\ NoDup(RingIds(w)) /\ NoDup(todo[w]) /\ NoDup(<<>>)
        /\ todo[w] \in Seq(Gids) /\ Len(todo[w]) \in Nat
    BY Zenon, Basics
  <1>1. /\ next'[w] = next[w] /\ running'[w] = running[w] /\ snap'[w] = snap[w] /\ todo'[w] = rest
        /\ head' = head /\ ring' = ring /\ ready' = ready
        /\ tail' = [tail EXCEPT ![w] = Inc(@, 1)]
        /\ fresh' = fresh /\ finished' = finished /\ pc[w] = "publish"
        /\ pc'[w] = IF Len(todo[w]) > 1 THEN "stock" ELSE IF running[w] = Null THEN "seek" ELSE "run"
    BY Zenon, <1>0 DEF PushPublish, Resume, Goto, TypeOK, taskVars
  <1>2. Others(w)
    BY Zenon, <1>0 DEF PushPublish, Others, Resume, Goto, TypeOK, taskVars
  <1>3. /\ Size(w) \in Nat /\ Capacity \in Nat /\ Len(todo[w]) > 0
        /\ Size(w) + Len(todo[w]) <= Capacity /\ ring[w][tail[w] % Capacity] = x
        /\ RingIds(w) \in Seq(Gids)
    BY Zenon, <1>0, <1>1, RingIsIds, WorkerTypes DEF Control
  <1>4. Size(w) < Capacity
    BY <1>0, <1>3
  <1>5. Grown(w, x) /\ \A v \in Workers : v # w => Same(v)
    BY Zenon, <1>0, <1>1, <1>3, <1>4, GrownRing
  <1>6. Evolves(w)
    BY Zenon, <1>0, <1>3, <1>5, SeqTail DEF Evolves
  <1>7. /\ x \in Gids /\ rest \in Seq(Gids) /\ Len(rest) = Len(todo[w]) - 1
        /\ Range(todo[w]) = {x} \cup Range(rest) /\ NoDup(rest) /\ x \notin Range(rest)
    BY Zenon, <1>0, <1>3, SeqTail
  <1>8. "todo" \in Kinds /\ "ring" \in Kinds /\ "todo" # "ring"
    BY Zenon DEF Kinds
  <1>9. \A h \in Range(todo[w]) : h \notin Range(RingIds(w))
    <2> SUFFICES ASSUME NEW h \in Range(todo[w]), h \in Range(RingIds(w)) PROVE FALSE
      OBVIOUS
    <2>1. h \in Gids
      BY Zenon, <1>0, SeqRange
    <2>2. Has(h, "todo", w) /\ Has(h, "ring", w)
      BY Zenon, <2>1, HasIs
    <2> QED
      BY Zenon, <1>0, <1>8, <2>1, <2>2, OneHome
  <1>10. /\ RingIds(w)' \in Seq(Gids) /\ Range(RingIds(w)') = Range(RingIds(w)) \cup {x}
         /\ NoDup(RingIds(w)') /\ Size(w)' = Size(w) + 1
    <2>1. RingIds(w)' = Append(RingIds(w), x) /\ Size(w)' = Size(w) + 1
      BY Zenon, <1>5 DEF Grown
    <2>2. x \in Range(todo[w]) => x \notin Range(RingIds(w))
      BY Zenon, <1>9
    <2>3. x \in Range(todo[w])
      BY Zenon, <1>7
    <2>4. x \notin Range(RingIds(w))
      BY Zenon, <2>2, <2>3
    <2>5. /\ Append(RingIds(w), x) \in Seq(Gids)
          /\ Range(Append(RingIds(w), x)) = Range(RingIds(w)) \cup {x} /\ NoDup(Append(RingIds(w), x))
      BY ZenonT(40), <1>0, <1>3, <1>7, <2>4, SeqAppend
    <2> QED
      BY Zenon, <2>1, <2>5
  <1>11. TypeOK'
    <2>1. Inc(tail[w], 1) \in 0..(IndexMod - 1)
      <3>1. 1 \in Indices /\ tail[w] \in Indices
        BY <1>0, RunQueueAssumption DEF TypeOK, Indices
      <3> QED
        BY Zenon, <3>1, IncIs DEF Indices
    <2> QED
      BY Zenon, <1>0, <1>7, <2>1 DEF PushPublish, Resume, Goto, TypeOK, taskVars
  <1>12. /\ Size(w)' <= Capacity
         /\ Len(todo[w]) > 1 => Len(rest) > 0 /\ Size(w)' + Len(rest) <= Capacity
         /\ ~(Len(todo[w]) > 1) => rest = <<>>
    BY <1>0, <1>3, <1>7, <1>10
  <1>13. Control(w)'
    BY Zenon, <1>1, <1>10, <1>12 DEF Control
  <1>14. Copied(w)' /\ Claimed(w)' = Claimed(w) /\ Claimed(w) = <<>>
    BY Zenon, <1>0, <1>1 DEF Copied, Claims, Claimed
  <1>15. Part'
    <2>0. \A j \in Kinds, v \in Workers : Still(j, v) \/ Changes(w, j, v)
      BY Zenon, <1>0, <1>2, <1>6, StillMost
    <2>1. \A j \in Kinds, v \in Workers : (j = "todo" /\ v = w) \/ (j = "ring" /\ v = w) \/ Still(j, v)
      BY Zenon, <1>1, <1>5, <1>14, <2>0 DEF Changes
    <2>2. \A h \in Gids : /\ Has(h, "todo", w) <=> h \in {x} \cup Range(rest)
                          /\ Has(h, "ring", w) <=> h \in Range(RingIds(w))
                          /\ Has(h, "todo", w)' <=> h \in Range(rest)
                          /\ Has(h, "ring", w)' <=> h \in Range(RingIds(w)) \cup {x}
      BY Zenon, <1>1, <1>7, <1>10, HasIs, HasIsNext
    <2>4. Swap("todo", w, "ring", w)
      BY Zenon, <1>7, <1>8, <1>9, <2>1, <2>2 DEF Swap
    <2> QED
      BY Zenon, <1>0, <2>4, Exchange
  <1> QED
    <2>1. NoDup(ready') /\ NoDup(todo'[w]) /\ NoDup(Claimed(w)')
      BY Zenon, <1>0, <1>1, <1>7, <1>14
    <2> QED
      BY Zenon, <1>2, <1>6, <1>10, <1>11, <1>13, <1>14, <1>15, <2>1, Assemble

Snaps == [h : 0..(IndexMod - 1), take : 0..Capacity, off : Nat, batch : Seq(Gids \cup {Null})]

LEMMA SnapFacts ==
    ASSUME NEW h \in Indices, NEW take \in 0..Capacity, NEW off \in Nat,
           NEW batch \in Seq(Gids \cup {Null})
    PROVE  /\ Snap(h, take, off, batch) \in Snaps
           /\ Snap(h, take, off, batch).h = h /\ Snap(h, take, off, batch).take = take
           /\ Snap(h, take, off, batch).off = off /\ Snap(h, take, off, batch).batch = batch
  BY Zenon DEF Snap, Snaps, Indices

IsSnap(s, h, take, off, batch) ==
    s \in Snaps /\ s.h = h /\ s.take = take /\ s.off = off /\ s.batch = batch

LEMMA SnapIs ==
    ASSUME NEW h \in Indices, NEW take \in 0..Capacity, NEW off \in Nat,
           NEW batch \in Seq(Gids \cup {Null})
    PROVE  IsSnap(Snap(h, take, off, batch), h, take, off, batch)
  BY Zenon DEF IsSnap, Snap, Snaps, Indices

LEMMA NoSnapType == NoSnap \in Snaps
  <1>1. 0 \in Indices /\ 0 \in 0..Capacity /\ 0 \in Nat /\ <<>> \in Seq(Gids \cup {Null})
    BY RunQueueAssumption DEF Indices
  <1> QED
    BY Zenon, <1>1, SnapFacts DEF NoSnap

LEMMA HalfFacts ==
    ASSUME NEW n \in Nat
    PROVE  LargerHalf(n) \in 0..n /\ LargerHalf(n) \in Nat /\ (n > 0 => LargerHalf(n) >= 1)
  BY DEF LargerHalf

\* What a worker reads from its own ring.
LEMMA PrefixFacts ==
    ASSUME TypeOK, NEW w \in Workers, NEW n \in 0..Size(w)
    PROVE  /\ Slice(w, head[w], n) \in Seq(Gids \cup {Null}) /\ Len(Slice(w, head[w], n)) = n
           /\ \A i \in 1..n : Slice(w, head[w], n)[i] = RingIds(w)[i]
           /\ n = 0 => Slice(w, head[w], n) = <<>>
  <1>1. /\ RingIds(w) = Ids(ring[w], head[w], Size(w)) /\ Size(w) \in Nat
        /\ ring[w] \in Rings /\ head[w] \in Indices
    BY Zenon, RingIsIds
  <1>2. n \in Nat /\ \A i \in 1..n : i \in 1..Size(w)
    BY <1>1
  <1>3. Slice(w, head[w], n) = Ids(ring[w], head[w], n)
    BY Zenon DEF Slice, Slot, Ids
  <1>4. /\ Ids(ring[w], head[w], n) \in Seq(Gids \cup {Null}) /\ Len(Ids(ring[w], head[w], n)) = n
        /\ \A i \in 1..n : Ids(ring[w], head[w], n)[i] = ring[w][(head[w] + i - 1) % Capacity]
        /\ \A i \in 1..Size(w) : RingIds(w)[i] = ring[w][(head[w] + i - 1) % Capacity]
    <2> DEFINE r == ring[w]
               h == head[w]
               m == Size(w)
    <2>0. r \in Rings /\ h \in Indices /\ m \in Nat
      BY Zenon, <1>1
    <2> HIDE DEF r, h, m
    <2>1. /\ Ids(r, h, n) \in Seq(Gids \cup {Null}) /\ Len(Ids(r, h, n)) = n
          /\ \A i \in 1..n : Ids(r, h, n)[i] = r[(h + i - 1) % Capacity]
      BY Zenon, <1>2, <2>0, IdsType
    <2>2. \A i \in 1..m : Ids(r, h, m)[i] = r[(h + i - 1) % Capacity]
      BY Zenon, <2>0, IdsType
    <2> QED
      BY Zenon, <1>1, <2>1, <2>2 DEF r, h, m
  <1>5. n = 0 => Slice(w, head[w], n) = <<>>
    BY <1>3, <1>4
  <1> QED
    BY Zenon, <1>2, <1>3, <1>4, <1>5

\* What a successful claim takes is the front of the ring it is taken from.
LEMMA ClaimFacts ==
    ASSUME Inv, NEW w \in Workers, Claims(w), pc[w] # "stealCopy", head[Source(w)] = snap[w].h
    PROVE  /\ Source(w) \in Workers /\ snap[w].take \in 1..Size(Source(w)) /\ snap[w].take \in Nat
           /\ snap[w].batch = SubSeq(RingIds(Source(w)), 1, snap[w].take)
           /\ snap[w].batch \in Seq(Gids) /\ Len(snap[w].batch) = snap[w].take
           /\ Size(Source(w)) <= Capacity /\ RingIds(Source(w)) \in Seq(Gids)
           /\ Size(Source(w)) \in Nat
  <1> DEFINE x == Source(w)
             b == snap[w].batch
             n == snap[w].take
             s == RingIds(x)
  <1>0. TypeOK /\ Ctl /\ Copied(w)
    BY Zenon, Basics
  <1>1. x \in Workers
    BY Zenon, <1>0, VictimType
  <1>2. /\ Size(x) \in Nat /\ Len(s) = Size(x) /\ s \in Seq(Gids) /\ Size(x) <= Capacity
        /\ b \in Seq(Gids \cup {Null}) /\ n \in Nat
    BY Zenon, <1>0, <1>1, RingIsIds, WorkerTypes DEF Ctl, Control
  <1>3. n >= 1 /\ Len(b) = n /\ n <= Size(x) /\ \A i \in 1..Len(b) : b[i] = s[i]
    BY Zenon, <1>0 DEF Copied
  <1> HIDE DEF x, b, n, s
  <1>4. n \in 0..Len(s) /\ n \in 1..Size(x)
    BY <1>2, <1>3
  <1>5. SubSeq(s, 1, n) \in Seq(Gids) /\ Len(SubSeq(s, 1, n)) = n /\ \A i \in 1..n : SubSeq(s, 1, n)[i] = s[i]
    BY <1>2, <1>4, SeqCut
  <1>6. b = SubSeq(s, 1, n)
    <2> DEFINE t == SubSeq(s, 1, n)
    <2>1. t \in Seq(Gids) /\ Len(t) = n /\ \A i \in 1..n : t[i] = b[i]
      BY Zenon, <1>3, <1>5
    <2> HIDE DEF t
    <2>2. DOMAIN t = 1..n /\ DOMAIN b = 1..n /\ t = [i \in DOMAIN t |-> t[i]] /\ b = [i \in DOMAIN b |-> b[i]]
      BY <1>2, <1>3, <2>1
    <2>3. t = b
      BY <2>1, <2>2
    <2> QED
      BY Zenon, <2>3 DEF t
  <1> QED
    BY Zenon, <1>1, <1>2, <1>3, <1>4, <1>5, <1>6 DEF x, b, n, s

\* What a successful claim does to the ring it takes from.
Taken(x, b) ==
    /\ x \in Workers /\ b \in Seq(Gids) /\ Size(x) # 0
    /\ \A v \in Workers : v # x => Same(v)
    /\ RingIds(x)' \in Seq(Gids) /\ Size(x)' <= Capacity
    /\ Range(RingIds(x)) = Range(b) \cup Range(RingIds(x)')
    /\ NoDup(RingIds(x)') /\ NoDup(b) /\ Range(b) \cap Range(RingIds(x)') = {}
    /\ head' \in [Workers -> 0..(IndexMod - 1)]

CutOff(v, b) ==
    /\ RingIds(v)' \in Seq(Gids) /\ Size(v)' \in Nat /\ Size(v)' < Size(v)
    /\ Range(RingIds(v)) = Range(b) \cup Range(RingIds(v)')
    /\ NoDup(RingIds(v)') /\ NoDup(b) /\ Range(b) \cap Range(RingIds(v)') = {}

LEMMA ShrunkCut ==
    ASSUME TypeOK, NEW v \in Workers, NEW n \in Nat, Shrunk(v, n), RingIds(v) \in Seq(Gids), NoDup(RingIds(v))
    PROVE  CutOff(v, SubSeq(RingIds(v), 1, n))
  BY Zenon, ShrunkFacts DEF CutOff

LEMMA ClaimTaken ==
    ASSUME Inv, NEW w \in Workers, Claims(w), pc[w] # "stealCopy",
           NEW x \in Workers, x = Source(w), head[x] = snap[w].h,
           head' = [head EXCEPT ![x] = Inc(@, snap[w].take)], tail' = tail, ring' = ring
    PROVE  /\ Taken(x, snap[w].batch) /\ Evolves(w) /\ Len(snap[w].batch) = snap[w].take
           /\ snap[w].take \in 1..Capacity
  <1> DEFINE b == snap[w].batch
             n == snap[w].take
  <1>0. TypeOK /\ Ctl /\ Single
    BY Zenon, Basics
  <1>1. /\ x \in Workers /\ n \in 1..Size(x) /\ n \in Nat /\ b = SubSeq(RingIds(x), 1, n) /\ b \in Seq(Gids)
        /\ Size(x) <= Capacity /\ RingIds(x) \in Seq(Gids) /\ Size(x) \in Nat /\ Len(b) = n
    BY Zenon, ClaimFacts
  <1>2. NoDup(RingIds(x)) /\ head[x] \in Indices /\ tail[x] \in Indices
    BY Zenon, <1>0, <1>1, RingIsIds DEF Single
  <1> HIDE DEF n
  <1>3. head' = [head EXCEPT ![x] = Inc(@, n)]
    BY Zenon DEF n
  <1>4. Shrunk(x, n) /\ \A v \in Workers : v # x => Same(v)
    BY Zenon, <1>0, <1>1, <1>3, ShrunkRing
  <1>5. Evolves(w)
    BY Zenon, <1>1, <1>4 DEF Evolves
  <1>6. CutOff(x, b)
    <2>1. CutOff(x, SubSeq(RingIds(x), 1, n))
      BY Zenon, <1>0, <1>1, <1>2, <1>4, ShrunkCut
    <2> QED
      BY Zenon, <1>1, <2>1
  <1>7. Size(x)' <= Capacity /\ Size(x) # 0 /\ n \in 1..Capacity
    <2>1. Size(x)' \in Nat /\ Size(x)' < Size(x)
      BY Zenon, <1>6 DEF CutOff
    <2> QED
      BY <1>1, <2>1, RunQueueAssumption
  <1>8. n \in 0..Dist(tail[x], head[x])
    BY <1>1 DEF Size
  <1>9. Inc(head[x], n) \in 0..(IndexMod - 1)
    BY Zenon, <1>2, <1>8, DistDown DEF Indices
  <1>10. head' \in [Workers -> 0..(IndexMod - 1)]
    BY Zenon, <1>0, <1>3, <1>9 DEF TypeOK
  <1>11. Taken(x, b)
    BY Zenon, <1>1, <1>4, <1>6, <1>7, <1>10 DEF Taken, CutOff
  <1> QED
    BY Zenon, <1>1, <1>5, <1>7, <1>11 DEF n

LEMMA TakeHalfLoadStep ==
    ASSUME Inv, NoLap, NEW w \in Workers, TakeHalfLoad(w) PROVE Inv'
  <1> DEFINE n == LargerHalf(Size(w))
             s == Slice(w, head[w], n)
  <1>0. /\ TypeOK /\ Ctl /\ Control(w) /\ <<>> \in Seq(Gids)
    BY Zenon, Basics
  <1>1. /\ next'[w] = next[w] /\ running'[w] = running[w] /\ todo'[w] = todo[w]
        /\ snap'[w] = Snap(head[w], n, 0, s)
        /\ head' = head /\ tail' = tail /\ ring' = ring /\ ready' = ready
        /\ fresh' = fresh /\ finished' = finished /\ pc[w] = "half"
        /\ pc'[w] = IF head[w] = tail[w] THEN "flush" ELSE "halfCas"
    BY Zenon, <1>0 DEF TakeHalfLoad, Goto, TypeOK, taskVars, queueVars, Size
  <1>2. Others(w)
    BY Zenon, <1>0 DEF TakeHalfLoad, Others, Goto, TypeOK, taskVars, queueVars
  <1>3. Evolves(w) /\ \A v \in Workers : Same(v)
    BY Zenon, <1>1, QuietRings
  <1>4. /\ Size(w) \in Nat /\ Size(w) <= Capacity /\ Capacity \in Nat
        /\ Size(w) = 0 <=> head[w] = tail[w]
    BY Zenon, <1>0, RingIsIds, WorkerTypes DEF Control
  <1>5. n \in 0..Size(w) /\ n \in 0..Capacity /\ n <= Size(w)
        /\ (head[w] = tail[w] => n = 0) /\ (head[w] # tail[w] => n >= 1)
    <2>1. n \in 0..Size(w) /\ n \in Nat /\ (Size(w) > 0 => n >= 1)
      BY Zenon, <1>4, HalfFacts
    <2> HIDE DEF n
    <2> QED
      BY <1>4, <2>1
  <1>6. /\ s \in Seq(Gids \cup {Null}) /\ Len(s) = n /\ (n = 0 => s = <<>>)
        /\ \A i \in 1..n : s[i] = RingIds(w)[i]
    BY Zenon, <1>0, <1>5, PrefixFacts
  <1>7. snap'[w] \in Snaps /\ snap'[w].h = head[w] /\ snap'[w].take = n /\ snap'[w].batch = s
    <2>1. head[w] \in Indices /\ 0 \in Nat
      BY <1>0 DEF TypeOK, Indices
    <2> HIDE DEF n, s
    <2>2. /\ Snap(head[w], n, 0, s) \in Snaps
          /\ Snap(head[w], n, 0, s).h = head[w] /\ Snap(head[w], n, 0, s).take = n
          /\ Snap(head[w], n, 0, s).batch = s
      BY <1>5, <1>6, <2>1, SnapFacts
    <2> QED
      BY Zenon, <1>1, <2>2
  <1>8. TypeOK'
    BY Zenon, <1>0, <1>1, <1>7 DEF TakeHalfLoad, Goto, TypeOK, taskVars, queueVars, Snaps
  <1>9. Control(w)'
    BY Zenon, <1>0, <1>1, <1>3, <1>5, <1>6, <1>7 DEF Control, Same
  <1>10. Claimed(w)' = Claimed(w)
    BY Zenon, <1>1, <1>5, <1>6, <1>7 DEF Claimed
  <1>11. Copied(w)'
    <2>1. CASE head[w] = tail[w]
      BY Zenon, <1>1, <2>1 DEF Copied, Claims
    <2>2. CASE head[w] # tail[w]
      <3>1. pc'[w] = "halfCas" /\ Source(w)' = w /\ n >= 1 /\ Size(w)' = Size(w) /\ RingIds(w)' = RingIds(w)
        BY Zenon, <1>1, <1>3, <1>5, <2>2 DEF Source, Same
      <3> QED
        BY Zenon, <1>5, <1>6, <1>7, <3>1 DEF Copied
    <2> QED
      BY Zenon, <2>1, <2>2
  <1> QED
    BY Zenon, <1>1, <1>2, <1>3, <1>8, <1>9, <1>10, <1>11, Quiet

LEMMA TakeHalfCasStep ==
    ASSUME Inv, NoLap, NEW w \in Workers, TakeHalfCas(w) PROVE Inv'
  <1> DEFINE n == snap[w].take
             b == snap[w].batch
  <1>0. /\ TypeOK /\ Ctl /\ Single /\ Part /\ Control(w) /\ NoDup(ready) /\ NoDup(RingIds(w))
        /\ NoDup(todo[w]) /\ Range(<<>>) = {}
    BY Zenon, Basics
  <1>1. /\ next'[w] = next[w] /\ running'[w] = running[w] /\ todo'[w] = todo[w] /\ snap'[w] = snap[w]
        /\ tail' = tail /\ ring' = ring /\ ready' = ready
        /\ fresh' = fresh /\ finished' = finished /\ pc[w] = "halfCas"
    BY Zenon, <1>0 DEF TakeHalfCas, Goto, TypeOK, taskVars
  <1>2. Others(w)
    BY Zenon, <1>0 DEF TakeHalfCas, Others, Goto, TypeOK, taskVars
  <1>3. Claims(w) /\ pc[w] # "stealCopy" /\ Source(w) = w /\ Claimed(w) = <<>>
    BY Zenon, <1>1 DEF Claims, Source, Claimed
  <1>4. CASE head[w] # snap[w].h
    <2>1. head' = head /\ pc'[w] = "half"
      BY Zenon, <1>0, <1>4 DEF TakeHalfCas, Goto, TypeOK
    <2>2. Evolves(w) /\ \A v \in Workers : Same(v)
      BY Zenon, <1>1, <2>1, QuietRings
    <2>3. TypeOK'
      BY Zenon, <1>0, <1>4 DEF TakeHalfCas, Goto, TypeOK, taskVars
    <2>4. Control(w)'
      BY Zenon, <1>0, <1>1, <2>1, <2>2 DEF Control, Same
    <2>5. Copied(w)' /\ Claimed(w)' = Claimed(w)
      BY Zenon, <1>3, <2>1 DEF Copied, Claims, Claimed
    <2> QED
      BY Zenon, <1>1, <1>2, <2>2, <2>3, <2>4, <2>5, Quiet
  <1>5. CASE head[w] = snap[w].h
    <2>1. head' = [head EXCEPT ![w] = Inc(@, n)] /\ pc'[w] = "flush"
      BY Zenon, <1>0, <1>5 DEF TakeHalfCas, Goto, TypeOK
    <2>2. Taken(w, b) /\ Evolves(w)
      BY Zenon, <1>1, <1>3, <1>5, <2>1, ClaimTaken
    <2>3. \A v \in Workers : v # w => Same(v)
      BY Zenon, <2>2 DEF Taken
    <2>5. /\ Range(RingIds(w)) = Range(b) \cup Range(RingIds(w)')
          /\ NoDup(RingIds(w)') /\ NoDup(b) /\ Range(b) \cap Range(RingIds(w)') = {}
      BY Zenon, <2>2 DEF Taken
    <2>7. TypeOK'
      BY Zenon, <1>0, <2>2 DEF TakeHalfCas, Goto, TypeOK, taskVars, Taken
    <2>8. Control(w)'
      BY Zenon, <1>0, <1>1, <2>1, <2>2 DEF Control, Taken
    <2>9. Copied(w)' /\ Claimed(w)' = b
      BY Zenon, <1>1, <2>1 DEF Copied, Claims, Claimed
    <2>10. Part'
      <3>0. \A j \in Kinds, v \in Workers : Still(j, v) \/ Changes(w, j, v)
        BY Zenon, <1>0, <1>2, <2>2, StillMost
      <3>1. \A j \in Kinds, v \in Workers : (j = "ring" /\ v = w) \/ (j = "claimed" /\ v = w) \/ Still(j, v)
        BY Zenon, <1>1, <2>3, <3>0 DEF Changes
      <3>2. \A h \in Gids : /\ Has(h, "ring", w) <=> h \in Range(b) \cup Range(RingIds(w)')
                            /\ ~Has(h, "claimed", w)
                            /\ Has(h, "ring", w)' <=> h \in Range(RingIds(w)')
                            /\ Has(h, "claimed", w)' <=> h \in Range(b)
        BY Zenon, <1>0, <1>3, <2>5, <2>9, HasIs, HasIsNext
      <3>3. "claimed" \in Kinds /\ "ring" \in Kinds /\ "ring" # "claimed"
        BY Zenon DEF Kinds
      <3>4. Swap("ring", w, "claimed", w)
        BY Zenon, <2>5, <3>1, <3>2, <3>3 DEF Swap
      <3> QED
        BY Zenon, <1>0, <3>4, Exchange
    <2> QED
      BY Zenon, <1>0, <1>1, <1>2, <2>2, <2>5, <2>7, <2>8, <2>9, <2>10, Assemble
  <1> QED
    BY Zenon, <1>4, <1>5

LEMMA PushReadyBatchStep ==
    ASSUME Inv, NoLap, NEW w \in Workers, PushReadyBatch(w) PROVE Inv'
  <1> DEFINE b == snap[w].batch
             t == todo[w]
             rb == ready \o b
             new == rb \o t
  <1>0. /\ TypeOK /\ Ctl /\ Single /\ Part /\ Control(w) /\ NoDup(ready) /\ NoDup(RingIds(w))
        /\ NoDup(t) /\ NoDup(Claimed(w)) /\ t \in Seq(Gids) /\ 0 \in Workers
        /\ <<>> \in Seq(Gids) /\ Range(<<>>) = {} /\ NoDup(<<>>)
    BY Zenon, Basics
  <1>1. /\ next'[w] = next[w] /\ running'[w] = running[w] /\ todo'[w] = <<>>
        /\ tail' = tail /\ ring' = ring /\ head' = head /\ ready' = new
        /\ fresh' = fresh /\ finished' = finished /\ pc[w] = "flush"
        /\ pc'[w] = IF running[w] = Null THEN "seek" ELSE "run"
    BY Zenon, <1>0 DEF PushReadyBatch, Resume, Goto, TypeOK, taskVars, queueVars
  <1>2. Others(w)
    BY Zenon, <1>0 DEF PushReadyBatch, Others, Resume, Goto, TypeOK, taskVars, queueVars
  <1>3. Evolves(w) /\ \A v \in Workers : Same(v)
    BY Zenon, <1>1, QuietRings
  <1>4. /\ b \in Seq(Gids) /\ Claimed(w) = b /\ Claimed(w)' = <<>> /\ Copied(w)' /\ ready \in Seq(Gids)
        /\ NoDup(b)
    BY Zenon, <1>0, <1>1 DEF Control, Claimed, Copied, Claims, TypeOK
  <1>5. /\ "ready" \in Kinds /\ "claimed" \in Kinds /\ "todo" \in Kinds
        /\ "claimed" # "todo" /\ "claimed" # "ready" /\ "todo" # "ready"
    BY Zenon DEF Kinds
  <1>6. \A h \in Gids : /\ Has(h, "claimed", w) <=> h \in Range(b)
                        /\ Has(h, "todo", w) <=> h \in Range(t)
                        /\ Has(h, "ready", 0) <=> h \in Range(ready)
    BY Zenon, <1>4, HasIs
  <1>7. \A h \in Gids : /\ ~(h \in Range(b) /\ h \in Range(t)) /\ ~(h \in Range(b) /\ h \in Range(ready))
                        /\ ~(h \in Range(t) /\ h \in Range(ready))
    BY ZenonT(40), <1>0, <1>5, <1>6, OneHome
  <1>8. Range(b) \subseteq Gids /\ Range(t) \subseteq Gids /\ Range(ready) \subseteq Gids
    BY Zenon, <1>0, <1>4, SeqRange
  <1>9. Range(ready) \cap Range(b) = {} /\ (Range(ready) \cup Range(b)) \cap Range(t) = {}
    BY Zenon, <1>7, <1>8
  <1>10. rb \in Seq(Gids) /\ Range(rb) = Range(ready) \cup Range(b) /\ NoDup(rb)
    <2> HIDE DEF b
    <2> QED
      BY <1>0, <1>4, <1>9, SeqJoin
  <1>11. new \in Seq(Gids) /\ Range(new) = Range(rb) \cup Range(t) /\ NoDup(new)
    <2> HIDE DEF rb
    <2> QED
      BY ZenonT(40), <1>0, <1>9, <1>10, SeqJoin
  <1>12. TypeOK'
    BY Zenon, <1>0, <1>11, NoSnapType DEF PushReadyBatch, Resume, Goto, TypeOK, taskVars, queueVars, Snaps
  <1>13. Control(w)'
    BY Zenon, <1>0, <1>1, <1>3 DEF Control, Same
  <1>14. Part'
    <2>0. \A j \in Kinds, v \in Workers : Still(j, v) \/ Changes(w, j, v)
      BY Zenon, <1>0, <1>2, <1>3, StillMost
    <2>1. \A j \in Kinds, v \in Workers :
            (j = "claimed" /\ v = w) \/ (j = "todo" /\ v = w) \/ (j = "ready" /\ v = 0) \/ Still(j, v)
      BY Zenon, <1>1, <1>3, <2>0 DEF Changes
    <2>2. \A h \in Gids : /\ ~Has(h, "claimed", w)' /\ ~Has(h, "todo", w)'
                          /\ Has(h, "ready", 0)' <=> h \in Range(ready) \cup Range(b) \cup Range(t)
      BY Zenon, <1>0, <1>1, <1>4, <1>10, <1>11, HasIsNext
    <2>4. Rotate("claimed", w, "todo", w, "ready", 0)
      BY Zenon, <1>0, <1>5, <1>6, <2>1, <2>2 DEF Rotate
    <2> QED
      BY Zenon, <1>0, <2>4, Regroup
  <1> QED
    BY Zenon, <1>0, <1>1, <1>2, <1>3, <1>4, <1>11, <1>12, <1>13, <1>14, Assemble DEF Same

LEMMA PopSharedStep ==
    ASSUME Inv, NoLap, NEW w \in Workers, PopShared(w) PROVE Inv'
  <1> DEFINE g == Head(ready)
             rest == Tail(ready)
  <1>0. /\ TypeOK /\ Ctl /\ Single /\ Part /\ Control(w) /\ 0 \in Workers /\ Null \notin Gids
        /\ NoDup(ready) /\ NoDup(RingIds(w)) /\ NoDup(todo[w])
    BY Zenon, Basics
  <1>1. /\ pc'[w] = "run" /\ todo'[w] = todo[w] /\ running'[w] = g /\ next'[w] = next[w]
        /\ head' = head /\ tail' = tail /\ ring' = ring /\ ready' = rest
        /\ fresh' = fresh /\ finished' = finished /\ pc[w] = "seek" /\ ready # <<>>
    BY Zenon, <1>0 DEF PopShared, Goto, TypeOK, queueVars, taskVars
  <1>2. Others(w)
    BY Zenon, <1>0 DEF PopShared, Others, Goto, TypeOK, queueVars, taskVars
  <1>3. Evolves(w) /\ \A v \in Workers : Same(v)
    BY Zenon, <1>1, QuietRings
  <1>4. /\ g \in Gids /\ rest \in Seq(Gids) /\ Range(ready) = {g} \cup Range(rest)
        /\ NoDup(rest) /\ g \notin Range(rest)
    <2>1. ready \in Seq(Gids) /\ Len(ready) > 0
      BY <1>0, <1>1 DEF TypeOK
    <2> QED
      BY Zenon, <1>0, <2>1, SeqTail
  <1>5. TypeOK'
    BY Zenon, <1>0, <1>4 DEF PopShared, Goto, TypeOK, queueVars, taskVars
  <1>6. g # Null /\ running[w] = Null
    BY Zenon, <1>0, <1>1, <1>4 DEF Control
  <1>7. Control(w)'
    BY Zenon, <1>0, <1>1, <1>3, <1>6 DEF Control, Same
  <1>8. Copied(w)' /\ Claimed(w)' = Claimed(w) /\ Claimed(w) = <<>> /\ NoDup(Claimed(w)')
    BY Zenon, <1>0, <1>1, Basics DEF Copied, Claims, Claimed
  <1>9. Part'
    <2>0. \A j \in Kinds, v \in Workers : Still(j, v) \/ Changes(w, j, v)
      BY Zenon, <1>0, <1>2, <1>3, StillMost
    <2>1. \A j \in Kinds, v \in Workers : (j = "ready" /\ v = 0) \/ (j = "running" /\ v = w) \/ Still(j, v)
      BY Zenon, <1>1, <1>3, <1>8, <2>0 DEF Changes
    <2>2. \A h \in Gids : /\ Has(h, "ready", 0) <=> h \in {g} \cup Range(rest)
                          /\ ~Has(h, "running", w)
                          /\ Has(h, "ready", 0)' <=> h \in Range(rest)
                          /\ Has(h, "running", w)' <=> h = g
      BY ZenonT(40), <1>0, <1>1, <1>4, <1>6, HasIs, HasIsNext
    <2>3. "running" \in Kinds /\ "ready" \in Kinds /\ "ready" # "running"
      BY Zenon DEF Kinds
    <2>4. Swap("ready", 0, "running", w)
      BY Zenon, <1>0, <1>4, <2>1, <2>2, <2>3 DEF Swap
    <2> QED
      BY Zenon, <1>0, <2>4, Exchange
  <1> QED
    BY ZenonT(40), <1>0, <1>1, <1>2, <1>3, <1>4, <1>5, <1>7, <1>8, <1>9, Assemble DEF Same

LEMMA PopNextStep ==
    ASSUME Inv, NoLap, NEW w \in Workers, PopNext(w) PROVE Inv'
  <1> DEFINE g == next[w]
  <1>0. /\ TypeOK /\ Ctl /\ Single /\ Part /\ Control(w) /\ 0 \in Workers /\ Null \notin Gids
        /\ NoDup(ready) /\ NoDup(RingIds(w)) /\ NoDup(todo[w]) /\ g \in Gids \cup {Null}
    BY Zenon, Basics
  <1>1. /\ pc'[w] = IF g = Null THEN "pop" ELSE "run"
        /\ todo'[w] = todo[w] /\ running'[w] = g /\ next'[w] = Null
        /\ head' = head /\ tail' = tail /\ ring' = ring /\ ready' = ready
        /\ fresh' = fresh /\ finished' = finished /\ pc[w] = "seek"
    BY Zenon, <1>0 DEF PopNext, Goto, TypeOK, taskVars
  <1>2. Others(w)
    BY Zenon, <1>0 DEF PopNext, Others, Goto, TypeOK, taskVars
  <1>3. Evolves(w) /\ \A v \in Workers : Same(v)
    BY Zenon, <1>1, QuietRings
  <1>5. TypeOK'
    BY Zenon, <1>0 DEF PopNext, Goto, TypeOK, taskVars
  <1>6. running[w] = Null
    BY Zenon, <1>0, <1>1 DEF Control
  <1>7. Control(w)'
    BY Zenon, <1>0, <1>1, <1>3 DEF Control, Same
  <1>8. Copied(w)' /\ Claimed(w)' = Claimed(w) /\ Claimed(w) = <<>> /\ NoDup(Claimed(w)')
    BY Zenon, <1>0, <1>1, Basics DEF Copied, Claims, Claimed
  <1>9. Part'
    <2>0. \A j \in Kinds, v \in Workers : Still(j, v) \/ Changes(w, j, v)
      BY Zenon, <1>0, <1>2, <1>3, StillMost
    <2>1. \A j \in Kinds, v \in Workers : (j = "next" /\ v = w) \/ (j = "running" /\ v = w) \/ Still(j, v)
      BY Zenon, <1>1, <1>3, <1>8, <2>0 DEF Changes
    <2>2. \A h \in Gids : /\ Has(h, "next", w) <=> h = g
                          /\ ~Has(h, "running", w)
                          /\ ~Has(h, "next", w)'
                          /\ Has(h, "running", w)' <=> h = g
      BY Zenon, <1>0, <1>1, <1>6, HasIs, HasIsNext
    <2>3. "running" \in Kinds /\ "next" \in Kinds /\ "next" # "running"
      BY Zenon DEF Kinds
    <2>4. Swap("next", w, "running", w)
      BY Zenon, <2>1, <2>2, <2>3 DEF Swap
    <2> QED
      BY Zenon, <1>0, <2>4, Exchange
  <1> QED
    BY Zenon, <1>0, <1>1, <1>2, <1>3, <1>5, <1>7, <1>8, <1>9, Assemble DEF Same

LEMMA PopLoadStep ==
    ASSUME Inv, NoLap, NEW w \in Workers, PopLoad(w) PROVE Inv'
  <1> DEFINE n == IF head[w] = tail[w] THEN 0 ELSE 1
             s == Slice(w, head[w], n)
  <1>0. /\ TypeOK /\ Ctl /\ Control(w)
    BY Zenon, Basics
  <1>1. /\ next'[w] = next[w] /\ running'[w] = running[w] /\ todo'[w] = todo[w]
        /\ snap'[w] = Snap(head[w], n, 0, s)
        /\ head' = head /\ tail' = tail /\ ring' = ring /\ ready' = ready
        /\ fresh' = fresh /\ finished' = finished /\ pc[w] = "pop"
        /\ pc'[w] = IF head[w] = tail[w] THEN "refill" ELSE "popCas"
    BY Zenon, <1>0 DEF PopLoad, Goto, TypeOK, taskVars, queueVars
  <1>2. Others(w)
    BY Zenon, <1>0 DEF PopLoad, Others, Goto, TypeOK, taskVars, queueVars
  <1>3. Evolves(w) /\ \A v \in Workers : Same(v)
    BY Zenon, <1>1, QuietRings
  <1>4. /\ Size(w) \in Nat /\ (Size(w) = 0 <=> head[w] = tail[w])
    BY Zenon, <1>0, RingIsIds
  <1>5. /\ n \in 0..Size(w) /\ n \in 0..Capacity /\ n <= Size(w) /\ (head[w] # tail[w] => n = 1)
    BY <1>4, RunQueueAssumption
  <1>6. s \in Seq(Gids \cup {Null}) /\ Len(s) = n /\ \A i \in 1..n : s[i] = RingIds(w)[i]
    <2> HIDE DEF n
    <2> QED
      BY Zenon, <1>0, <1>5, PrefixFacts
  <1>7. snap'[w] \in Snaps /\ snap'[w].h = head[w] /\ snap'[w].take = n /\ snap'[w].batch = s
    <2>1. head[w] \in Indices /\ 0 \in Nat
      BY <1>0 DEF TypeOK, Indices
    <2> HIDE DEF n, s
    <2>2. /\ Snap(head[w], n, 0, s) \in Snaps
          /\ Snap(head[w], n, 0, s).h = head[w] /\ Snap(head[w], n, 0, s).take = n
          /\ Snap(head[w], n, 0, s).batch = s
      BY <1>5, <1>6, <2>1, SnapFacts
    <2> QED
      BY Zenon, <1>1, <2>2
  <1>8. TypeOK'
    BY Zenon, <1>0, <1>1, <1>7 DEF PopLoad, Goto, TypeOK, taskVars, queueVars, Snaps
  <1>9. Control(w)'
    BY Zenon, <1>0, <1>1, <1>3, <1>4 DEF Control, Same
  <1>10. Claimed(w)' = Claimed(w)
    BY Zenon, <1>1 DEF Claimed
  <1>11. Copied(w)'
    <2>1. CASE head[w] = tail[w]
      BY Zenon, <1>1, <2>1 DEF Copied, Claims
    <2>2. CASE head[w] # tail[w]
      <3>1. pc'[w] = "popCas" /\ Source(w)' = w /\ n = 1 /\ Size(w)' = Size(w) /\ RingIds(w)' = RingIds(w)
        BY Zenon, <1>1, <1>3, <1>5, <2>2 DEF Source, Same
      <3>2. 1 >= 1
        OBVIOUS
      <3> HIDE DEF n, s
      <3> QED
        BY Zenon, <1>5, <1>6, <1>7, <3>1, <3>2 DEF Copied
    <2> QED
      BY Zenon, <2>1, <2>2
  <1> QED
    BY Zenon, <1>1, <1>2, <1>3, <1>8, <1>9, <1>10, <1>11, Quiet

LEMMA PopCasStep ==
    ASSUME Inv, NoLap, NEW w \in Workers, PopCas(w) PROVE Inv'
  <1> DEFINE b == snap[w].batch
             g == b[1]
  <1>0. /\ TypeOK /\ Ctl /\ Single /\ Part /\ Control(w) /\ Copied(w) /\ NoDup(ready) /\ NoDup(RingIds(w))
        /\ NoDup(todo[w]) /\ NoDup(Claimed(w)) /\ Null \notin Gids
    BY Zenon, Basics
  <1>1. /\ next'[w] = next[w] /\ todo'[w] = todo[w]
        /\ tail' = tail /\ ring' = ring /\ ready' = ready
        /\ fresh' = fresh /\ finished' = finished /\ pc[w] = "popCas"
    BY Zenon, <1>0 DEF PopCas, Goto, TypeOK, taskVars
  <1>2. Others(w)
    BY Zenon, <1>0 DEF PopCas, Others, Goto, TypeOK, taskVars
  <1>3. /\ Claims(w) /\ pc[w] # "stealCopy" /\ Source(w) = w /\ Claimed(w) = <<>> /\ running[w] = Null
    BY Zenon, <1>0, <1>1 DEF Claims, Source, Claimed, Control
  <1>4. CASE head[w] # snap[w].h
    <2>1. head' = head /\ pc'[w] = "pop" /\ running'[w] = running[w]
      BY Zenon, <1>0, <1>4 DEF PopCas, Goto, TypeOK
    <2>2. Evolves(w) /\ \A v \in Workers : Same(v)
      BY Zenon, <1>1, <2>1, QuietRings
    <2>3. TypeOK'
      BY Zenon, <1>0, <1>4, NoSnapType DEF PopCas, Goto, TypeOK, taskVars, Snaps
    <2>4. Control(w)'
      BY Zenon, <1>0, <1>1, <2>1, <2>2 DEF Control, Same
    <2>5. Copied(w)' /\ Claimed(w)' = Claimed(w)
      BY Zenon, <1>3, <2>1 DEF Copied, Claims, Claimed
    <2> QED
      BY Zenon, <1>1, <1>2, <2>1, <2>2, <2>3, <2>4, <2>5, Quiet
  <1>5. CASE head[w] = snap[w].h
    <2>1. /\ head' = [head EXCEPT ![w] = Inc(@, snap[w].take)] /\ pc'[w] = "run" /\ running'[w] = g
          /\ snap[w].take = 1
      BY Zenon, <1>0, <1>3, <1>1, <1>5 DEF PopCas, Goto, TypeOK, Copied
    <2>2. Taken(w, b) /\ Evolves(w) /\ Len(b) = 1
      BY Zenon, <1>1, <1>3, <1>5, <2>1, ClaimTaken
    <2>3. \A v \in Workers : v # w => Same(v)
      BY Zenon, <2>2 DEF Taken
    <2>4. g \in Gids /\ Range(b) = {g}
      <3>1. b \in Seq(Gids)
        BY Zenon, <2>2 DEF Taken
      <3>2. Head(b) = g
        BY <2>2, <3>1
      <3>3. Head(b) \in Gids /\ Range(b) = {Head(b)}
        BY Zenon, <2>2, <3>1, SeqShort
      <3> QED
        BY Zenon, <3>2, <3>3
    <2>5. Range(RingIds(w)) = {g} \cup Range(RingIds(w)') /\ NoDup(RingIds(w)') /\ g \notin Range(RingIds(w)')
      BY Zenon, <2>2, <2>4 DEF Taken
    <2>7. TypeOK'
      BY ZenonT(40), <1>0, <2>2, <2>4, <1>5, NoSnapType DEF PopCas, Goto, TypeOK, taskVars, Taken, Snaps
    <2>8. Control(w)'
      BY Zenon, <1>0, <1>1, <2>1, <2>2, <2>4 DEF Control, Taken
    <2>9. Copied(w)' /\ Claimed(w)' = Claimed(w)
      BY Zenon, <1>3, <2>1 DEF Copied, Claims, Claimed
    <2>10. Part'
      <3>0. \A j \in Kinds, v \in Workers : Still(j, v) \/ Changes(w, j, v)
        BY Zenon, <1>0, <1>2, <2>2, StillMost
      <3>1. \A j \in Kinds, v \in Workers : (j = "ring" /\ v = w) \/ (j = "running" /\ v = w) \/ Still(j, v)
        BY Zenon, <1>1, <2>3, <2>9, <3>0 DEF Changes
      <3>2. \A h \in Gids : /\ Has(h, "ring", w) <=> h \in {g} \cup Range(RingIds(w)')
                            /\ ~Has(h, "running", w)
                            /\ Has(h, "ring", w)' <=> h \in Range(RingIds(w)')
                            /\ Has(h, "running", w)' <=> h = g
        <4>1. \A h \in Gids : /\ Has(h, "ring", w) <=> h \in Range(RingIds(w))
                              /\ Has(h, "running", w) <=> h = running[w]
                              /\ Has(h, "ring", w)' <=> h \in Range(RingIds(w)')
                              /\ Has(h, "running", w)' <=> h = running'[w]
          BY Zenon, HasIs, HasIsNext
        <4> QED
          BY Zenon, <1>0, <1>3, <2>1, <2>5, <4>1
      <3>3. "running" \in Kinds /\ "ring" \in Kinds /\ "ring" # "running"
        BY Zenon DEF Kinds
      <3>4. Swap("ring", w, "running", w)
        BY Zenon, <2>5, <3>1, <3>2, <3>3 DEF Swap
      <3> QED
        BY Zenon, <1>0, <3>4, Exchange
    <2> QED
      BY ZenonT(40), <1>0, <1>1, <1>2, <2>2, <2>5, <2>7, <2>8, <2>9, <2>10, Assemble
  <1> QED
    BY Zenon, <1>4, <1>5

LEMMA DivNat == ASSUME NEW m \in Nat \ {0}, NEW x \in Nat PROVE x \div m \in Nat
  <1> DEFINE q == x \div m
             r == x % m
  <1>1. x = m * q + r /\ q \in Int /\ r \in 0..(m-1)
    BY DivMod
  <1> HIDE DEF q, r
  <1>2. q >= 0
    BY Z3, <1>1
  <1> QED
    BY <1>1, <1>2 DEF q

LEMMA ShareFacts ==
    ASSUME ready \in Seq(Gids)
    PROVE  /\ Share \in 0..Len(ready) /\ Share <= Capacity /\ Len(ready) \in Nat /\ Share \in Nat
           /\ ready # <<>> => Share >= 1
           /\ ready = <<>> => SubSeq(ready, Share + 1, Len(ready)) = ready
  <1> DEFINE f == Len(ready) \div NumWorkers
             n == Len(ready)
  <1>1. n \in Nat /\ (n = 0 <=> ready = <<>>)
    OBVIOUS
  <1>2. f \in Nat
    BY <1>1, DivNat, RunQueueAssumption
  <1>3. Share = LET c == IF f + 1 > BatchCap THEN BatchCap ELSE f + 1 IN IF c > n THEN n ELSE c
    BY Zenon DEF Share
  <1> HIDE DEF f, n
  <1>4. Share \in 0..n /\ Share <= Capacity /\ Share \in Nat /\ (n # 0 => Share >= 1)
    BY <1>1, <1>2, <1>3, RunQueueAssumption
  <1>5. ready = <<>> => SubSeq(ready, Share + 1, Len(ready)) = ready
    <2>1. SUFFICES ASSUME ready = <<>> PROVE SubSeq(ready, Share + 1, Len(ready)) = ready
      OBVIOUS
    <2>2. Share = 0 /\ Len(ready) = 0
      BY <1>1, <1>4, <2>1
    <2> QED
      BY <2>1, <2>2
  <1> QED
    BY Zenon, <1>1, <1>4, <1>5 DEF n

\* The last of a batch, which is run, and the others, which are stocked.
LastOf(b, g, rest) ==
    /\ g \in Gids /\ rest \in Seq(Gids) /\ NoDup(rest)
    /\ Range(b) = {g} \cup Range(rest) /\ g \notin Range(rest)
    /\ Len(b) > 1 => Len(rest) > 0 /\ Len(rest) <= Capacity
    /\ ~(Len(b) > 1) => rest = <<>>

LEMMA LastFacts ==
    ASSUME NEW b \in Seq(Gids), Len(b) \in 1..Capacity, NoDup(b)
    PROVE  LastOf(b, b[Len(b)], SubSeq(b, 1, Len(b) - 1))
  <1> DEFINE g == b[Len(b)]
             f == SubSeq(b, 1, Len(b) - 1)
  <1>1. Len(b) \in Nat /\ Len(b) > 0 /\ Capacity \in Nat
    BY RunQueueAssumption
  <1>2. /\ g \in Gids /\ f \in Seq(Gids) /\ Len(f) = Len(b) - 1 /\ Range(b) = {g} \cup Range(f)
        /\ NoDup(f) /\ g \notin Range(f)
    BY <1>1, SeqLast
  <1> HIDE DEF f, g
  <1>3. /\ Len(b) > 1 => Len(f) > 0 /\ Len(f) <= Capacity
        /\ ~(Len(b) > 1) => f = <<>>
    BY <1>1, <1>2
  <1>4. LastOf(b, g, f)
    BY Zenon, <1>2, <1>3 DEF LastOf
  <1> QED
    BY Zenon, <1>4 DEF f, g

LEMMA StealHeadStep ==
    ASSUME Inv, NoLap, NEW w \in Workers, StealHead(w) PROVE Inv'
  <1> DEFINE S == Snap(head[Victim(w)], 0, snap[w].off, <<>>)
  <1>0. /\ TypeOK /\ Ctl /\ Control(w)
    BY Zenon, Basics
  <1>1. /\ next'[w] = next[w] /\ running'[w] = running[w] /\ todo'[w] = todo[w]
        /\ head' = head /\ tail' = tail /\ ring' = ring /\ ready' = ready
        /\ fresh' = fresh /\ finished' = finished /\ pc[w] = "steal"
        /\ pc'[w] = "stealTail" \/ pc'[w] = "seek"
    BY Zenon, <1>0 DEF StealHead, Goto, TypeOK, taskVars, queueVars
  <1>2. Others(w)
    BY Zenon, <1>0 DEF StealHead, Others, Goto, TypeOK, taskVars, queueVars
  <1>3. Evolves(w) /\ \A v \in Workers : Same(v)
    BY Zenon, <1>1, QuietRings
  <1>4. S \in Snaps
    <2>1. head[Victim(w)] \in Indices /\ snap[w].off \in Nat
      BY Zenon, <1>0, VictimType, WorkerTypes, RingIsIds
    <2>2. 0 \in 0..Capacity /\ <<>> \in Seq(Gids \cup {Null})
      BY RunQueueAssumption
    <2> QED
      BY Zenon, <2>1, <2>2, SnapFacts
  <1>5. TypeOK'
    <2>1. snap' = [snap EXCEPT ![w] = S] \/ snap' = [snap EXCEPT ![w] = NoSnap]
      BY Zenon DEF StealHead
    <2>2. snap' \in [Workers -> Snaps]
      BY Zenon, <1>0, <1>4, <2>1, NoSnapType DEF TypeOK, Snaps
    <2> QED
      BY Zenon, <1>0, <2>2 DEF StealHead, Goto, TypeOK, taskVars, queueVars, Snaps
  <1>6. Control(w)'
    BY Zenon, <1>0, <1>1, <1>3 DEF Control, Same
  <1>7. Copied(w)' /\ Claimed(w)' = Claimed(w)
    BY Zenon, <1>1 DEF Copied, Claims, Claimed
  <1> QED
    BY ZenonT(40), <1>1, <1>2, <1>3, <1>5, <1>6, <1>7, Quiet

LEMMA StealTailStep ==
    ASSUME Inv, NoLap, NEW w \in Workers, StealTail(w) PROVE Inv'
  <1>x. PICK x \in Workers : x = Victim(w)
    BY Zenon, Basics, VictimType
  <1> DEFINE h == snap[w].h
             m == Dist(tail[x], h)
             n == LargerHalf(m)
             off == snap[w].off
  <1>0. TypeOK /\ Ctl /\ Control(w) /\ h \in Indices /\ off \in Nat /\ tail[x] \in Indices
    BY Zenon, Basics, WorkerTypes, RingIsIds
  <1>1. /\ next'[w] = next[w] /\ running'[w] = running[w] /\ todo'[w] = todo[w]
        /\ head' = head /\ tail' = tail /\ ring' = ring /\ ready' = ready
        /\ fresh' = fresh /\ finished' = finished /\ pc[w] = "stealTail"
        /\ pc'[w] = "steal" \/ pc'[w] = "stealCopy"
    BY Zenon, <1>0 DEF StealTail, Goto, TypeOK, taskVars, queueVars
  <1>2. Others(w)
    BY Zenon, <1>0 DEF StealTail, Others, Goto, TypeOK, taskVars, queueVars
  <1>3. Evolves(w) /\ \A v \in Workers : Same(v)
    BY Zenon, <1>1, QuietRings
  <1>4. \/ snap' = [snap EXCEPT ![w] = Snap(h, 0, off + 1, <<>>)] /\ pc'[w] = "steal"
        \/ snap' = snap /\ pc'[w] = "steal"
        \/ /\ snap' = [snap EXCEPT ![w] = Snap(h, n, off, <<>>)] /\ pc'[w] = "stealCopy"
           /\ m \in 1..Capacity
    BY Zenon, <1>0, <1>x DEF StealTail, Goto, TypeOK
  <1>5. 0 \in 0..Capacity /\ <<>> \in Seq(Gids \cup {Null}) /\ off + 1 \in Nat
    BY <1>0, RunQueueAssumption
  <1>6. m \in 1..Capacity => n \in 0..Capacity /\ n >= 1 /\ n <= m /\ n > 0
    <2> HIDE DEF m
    <2>1. m \in 1..Capacity => m \in Nat /\ m > 0 /\ m <= Capacity
      BY RunQueueAssumption
    <2>2. m \in 1..Capacity => n \in 0..m /\ n \in Nat /\ n >= 1
      BY Zenon, <2>1, HalfFacts
    <2> HIDE DEF n
    <2> QED
      BY <2>1, <2>2, RunQueueAssumption
  <1> HIDE DEF h, n, off
  <1>7. Snap(h, 0, off + 1, <<>>) \in Snaps
    BY Zenon, <1>0, <1>5, SnapFacts
  <1>8. m \in 1..Capacity =>
          LET s == Snap(h, n, off, <<>>)
          IN s \in Snaps /\ s.h = h /\ s.take = n /\ s.off = off /\ s.batch = <<>>
    <2> HIDE DEF m
    <2> SUFFICES ASSUME m \in 1..Capacity
                 PROVE  LET s == Snap(h, n, off, <<>>)
                        IN s \in Snaps /\ s.h = h /\ s.take = n /\ s.off = off /\ s.batch = <<>>
      OBVIOUS
    <2>1. h \in Indices /\ n \in 0..Capacity /\ off \in Nat /\ <<>> \in Seq(Gids \cup {Null})
      BY Zenon, <1>0, <1>5, <1>6
    <2>2. IsSnap(Snap(h, n, off, <<>>), h, n, off, <<>>)
      BY Zenon, <2>1, SnapIs
    <2> QED
      BY Zenon, <2>2 DEF IsSnap
  <1>9. TypeOK'
    <2>1. snap' \in [Workers -> Snaps]
      BY Zenon, <1>0, <1>4, <1>7, <1>8 DEF TypeOK, Snaps
    <2> QED
      BY Zenon, <1>0, <2>1 DEF StealTail, Goto, TypeOK, taskVars, queueVars, Snaps
  <1>10. Control(w)'
    BY Zenon, <1>0, <1>1, <1>3 DEF Control, Same
  <1>11. Claimed(w)' = Claimed(w)
    BY Zenon, <1>1 DEF Claimed
  <1>12. Copied(w)'
    <2>1. CASE pc'[w] = "steal"
      BY Zenon, <2>1 DEF Copied, Claims
    <2>2. CASE pc'[w] = "stealCopy"
      <3>1. m \in 1..Capacity /\ snap'[w] = Snap(h, n, off, <<>>)
        BY Zenon, <1>0, <1>4, <2>2 DEF TypeOK
      <3>2. /\ snap'[w].h = h /\ snap'[w].take = n /\ snap'[w].off = off /\ snap'[w].batch = <<>>
            /\ n >= 1 /\ n <= m /\ n > 0
        BY Zenon, <1>6, <1>8, <3>1
      <3>3. Source(w)' = x
        BY Zenon, <1>x, <2>2, <3>2 DEF Source, Victim, off
      <3>4. head'[x] = h => m = Size(x)'
        BY Zenon, <1>0, <1>1 DEF Size
      <3>5. Len(<<>>) = 0 /\ ~(\E i \in 1..0 : TRUE) /\ 0 < n
        BY <1>6, <3>2
      <3>6. "stealCopy" # "popCas"
        OBVIOUS
      <3>7. 1..Len(<<>>) = {} /\ Len(<<>>) < n
        BY <3>5
      <3> HIDE DEF m
      <3> QED
        BY Zenon, <2>2, <3>2, <3>3, <3>4, <3>6, <3>7 DEF Copied
    <2> QED
      BY Zenon, <1>1, <2>1, <2>2
  <1> QED
    BY Zenon, <1>1, <1>2, <1>3, <1>9, <1>10, <1>11, <1>12, Quiet

LEMMA StealCopyStep ==
    ASSUME Inv, NoLap, NEW w \in Workers, StealCopy(w) PROVE Inv'
  <1>x. PICK x \in Workers : x = Victim(w)
    BY Zenon, Basics, VictimType
  <1> DEFINE h == snap[w].h
             n == snap[w].take
             off == snap[w].off
             b == snap[w].batch
             g == Slot(x, h + Len(b))
             c == Append(b, g)
  <1>0. /\ TypeOK /\ Ctl /\ Control(w) /\ Copied(w) /\ h \in Indices /\ n \in 0..Capacity /\ n \in Nat
        /\ off \in Nat /\ b \in Seq(Gids \cup {Null}) /\ Len(b) \in Nat
    BY Zenon, Basics, WorkerTypes
  <1>1. /\ next'[w] = next[w] /\ running'[w] = running[w] /\ todo'[w] = todo[w]
        /\ head' = head /\ tail' = tail /\ ring' = ring /\ ready' = ready
        /\ fresh' = fresh /\ finished' = finished /\ pc[w] = "stealCopy"
        /\ snap' = [snap EXCEPT ![w] = Snap(h, n, off, c)]
        /\ pc'[w] = IF Len(b) + 1 = n THEN "stealCas" ELSE "stealCopy"
    BY Zenon, <1>0, <1>x DEF StealCopy, Goto, TypeOK, taskVars, queueVars
  <1>2. Others(w)
    BY Zenon, <1>0 DEF StealCopy, Others, Goto, TypeOK, taskVars, queueVars
  <1>3. Evolves(w) /\ \A v \in Workers : Same(v)
    BY Zenon, <1>1, QuietRings
  <1>4. g \in Gids \cup {Null}
    <2> DEFINE k == Len(b)
               i == (h + k) % Capacity
    <2>1. h \in Nat /\ k \in Nat
      BY <1>0 DEF Indices
    <2> HIDE DEF h, k
    <2>2. i \in 0..(Capacity - 1)
      BY <2>1, RunQueueAssumption
    <2> HIDE DEF i
    <2>3. ring[x] \in [0..(Capacity - 1) -> Gids \cup {Null}]
      BY Zenon, <1>0 DEF TypeOK
    <2>4. ring[x][i] \in Gids \cup {Null}
      BY Zenon, <2>2, <2>3
    <2> QED
      BY Zenon, <2>4 DEF Slot, i, k
  <1>5. /\ c \in Seq(Gids \cup {Null}) /\ Len(c) = Len(b) + 1 /\ c[Len(b) + 1] = g
        /\ \A i \in 1..Len(b) : c[i] = b[i]
        /\ \A i \in 1..Len(c) : i \in 1..Len(b) \/ i = Len(b) + 1
    <2> HIDE DEF b, g
    <2> QED
      BY <1>0, <1>4
  <1>6. /\ snap'[w] \in Snaps /\ snap'[w].h = h /\ snap'[w].take = n /\ snap'[w].off = off
        /\ snap'[w].batch = c
    <2> HIDE DEF h, n, off, c
    <2>1. IsSnap(Snap(h, n, off, c), h, n, off, c)
      BY Zenon, <1>0, <1>5, SnapIs
    <2>2. snap'[w] = Snap(h, n, off, c)
      BY Zenon, <1>0, <1>1 DEF TypeOK
    <2> QED
      BY Zenon, <2>1, <2>2 DEF IsSnap
  <1>7. TypeOK'
    BY Zenon, <1>0, <1>6 DEF StealCopy, Goto, TypeOK, taskVars, queueVars, Snaps
  <1>8. Control(w)'
    BY Zenon, <1>0, <1>1, <1>3 DEF Control, Same
  <1>9. Claimed(w)' = Claimed(w)
    BY Zenon, <1>1 DEF Claimed
  <1>10. /\ Source(w)' = x /\ Source(w) = x
    BY Zenon, <1>x, <1>1, <1>6 DEF Source, Victim, off
  <1>11. /\ n >= 1 /\ Len(b) < n
         /\ head[x] = h => n <= Size(x) /\ \A i \in 1..Len(b) : b[i] = RingIds(x)[i]
    BY Zenon, <1>0, <1>1, <1>10 DEF Copied, Claims
  <1>12. head[x] = h => RingIds(x)[Len(b) + 1] = g
    <2> DEFINE m == Size(x)
               r == ring[x]
               k == head[x]
    <2>1. RingIds(x) = Ids(r, k, m) /\ m \in Nat /\ r \in Rings /\ k \in Indices
      BY Zenon, <1>0, RingIsIds
    <2>2. head[x] = h => Len(b) + 1 \in 1..m /\ k + (Len(b) + 1) - 1 = h + Len(b)
      BY <1>0, <1>11, <2>1 DEF Indices
    <2> HIDE DEF m, r, k
    <2>3. \A i \in 1..m : Ids(r, k, m)[i] = r[(k + i - 1) % Capacity]
      BY Zenon, <2>1, IdsType
    <2> QED
      BY Zenon, <2>1, <2>2, <2>3 DEF Slot, r
  <1>13. Copied(w)'
    <2>1. /\ head'[x] = head[x] /\ Size(x)' = Size(x) /\ RingIds(x)' = RingIds(x)
      BY Zenon, <1>1, <1>3 DEF Same
    <2>2. head[x] = h => n <= Size(x) /\ \A i \in 1..Len(c) : c[i] = RingIds(x)[i]
      BY Zenon, <1>5, <1>11, <1>12
    <2>3. CASE Len(b) + 1 = n
      BY ZenonT(40), <1>1, <1>5, <1>6, <1>10, <1>11, <2>1, <2>2, <2>3 DEF Copied
    <2>4. CASE Len(b) + 1 # n
      <3>1. Len(c) < n
        BY <1>0, <1>5, <1>11, <2>4
      <3> QED
        BY ZenonT(40), <1>1, <1>6, <1>10, <1>11, <2>1, <2>2, <2>4, <3>1 DEF Copied
    <2> QED
      BY Zenon, <2>3, <2>4
  <1> QED
    BY ZenonT(40), <1>1, <1>2, <1>3, <1>7, <1>8, <1>9, <1>13, Quiet

LEMMA StealCasStep ==
    ASSUME Inv, NoLap, NEW w \in Workers, StealCas(w) PROVE Inv'
  <1>x. PICK x \in Workers : x = Victim(w)
    BY Zenon, Basics, VictimType
  <1> DEFINE b == snap[w].batch
             g == b[Len(b)]
             rest == SubSeq(b, 1, Len(b) - 1)
  <1>0. /\ TypeOK /\ Ctl /\ Single /\ Part /\ Control(w) /\ NoDup(ready) /\ NoDup(RingIds(w))
        /\ NoDup(todo[w]) /\ NoDup(Claimed(w)) /\ Null \notin Gids /\ Range(<<>>) = {}
    BY Zenon, Basics
  <1>1. /\ next'[w] = next[w] /\ tail' = tail /\ ring' = ring /\ ready' = ready
        /\ fresh' = fresh /\ finished' = finished /\ pc[w] = "stealCas"
    BY Zenon, <1>0 DEF StealCas, TypeOK, taskVars
  <1>2. Others(w)
    <2>1. /\ tail' = tail /\ ring' = ring /\ next' = next
          /\ \/ /\ \E g1 : running' = [running EXCEPT ![w] = g1]
                /\ \E s1 : todo' = [todo EXCEPT ![w] = s1]
                /\ \E s2 : snap' = [snap EXCEPT ![w] = s2]
             \/ running' = running /\ todo' = todo /\ snap' = snap
          /\ \E l1 : pc' = [pc EXCEPT ![w] = l1]
      BY Zenon DEF StealCas, RunLast, Goto
    <2> QED
      BY ZenonT(40), <1>0, <2>1 DEF Others, TypeOK
  <1>3. /\ Claims(w) /\ pc[w] # "stealCopy" /\ Source(w) = x /\ Claimed(w) = <<>> /\ running[w] = Null
        /\ todo[w] = <<>> /\ Size(w) = 0
    BY Zenon, <1>0, <1>1, <1>x DEF Claims, Source, Claimed, Control
  <1>4. CASE head[x] # snap[w].h
    <2>1. head' = head /\ pc'[w] = "steal" /\ running' = running /\ todo' = todo /\ snap' = snap
      BY Zenon, <1>0, <1>x, <1>4 DEF StealCas, Goto, TypeOK
    <2>2. Evolves(w) /\ \A v \in Workers : Same(v)
      BY Zenon, <1>1, <2>1, QuietRings
    <2>3. TypeOK'
      BY Zenon, <1>0, <1>4, <1>x DEF StealCas, Goto, TypeOK, taskVars
    <2>4. Control(w)'
      BY Zenon, <1>0, <1>1, <2>1, <2>2 DEF Control, Same
    <2>5. Copied(w)' /\ Claimed(w)' = Claimed(w)
      BY Zenon, <1>3, <2>1 DEF Copied, Claims, Claimed
    <2> QED
      BY Zenon, <1>1, <1>2, <2>1, <2>2, <2>3, <2>4, <2>5, Quiet
  <1>5. CASE head[x] = snap[w].h
    <2>1. /\ head' = [head EXCEPT ![x] = Inc(@, snap[w].take)]
          /\ running' = [running EXCEPT ![w] = g] /\ todo' = [todo EXCEPT ![w] = rest]
          /\ pc' = [pc EXCEPT ![w] = IF Len(b) > 1 THEN "stock" ELSE "run"]
          /\ snap' = [snap EXCEPT ![w] = NoSnap]
      BY Zenon, <1>x, <1>5 DEF StealCas, RunLast, Goto
    <2>2. running'[w] = g /\ todo'[w] = rest /\ pc'[w] = IF Len(b) > 1 THEN "stock" ELSE "run"
      BY Zenon, <1>0, <2>1 DEF TypeOK
    <2>3. Taken(x, b) /\ Evolves(w) /\ Len(b) \in 1..Capacity
      BY Zenon, <1>1, <1>3, <1>5, <2>1, ClaimTaken
    <2>4. x # w /\ b \in Seq(Gids) /\ NoDup(b) /\ \A v \in Workers : v # x => Same(v)
      BY Zenon, <1>3, <2>3 DEF Taken
    <2> HIDE DEF b
    <2>5. LastOf(b, g, rest)
      BY Zenon, <2>3, <2>4, LastFacts
    <2> HIDE DEF g, rest
    <2>6. g \in Gids /\ rest \in Seq(Gids) /\ NoDup(rest)
      BY Zenon, <2>5 DEF LastOf
    <2>7. TypeOK'
      <3>1. head' \in [Workers -> 0..(IndexMod - 1)]
        BY Zenon, <2>3 DEF Taken
      <3>2. UNCHANGED <<tail, ring, next, ready, fresh, finished, yields>>
        BY Zenon DEF StealCas, taskVars
      <3> QED
        BY Zenon, <1>0, <2>1, <2>6, <3>1, <3>2, NoSnapType DEF TypeOK, Snaps
    <2>8. Control(w)'
      <3>1. Same(w) /\ Size(w)' = 0 /\ RingIds(w)' = RingIds(w)
        BY Zenon, <1>3, <2>4 DEF Same
      <3>2. Len(rest) <= Capacity => Size(w)' + Len(rest) <= Capacity
        BY <2>6, <3>1
      <3>3. /\ Len(b) > 1 => Len(rest) > 0 /\ Size(w)' + Len(rest) <= Capacity
            /\ ~(Len(b) > 1) => rest = <<>>
        BY Zenon, <2>5, <3>2 DEF LastOf
      <3>4. Size(w)' <= Capacity /\ RingIds(w)' \in Seq(Gids) /\ g # Null
        BY Zenon, <1>0, <1>3, <2>6, <3>1 DEF Control
      <3> QED
        BY Zenon, <2>2, <3>3, <3>4 DEF Control
    <2>9. Copied(w)' /\ Claimed(w)' = Claimed(w)
      BY Zenon, <1>3, <2>2 DEF Copied, Claims, Claimed
    <2>10. Part'
      <3>0. \A j \in Kinds, v \in Workers : Still(j, v) \/ Changes(w, j, v)
        BY Zenon, <1>0, <1>2, <2>3, StillMost
      <3>1. \A j \in Kinds, v \in Workers :
              (j = "ring" /\ v = x) \/ (j = "running" /\ v = w) \/ (j = "todo" /\ v = w) \/ Still(j, v)
        BY Zenon, <1>1, <2>4, <2>9, <3>0 DEF Changes
      <3>2. \A h \in Gids : /\ Has(h, "ring", x) <=> h \in Range(RingIds(x))
                            /\ Has(h, "running", w) <=> h = running[w]
                            /\ Has(h, "todo", w) <=> h \in Range(todo[w])
                            /\ Has(h, "ring", x)' <=> h \in Range(RingIds(x)')
                            /\ Has(h, "running", w)' <=> h = running'[w]
                            /\ Has(h, "todo", w)' <=> h \in Range(todo'[w])
        BY Zenon, HasIs, HasIsNext
      <3>3. \A h \in Gids : /\ Has(h, "ring", x) <=> h = g \/ h \in Range(rest) \/ h \in Range(RingIds(x)')
                            /\ ~Has(h, "running", w) /\ ~Has(h, "todo", w)
                            /\ Has(h, "ring", x)' <=> h \in Range(RingIds(x)')
                            /\ Has(h, "running", w)' <=> h = g
                            /\ Has(h, "todo", w)' <=> h \in Range(rest)
        BY Zenon, <1>0, <1>3, <2>2, <2>3, <2>5, <3>2 DEF Taken, LastOf
      <3>4. /\ g \notin Range(rest) /\ g \notin Range(RingIds(x)')
            /\ \A h \in Gids : ~(h \in Range(rest) /\ h \in Range(RingIds(x)'))
        BY Zenon, <2>3, <2>5 DEF Taken, LastOf
      <3>5. /\ "running" \in Kinds /\ "ring" \in Kinds /\ "todo" \in Kinds
            /\ "ring" # "running" /\ "ring" # "todo" /\ "running" # "todo"
        BY Zenon DEF Kinds
      <3>6. Rotate("ring", x, "running", w, "todo", w)
        BY Zenon, <3>1, <3>3, <3>4, <3>5 DEF Rotate
      <3> QED
        BY Zenon, <1>0, <3>6, Regroup
    <2>11. NoDup(ready') /\ NoDup(RingIds(w)') /\ NoDup(todo'[w]) /\ NoDup(Claimed(w)')
      BY Zenon, <1>0, <1>1, <2>2, <2>4, <2>6, <2>9 DEF Same
    <2> QED
      BY ZenonT(40), <1>2, <2>3, <2>7, <2>8, <2>9, <2>10, <2>11, Assemble
  <1> QED
    BY Zenon, <1>4, <1>5

LEMMA RefillStep ==
    ASSUME Inv, NoLap, NEW w \in Workers, RefillFromShared(w) PROVE Inv'
  <1> DEFINE n == Share
             b == SubSeq(ready, 1, n)
             left == SubSeq(ready, n + 1, Len(ready))
             g == b[Len(b)]
             rest == SubSeq(b, 1, Len(b) - 1)
  <1>0. /\ TypeOK /\ Ctl /\ Single /\ Part /\ Control(w) /\ NoDup(ready) /\ NoDup(RingIds(w))
        /\ NoDup(todo[w]) /\ NoDup(Claimed(w)) /\ Null \notin Gids /\ Range(<<>>) = {} /\ 0 \in Workers
    BY Zenon, Basics
  <1>1. /\ next'[w] = next[w] /\ tail' = tail /\ ring' = ring /\ head' = head /\ ready' = left
        /\ fresh' = fresh /\ finished' = finished /\ yields' = yields /\ next' = next /\ pc[w] = "refill"
        /\ ready \in Seq(Gids)
    BY Zenon, <1>0 DEF RefillFromShared, TypeOK, taskVars, queueVars
  <1>2. Evolves(w) /\ \A v \in Workers : Same(v)
    BY Zenon, <1>1, QuietRings
  <1>3. /\ n \in 0..Len(ready) /\ n <= Capacity /\ Len(ready) \in Nat /\ n \in Nat
        /\ ready # <<>> => n >= 1
        /\ ready = <<>> => left = ready
    BY Zenon, <1>1, ShareFacts
  <1>4. /\ Claimed(w) = <<>> /\ running[w] = Null /\ todo[w] = <<>> /\ Size(w) = 0
    BY Zenon, <1>0, <1>1 DEF Claimed, Control
  <1>5. CASE ready = <<>>
    <2>1. /\ pc' = [pc EXCEPT ![w] = "steal"] /\ running' = running /\ todo' = todo
          /\ snap' = [snap EXCEPT ![w] = Snap(0, 0, 1, <<>>)]
      BY Zenon, <1>5 DEF RefillFromShared, Goto
    <2>2. pc'[w] = "steal" /\ Others(w) /\ ready' = ready
      BY Zenon, <1>0, <1>1, <1>3, <1>5, <2>1 DEF TypeOK, Others
    <2>3. Snap(0, 0, 1, <<>>) \in Snaps
      <3>1. 0 \in Indices /\ 0 \in 0..Capacity /\ 1 \in Nat /\ <<>> \in Seq(Gids \cup {Null})
        BY RunQueueAssumption DEF Indices
      <3> QED
        BY Zenon, <3>1, SnapIs DEF IsSnap
    <2>4. TypeOK'
      BY Zenon, <1>0, <1>1, <2>1, <2>2, <2>3 DEF TypeOK, Snaps
    <2>5. Control(w)'
      BY Zenon, <1>0, <1>1, <1>2, <2>1, <2>2 DEF Control, Same
    <2>6. Copied(w)' /\ Claimed(w)' = Claimed(w)
      BY Zenon, <1>4, <2>2 DEF Copied, Claims, Claimed
    <2> QED
      BY Zenon, <1>1, <1>2, <2>1, <2>2, <2>4, <2>5, <2>6, Quiet
  <1>6. CASE ready # <<>>
    <2>1. /\ running' = [running EXCEPT ![w] = g] /\ todo' = [todo EXCEPT ![w] = rest]
          /\ pc' = [pc EXCEPT ![w] = IF Len(b) > 1 THEN "stock" ELSE "run"] /\ snap' = snap
      BY Zenon, <1>6 DEF RefillFromShared, RunLast, Goto
    <2>2. running'[w] = g /\ todo'[w] = rest /\ pc'[w] = IF Len(b) > 1 THEN "stock" ELSE "run"
      BY Zenon, <1>0, <2>1 DEF TypeOK
    <2>3. Others(w)
      BY Zenon, <1>0, <1>1, <2>1 DEF TypeOK, Others
    <2>4. /\ b \in Seq(Gids) /\ left \in Seq(Gids) /\ Len(b) = n /\ Range(ready) = Range(b) \cup Range(left)
          /\ NoDup(b) /\ NoDup(left) /\ Range(b) \cap Range(left) = {}
      <3> HIDE DEF n
      <3> QED
        BY <1>0, <1>1, <1>3, SeqCut
    <2>5. Len(b) \in 1..Capacity
      <3> HIDE DEF n, b
      <3> QED
        BY <1>3, <1>6, <2>4, RunQueueAssumption
    <2> HIDE DEF b, left
    <2>6. LastOf(b, g, rest)
      BY Zenon, <2>4, <2>5, LastFacts
    <2> HIDE DEF g, rest
    <2>7. g \in Gids /\ rest \in Seq(Gids) /\ NoDup(rest)
      BY Zenon, <2>6 DEF LastOf
    <2>8. TypeOK'
      BY Zenon, <1>0, <1>1, <2>1, <2>4, <2>7 DEF TypeOK
    <2>9. Control(w)'
      <3>1. Size(w)' = 0 /\ RingIds(w)' = RingIds(w)
        BY Zenon, <1>2, <1>4 DEF Same
      <3>2. Len(rest) <= Capacity => Size(w)' + Len(rest) <= Capacity
        BY <2>7, <3>1
      <3>3. /\ Len(b) > 1 => Len(rest) > 0 /\ Size(w)' + Len(rest) <= Capacity
            /\ ~(Len(b) > 1) => rest = <<>>
        BY Zenon, <2>6, <3>2 DEF LastOf
      <3>4. Size(w)' <= Capacity /\ RingIds(w)' \in Seq(Gids) /\ g # Null
        BY Zenon, <1>0, <1>4, <2>7, <3>1 DEF Control
      <3> QED
        BY Zenon, <2>2, <3>3, <3>4 DEF Control
    <2>10. Copied(w)' /\ Claimed(w)' = Claimed(w)
      BY Zenon, <1>4, <2>2 DEF Copied, Claims, Claimed
    <2>11. Part'
      <3>0. \A j \in Kinds, v \in Workers : Still(j, v) \/ Changes(w, j, v)
        BY Zenon, <1>0, <1>2, <2>3, StillMost
      <3>1. \A j \in Kinds, v \in Workers :
              (j = "ready" /\ v = 0) \/ (j = "running" /\ v = w) \/ (j = "todo" /\ v = w) \/ Still(j, v)
        BY Zenon, <1>1, <1>2, <2>10, <3>0 DEF Changes
      <3>2. \A h \in Gids : /\ Has(h, "ready", 0) <=> h \in Range(ready)
                            /\ Has(h, "running", w) <=> h = running[w]
                            /\ Has(h, "todo", w) <=> h \in Range(todo[w])
                            /\ Has(h, "ready", 0)' <=> h \in Range(ready')
                            /\ Has(h, "running", w)' <=> h = running'[w]
                            /\ Has(h, "todo", w)' <=> h \in Range(todo'[w])
        BY Zenon, HasIs, HasIsNext
      <3>3. \A h \in Gids : /\ Has(h, "ready", 0) <=> h = g \/ h \in Range(rest) \/ h \in Range(left)
                            /\ ~Has(h, "running", w) /\ ~Has(h, "todo", w)
                            /\ Has(h, "ready", 0)' <=> h \in Range(left)
                            /\ Has(h, "running", w)' <=> h = g
                            /\ Has(h, "todo", w)' <=> h \in Range(rest)
        BY Zenon, <1>0, <1>1, <1>4, <2>2, <2>4, <2>6, <3>2 DEF LastOf
      <3>4. /\ g \notin Range(rest) /\ g \notin Range(left)
            /\ \A h \in Gids : ~(h \in Range(rest) /\ h \in Range(left))
        BY Zenon, <2>4, <2>6 DEF LastOf
      <3>5. /\ "running" \in Kinds /\ "ready" \in Kinds /\ "todo" \in Kinds
            /\ "ready" # "running" /\ "ready" # "todo" /\ "running" # "todo"
        BY Zenon DEF Kinds
      <3>6. Rotate("ready", 0, "running", w, "todo", w)
        BY Zenon, <1>0, <3>1, <3>3, <3>4, <3>5 DEF Rotate
      <3> QED
        BY Zenon, <1>0, <3>6, Regroup
    <2>12. NoDup(ready') /\ NoDup(RingIds(w)') /\ NoDup(todo'[w]) /\ NoDup(Claimed(w)')
      BY Zenon, <1>0, <1>1, <1>2, <2>2, <2>4, <2>7, <2>10 DEF Same
    <2> QED
      BY Zenon, <1>2, <2>3, <2>8, <2>9, <2>10, <2>11, <2>12, Assemble
  <1> QED
    BY Zenon, <1>5, <1>6
-----------------------------------------------------------------------------
(* The invariant holds at the start and after every step. *)

LEMMA InitInv == Init => Inv
  <1> SUFFICES ASSUME Init PROVE Inv
    OBVIOUS
  <1>0. /\ Range(<<>>) = {} /\ NoDup(<<>>) /\ <<>> \in Seq(Gids) /\ 0 \in Workers /\ 0 \in 0..MaxYields
        /\ Null \notin Gids /\ Start \in 0..(IndexMod - 1) /\ 0 <= Capacity
    <2>1. 0 \in Workers /\ 0 \in 0..MaxYields /\ Null \notin Gids /\ Start \in 0..(IndexMod - 1) /\ 0 <= Capacity
      BY RunQueueAssumption DEF Workers
    <2> QED
      BY Zenon, <2>1, SeqShort
  <1>1. TypeOK
    BY Zenon, <1>0, NoSnapType DEF Init, TypeOK, Snaps
  <1>2. \A w \in Workers : RingIds(w) = <<>> /\ Size(w) = 0
    <2> TAKE w \in Workers
    <2>1. head[w] = tail[w]
      BY Zenon DEF Init
    <2>2. Size(w) = 0 /\ Len(RingIds(w)) = Size(w) /\ RingIds(w) \in Seq(Gids \cup {Null})
      BY Zenon, <1>1, <2>1, RingIsIds
    <2> QED
      BY <2>2
  <1>3. \A w \in Workers : /\ next[w] = Null /\ running[w] = Null /\ todo[w] = <<>> /\ pc[w] = "seek"
                           /\ Claimed(w) = <<>>
    BY Zenon DEF Init, Claimed
  <1>4. Ctl
    BY Zenon, <1>0, <1>2, <1>3 DEF Ctl, Control
  <1>5. Cpy
    BY Zenon, <1>3 DEF Cpy, Copied, Claims
  <1>6. Single
    BY Zenon, <1>0, <1>2, <1>3 DEF Init, Single
  <1>7. Part
    <2> SUFFICES ASSUME NEW g \in Gids
                 PROVE  \A j \in Kinds, v \in Workers : Has(g, j, v) <=> j = "fresh" /\ v = 0
      BY Zenon, <1>0 DEF Part, Home, Kinds
    <2> QED
      BY Zenon, <1>0, <1>2, <1>3 DEF Init, Has
  <1> QED
    BY Zenon, <1>1, <1>4, <1>5, <1>6, <1>7 DEF Inv

LEMMA StutterInv ==
    ASSUME Inv, UNCHANGED vars PROVE Inv'
  <1>1. /\ head' = head /\ tail' = tail /\ ring' = ring /\ next' = next /\ ready' = ready /\ pc' = pc
        /\ running' = running /\ todo' = todo /\ snap' = snap /\ fresh' = fresh /\ finished' = finished
        /\ yields' = yields
    BY Zenon DEF vars
  <1>2. 0 \in Workers
    BY RunQueueAssumption DEF Workers
  <1>3. TypeOK /\ Ctl /\ Control(0) /\ Copied(0)
    BY Zenon, <1>2, Basics
  <1>4. NoLap /\ Others(0) /\ Claimed(0)' = Claimed(0)
    BY Zenon, <1>1 DEF NoLap, Others, Claimed
  <1>5. Evolves(0) /\ \A v \in Workers : Same(v)
    BY Zenon, <1>1, <1>2, QuietRings
  <1>6. TypeOK'
    BY Zenon, <1>1, <1>3 DEF TypeOK
  <1>7. Control(0)'
    BY Zenon, <1>1, <1>2, <1>3, <1>5 DEF Control, Same
  <1>8. Copied(0)'
    BY Zenon, <1>1, <1>2, <1>3, <1>4, <1>5, CopiedKept
  <1> QED
    BY Zenon, <1>1, <1>2, <1>4, <1>5, <1>6, <1>7, <1>8, Quiet

LEMMA StepInv ==
    ASSUME Inv, NoLap, Next PROVE Inv'
  <1>1. ASSUME NEW g \in Gids, SpawnOutside(g) PROVE Inv'
    BY Zenon, <1>1, SpawnOutsideStep
  <1>2. ASSUME NEW w \in Workers, NEW g \in Gids, Spawn(w, g) PROVE Inv'
    BY Zenon, <1>2, SpawnStep
  <1>3. ASSUME NEW w \in Workers, Yield(w) \/ Finish(w) \/ PopShared(w) PROVE Inv'
    BY Zenon, <1>3, YieldStep, FinishStep, PopSharedStep
  <1>4. ASSUME NEW w \in Workers, QueueStep(w) PROVE Inv'
    BY ZenonT(40), <1>4, PushNextStep, PushCheckStep, PushStoreStep, PushPublishStep, TakeHalfLoadStep,
       TakeHalfCasStep, PushReadyBatchStep, PopNextStep, PopLoadStep, PopCasStep, RefillStep,
       StealHeadStep, StealTailStep, StealCopyStep, StealCasStep DEF QueueStep
  <1> QED
    BY Zenon, <1>1, <1>2, <1>3, <1>4 DEF Next

LEMMA Invariant == Spec /\ NoLaps => []Inv
  <1>1. Inv /\ [Next]_vars /\ [NoLap]_vars => Inv'
    BY Zenon, StutterInv, StepInv
  <1> QED
    BY InitInv, <1>1, PTL DEF Spec, NoLaps
-----------------------------------------------------------------------------
(* What the invariant says of the queues. *)

\* The producer of a ring never overtakes its consumers: whatever a push, a
\* pop, an overflow and any number of thieves do to the two indices
\* (runqueue.rs, push, pop, take_half, steal_into), a ring never counts more
\* ids than it has slots.
THEOREM NoOverrun == Spec /\ NoLaps => []RingNeverOverrun
  <1>1. Inv => RingNeverOverrun
    BY Zenon DEF Inv, Ctl, Control, Size, RingNeverOverrun
  <1> QED
    BY Invariant, <1>1, PTL

\* Whatever a worker brings home from the shared queue or from a peer fits in
\* its own ring, so the fallbacks to push_ready in steal_into and in
\* refill_from_shared are dead code.
THEOREM BroughtHomeFits == Spec /\ NoLaps => []StockFits
  <1>1. ASSUME Inv PROVE StockFits
    <2> SUFFICES ASSUME NEW w \in Workers
                 PROVE  /\ pc[w] \in {"refill", "steal", "stealTail", "stealCopy", "stealCas"}
                              => head[w] = tail[w]
                        /\ pc[w] = "stock" => ~RingFull(w)
      BY Zenon DEF StockFits
    <2>1. TypeOK /\ Control(w) /\ Len(todo[w]) \in Nat
      BY Zenon, <1>1, Basics
    <2>2. Size(w) \in Nat /\ (Size(w) = 0 <=> head[w] = tail[w]) /\ Capacity \in Nat
      BY Zenon, <2>1, RingIsIds, WorkerTypes
    <2>3. pc[w] = "stock" => Len(todo[w]) > 0 /\ Size(w) + Len(todo[w]) <= Capacity
      BY Zenon, <2>1 DEF Control
    <2>4. pc[w] = "stock" => ~(Size(w) >= Capacity)
      BY <2>1, <2>2, <2>3
    <2> QED
      BY Zenon, <2>1, <2>2, <2>4 DEF Control, RingFull, Size
  <1> QED
    BY Invariant, <1>1, PTL

\* p is the place of kind k of worker w where goroutine g is.
Place(g, k, w, p) ==
    \/ k = "ready" /\ w = 0 /\ \E i \in DOMAIN ready : ready[i] = g /\ p = <<"ready", i>>
    \/ k = "next" /\ next[w] = g /\ p = <<"next", w>>
    \/ k = "running" /\ running[w] = g /\ p = <<"running", w>>
    \/ k = "ring" /\ \E i \in DOMAIN RingIds(w) : RingIds(w)[i] = g /\ p = <<"ring", w, i>>
    \/ k = "todo" /\ \E i \in DOMAIN todo[w] : todo[w][i] = g /\ p = <<"todo", w, i>>
    \/ k = "claimed" /\ \E i \in DOMAIN Claimed(w) : Claimed(w)[i] = g /\ p = <<"claimed", w, i>>

LEMMA PlacePresence ==
    ASSUME TypeOK, 0 \in Workers, NEW g \in Gids, NEW p
    PROVE  p \in Presence(g) <=> \E k \in Kinds, w \in Workers : Place(g, k, w, p)
  <1>1. DOMAIN next = Workers /\ DOMAIN running = Workers
    BY Zenon DEF TypeOK
  <1>2. ASSUME p \in Presence(g) PROVE \E k \in Kinds, w \in Workers : Place(g, k, w, p)
    <2>0. /\ "ready" \in Kinds /\ "next" \in Kinds /\ "running" \in Kinds /\ "ring" \in Kinds
          /\ "todo" \in Kinds /\ "claimed" \in Kinds
      BY Zenon DEF Kinds
    <2>1. \/ \E i \in DOMAIN ready : ready[i] = g /\ p = <<"ready", i>>
          \/ \E w \in Workers : next[w] = g /\ p = <<"next", w>>
          \/ \E w \in Workers : running[w] = g /\ p = <<"running", w>>
          \/ \E w \in Workers :
                \/ \E i \in DOMAIN RingIds(w) : RingIds(w)[i] = g /\ p = <<"ring", w, i>>
                \/ \E i \in DOMAIN todo[w] : todo[w][i] = g /\ p = <<"todo", w, i>>
                \/ \E i \in DOMAIN Claimed(w) : Claimed(w)[i] = g /\ p = <<"claimed", w, i>>
      BY Zenon, <1>1, <1>2 DEF Presence, Positions
    <2>2. \A w \in Workers :
            /\ (\E i \in DOMAIN ready : ready[i] = g /\ p = <<"ready", i>>) => Place(g, "ready", 0, p)
            /\ next[w] = g /\ p = <<"next", w>> => Place(g, "next", w, p)
            /\ running[w] = g /\ p = <<"running", w>> => Place(g, "running", w, p)
            /\ (\E i \in DOMAIN RingIds(w) : RingIds(w)[i] = g /\ p = <<"ring", w, i>>) => Place(g, "ring", w, p)
            /\ (\E i \in DOMAIN todo[w] : todo[w][i] = g /\ p = <<"todo", w, i>>) => Place(g, "todo", w, p)
            /\ (\E i \in DOMAIN Claimed(w) : Claimed(w)[i] = g /\ p = <<"claimed", w, i>>)
                  => Place(g, "claimed", w, p)
      BY Zenon DEF Place
    <2> QED
      BY Zenon, <2>0, <2>1, <2>2
  <1>3. ASSUME NEW k \in Kinds, NEW w \in Workers, Place(g, k, w, p) PROVE p \in Presence(g)
    <2>1. CASE k = "ready" \/ k = "next" \/ k = "running"
      <3>1. \/ p \in {<<"ready", i>> : i \in Positions(ready, g)}
            \/ p \in {<<"next", v>> : v \in Positions(next, g)}
            \/ p \in {<<"running", v>> : v \in Positions(running, g)}
        BY Zenon, <1>1, <1>3, <2>1 DEF Place, Positions
      <3> QED
        BY Zenon, <3>1 DEF Presence
    <2>2. CASE k = "ring" \/ k = "todo" \/ k = "claimed"
      <3>1. \/ p \in {<<"ring", w, i>> : i \in Positions(RingIds(w), g)}
            \/ p \in {<<"todo", w, i>> : i \in Positions(todo[w], g)}
            \/ p \in {<<"claimed", w, i>> : i \in Positions(Claimed(w), g)}
        BY Zenon, <1>3, <2>2 DEF Place, Positions
      <3> DEFINE Own(v) == {<<"ring", v, i>> : i \in Positions(RingIds(v), g)}
                           \cup {<<"todo", v, i>> : i \in Positions(todo[v], g)}
                           \cup {<<"claimed", v, i>> : i \in Positions(Claimed(v), g)}
      <3>2. p \in Own(w)
        BY Zenon, <3>1
      <3>3. UNION {Own(v) : v \in Workers} \subseteq Presence(g)
        BY Zenon DEF Presence
      <3> HIDE DEF Own
      <3> QED
        BY Zenon, <3>2, <3>3
    <2>3. k \in {"ready", "next", "running", "ring", "todo", "claimed"}
      BY Zenon, <1>3 DEF Place
    <2> QED
      BY Zenon, <2>1, <2>2, <2>3
  <1> QED
    BY Zenon, <1>2, <1>3

LEMMA PlaceHas ==
    ASSUME NEW g \in Gids, NEW k \in Kinds, NEW w \in Workers
    PROVE  /\ \A p : Place(g, k, w, p) => Has(g, k, w) /\ k # "fresh" /\ k # "finished"
           /\ Has(g, k, w) /\ k # "fresh" /\ k # "finished" => \E p : Place(g, k, w, p)
  BY Zenon DEF Place, Has, Range

LEMMA PlaceUnique ==
    ASSUME Single, NEW g \in Gids, NEW k \in Kinds, NEW w \in Workers,
           NEW p, Place(g, k, w, p), NEW q, Place(g, k, w, q)
    PROVE  p = q
  <1>1. NoDup(ready) /\ NoDup(RingIds(w)) /\ NoDup(todo[w]) /\ NoDup(Claimed(w))
    BY Zenon DEF Single
  <1>2. CASE k = "ready"
    BY Zenon, <1>1, <1>2 DEF Place, NoDup
  <1>3. CASE k = "next"
    BY Zenon, <1>3 DEF Place
  <1>4. CASE k = "running"
    BY Zenon, <1>4 DEF Place
  <1>5. CASE k = "ring"
    BY Zenon, <1>1, <1>5 DEF Place, NoDup
  <1>6. CASE k = "todo"
    BY Zenon, <1>1, <1>6 DEF Place, NoDup
  <1>7. CASE k = "claimed"
    BY Zenon, <1>1, <1>7 DEF Place, NoDup
  <1>8. k \in {"ready", "next", "running", "ring", "todo", "claimed"}
    BY Zenon DEF Place
  <1> QED
    BY Zenon, <1>2, <1>3, <1>4, <1>5, <1>6, <1>7, <1>8

\* No goroutine is lost or duplicated: one that was made runnable and has not
\* finished is in exactly one place of the scheduler, through every race of
\* push, pop, steal and overflow (runqueue.rs) and every path of
\* make_runnable, pop_ready and steal_from_peers (scheduler.rs).
THEOREM OncePresent == Spec /\ NoLaps => []ExactlyOnce
  <1>1. ASSUME Inv PROVE ExactlyOnce
    <2> SUFFICES ASSUME NEW g \in Gids
                 PROVE  IF g \in fresh \cup finished THEN Presence(g) = {}
                        ELSE \E p \in Presence(g) : Presence(g) = {p}
      BY Zenon DEF ExactlyOnce
    <2>0. 0 \in Workers
      BY RunQueueAssumption DEF Workers
    <2>1. TypeOK /\ Single /\ Part /\ Home(g)
      BY Zenon, <1>1 DEF Inv, Part
    <2>2. PICK k \in Kinds, w \in Workers :
            \A j \in Kinds, v \in Workers : Has(g, j, v) <=> j = k /\ v = w
      BY Zenon, <2>1 DEF Home
    <2>3. \A p : p \in Presence(g) <=> Place(g, k, w, p)
      BY Zenon, <2>0, <2>1, <2>2, PlacePresence, PlaceHas
    <2>4. g \in fresh \cup finished <=> k = "fresh" \/ k = "finished"
      <3>1. "fresh" \in Kinds /\ "finished" \in Kinds
        BY Zenon DEF Kinds
      <3>2. /\ Has(g, "fresh", 0) <=> g \in fresh
            /\ Has(g, "finished", 0) <=> g \in finished
        BY Zenon, <2>0, HasIs
      <3>3. Has(g, k, w)
        BY Zenon, <2>2
      <3>4. k = "fresh" => g \in fresh
        BY Zenon, <3>3 DEF Has
      <3>5. k = "finished" => g \in finished
        BY Zenon, <3>3 DEF Has
      <3> QED
        BY Zenon, <2>0, <2>2, <3>1, <3>2, <3>4, <3>5
    <2>5. CASE k = "fresh" \/ k = "finished"
      <3>1. Presence(g) = {}
        BY Zenon, <2>3, <2>5, PlaceHas
      <3> QED
        BY Zenon, <2>4, <2>5, <3>1
    <2>6. CASE ~(k = "fresh" \/ k = "finished")
      <3>1. PICK p : Place(g, k, w, p)
        BY Zenon, <2>2, <2>6, PlaceHas
      <3>2. Presence(g) = {p}
        <4>1. \A q : Place(g, k, w, q) => q = p
          BY Zenon, <2>1, <3>1, PlaceUnique
        <4> QED
          BY Zenon, <2>3, <3>1, <4>1
      <3> QED
        BY Zenon, <2>4, <2>6, <3>2
    <2> QED
      BY Zenon, <2>5, <2>6
  <1> QED
    BY Invariant, <1>1, PTL
-----------------------------------------------------------------------------
(* The queues implement the abstract pool. *)

\* A goroutine is queued when it is neither fresh, nor finished, nor running.
QueuedOnly ==
    \A g : g \in Queued <=> /\ g \in Gids /\ g \notin fresh /\ g \notin finished
                            /\ \A w \in Workers : running[w] # g

LEMMA QueuedIs == Inv => QueuedOnly
  <1> SUFFICES ASSUME Inv PROVE QueuedOnly
    OBVIOUS
  <1>0. 0 \in Workers /\ Null \notin Gids
    BY RunQueueAssumption DEF Workers
  <1>1. TypeOK /\ Ctl /\ Part
    BY Zenon DEF Inv
  <1>2. \A g : g \in Queued <=> \/ g \in Range(ready)
                                \/ \E w \in Workers : next[w] = g /\ g # Null
                                \/ \E w \in Workers : \/ g \in Range(RingIds(w)) \/ g \in Range(todo[w])
                                                      \/ g \in Range(Claimed(w))
    <2>1. \A g : g \in Range(next) <=> \E w \in Workers : next[w] = g
      BY Zenon, <1>1 DEF Range, TypeOK
    <2>2. \A g : g \in Queued <=> \/ g \in Range(ready)
                                  \/ g \in Range(next) \ {Null}
                                  \/ g \in UNION {Range(RingIds(w)) \cup Range(todo[w]) \cup Range(Claimed(w))
                                                  : w \in Workers}
      BY Zenon DEF Queued
    <2>3. \A g : g \in UNION {Range(RingIds(w)) \cup Range(todo[w]) \cup Range(Claimed(w)) : w \in Workers}
                 <=> \E w \in Workers : \/ g \in Range(RingIds(w)) \/ g \in Range(todo[w])
                                        \/ g \in Range(Claimed(w))
      BY ZenonT(40)
    <2>4. \A g : g \in Range(next) \ {Null} <=> \E w \in Workers : next[w] = g /\ g # Null
      BY Zenon, <2>1
    <2> QED
      BY Zenon, <2>2, <2>3, <2>4
  <1>3. \A w \in Workers : /\ RingIds(w) \in Seq(Gids) /\ todo[w] \in Seq(Gids)
                           /\ Claimed(w) \in Seq(Gids) /\ ready \in Seq(Gids)
                           /\ next[w] \in Gids \cup {Null}
    <2> TAKE w \in Workers
    <2>1. <<>> \in Seq(Gids)
      OBVIOUS
    <2>2. todo[w] \in Seq(Gids) /\ ready \in Seq(Gids) /\ next[w] \in Gids \cup {Null}
      BY Zenon, <1>1 DEF TypeOK
    <2>3. RingIds(w) \in Seq(Gids)
      BY Zenon, <1>1 DEF Ctl, Control
    <2>4. Claimed(w) \in Seq(Gids)
      BY Zenon, <1>1, <2>1 DEF Claimed, Ctl, Control
    <2> QED
      BY Zenon, <2>2, <2>3, <2>4
  <1>4. \A g : g \in Queued => g \in Gids
    <2>1. \A w \in Workers : /\ Range(RingIds(w)) \subseteq Gids /\ Range(todo[w]) \subseteq Gids
                             /\ Range(Claimed(w)) \subseteq Gids /\ Range(ready) \subseteq Gids
      BY Zenon, <1>3, SeqRange
    <2> QED
      BY Zenon, <1>0, <1>2, <1>3, <2>1
  <1>5. ASSUME NEW g \in Gids
        PROVE  g \in Queued <=> \E w \in Workers : \/ Has(g, "ready", 0) \/ Has(g, "next", w)
                                                   \/ Has(g, "ring", w) \/ Has(g, "todo", w)
                                                   \/ Has(g, "claimed", w)
    BY Zenon, <1>0, <1>2, HasIs
  <1>6. ASSUME NEW g \in Gids
        PROVE  g \in Queued <=> /\ g \notin fresh /\ g \notin finished
                                /\ \A w \in Workers : running[w] # g
    <2>1. PICK k \in Kinds, w \in Workers :
            \A j \in Kinds, v \in Workers : Has(g, j, v) <=> j = k /\ v = w
      BY Zenon, <1>1 DEF Part, Home
    <2>2. /\ "fresh" \in Kinds /\ "finished" \in Kinds /\ "running" \in Kinds /\ "ready" \in Kinds
          /\ "next" \in Kinds /\ "ring" \in Kinds /\ "todo" \in Kinds /\ "claimed" \in Kinds
      BY Zenon DEF Kinds
    <2>3. \A v \in Workers : /\ Has(g, "fresh", 0) <=> g \in fresh
                             /\ Has(g, "finished", 0) <=> g \in finished
                             /\ Has(g, "running", v) <=> g = running[v]
      BY Zenon, HasIs
    <2>4. Has(g, k, w) /\ (k \in {"fresh", "finished", "ready"} => w = 0)
      BY Zenon, <2>1 DEF Has
    <2>5. CASE k \in {"fresh", "finished", "running"}
      BY Zenon, <1>0, <1>5, <2>1, <2>2, <2>3, <2>4, <2>5
    <2>6. CASE k \in {"ready", "next", "ring", "todo", "claimed"}
      BY Zenon, <1>0, <1>5, <2>1, <2>2, <2>3, <2>4, <2>6
    <2> QED
      BY Zenon, <2>5, <2>6 DEF Kinds
  <1> QED
    BY Zenon, <1>4, <1>6 DEF QueuedOnly

\* What a step does to the state the pool shows.
Hidden == fresh' = fresh /\ finished' = finished /\ running' = running
Submitted(g) == g \in fresh /\ fresh' = fresh \ {g} /\ finished' = finished /\ running' = running
Dispatched(w) ==
    /\ fresh' = fresh /\ finished' = finished /\ running[w] = Null
    /\ \E g : running' = [running EXCEPT ![w] = g]
Returned(w) ==
    /\ fresh' = fresh /\ finished' = finished /\ running[w] # Null
    /\ running' = [running EXCEPT ![w] = Null]
Ended(w) ==
    /\ fresh' = fresh /\ finished' = finished \cup {running[w]} /\ running[w] # Null
    /\ running' = [running EXCEPT ![w] = Null]

LEMMA Visible ==
    ASSUME Inv, Next
    PROVE  \/ Hidden \/ \E g \in Gids : Submitted(g)
           \/ \E w \in Workers : Dispatched(w) \/ Returned(w) \/ Ended(w)
  <1>1. ASSUME NEW w \in Workers, \E g \in Gids : Spawn(w, g) PROVE \E g \in Gids : Submitted(g)
    BY Zenon, <1>1 DEF Spawn, Submitted
  <1>2. ASSUME NEW g \in Gids, SpawnOutside(g) PROVE Submitted(g)
    BY Zenon, <1>2 DEF SpawnOutside, Submitted
  <1>3. ASSUME NEW w \in Workers, pc[w] = "run" PROVE running[w] # Null
    BY Zenon, <1>3, Basics DEF Control
  <1>4. ASSUME NEW w \in Workers, pc[w] \in {"seek", "popCas", "refill", "stealCas"} PROVE running[w] = Null
    BY Zenon, <1>4, Basics DEF Control
  <1>5. ASSUME NEW w \in Workers, Yield(w) PROVE Returned(w)
    BY Zenon, <1>3, <1>5 DEF Yield, Returned
  <1>6. ASSUME NEW w \in Workers, Finish(w) PROVE Ended(w)
    BY Zenon, <1>3, <1>6 DEF Finish, Ended
  <1>7. ASSUME NEW w \in Workers, PopShared(w) \/ PopNext(w) PROVE Dispatched(w)
    BY Zenon, <1>4, <1>7 DEF PopShared, PopNext, Dispatched, taskVars
  <1>8. ASSUME NEW w \in Workers, PopCas(w) PROVE Dispatched(w) \/ Hidden
    BY Zenon, <1>4, <1>8 DEF PopCas, Dispatched, Hidden, taskVars
  <1>9. ASSUME NEW w \in Workers, RefillFromShared(w) PROVE Dispatched(w) \/ Hidden
    BY Zenon, <1>4, <1>9 DEF RefillFromShared, RunLast, Dispatched, Hidden, taskVars
  <1>10. ASSUME NEW w \in Workers, StealCas(w) PROVE Dispatched(w) \/ Hidden
    BY Zenon, <1>4, <1>10 DEF StealCas, RunLast, Dispatched, Hidden, taskVars
  <1>11. ASSUME NEW w \in Workers, PushNext(w) \/ PushCheck(w) \/ PushStore(w) \/ PushPublish(w)
         PROVE  Hidden
    BY Zenon, <1>11 DEF PushNext, PushCheck, PushStore, PushPublish, Hidden, taskVars
  <1>12. ASSUME NEW w \in Workers, TakeHalfLoad(w) \/ TakeHalfCas(w) \/ PushReadyBatch(w) \/ PopLoad(w)
         PROVE  Hidden
    BY Zenon, <1>12 DEF TakeHalfLoad, TakeHalfCas, PushReadyBatch, PopLoad, Hidden, taskVars
  <1>13. ASSUME NEW w \in Workers, StealHead(w) \/ StealTail(w) \/ StealCopy(w) PROVE Hidden
    BY Zenon, <1>13 DEF StealHead, StealTail, StealCopy, Hidden, taskVars
  <1>14. ASSUME NEW w \in Workers, QueueStep(w) PROVE Dispatched(w) \/ Hidden
    BY Zenon, <1>7, <1>8, <1>9, <1>10, <1>11, <1>12, <1>13, <1>14 DEF QueueStep
  <1> QED
    BY Zenon, <1>1, <1>2, <1>5, <1>6, <1>7, <1>14 DEF Next

\* Where the running goroutines are, before and after the step.
RunningOnce ==
    /\ running \in [Workers -> Gids \cup {Null}]
    /\ \A w, v \in Workers : running[w] = running[v] /\ running[w] # Null => w = v
    /\ \A w \in Workers : running[w] \notin fresh /\ running[w] \notin finished
    /\ fresh \subseteq Gids /\ finished \subseteq Gids /\ fresh \cap finished = {}

LEMMA RunningFacts == Inv => RunningOnce
  <1> SUFFICES ASSUME Inv PROVE RunningOnce
    OBVIOUS
  <1>0. 0 \in Workers /\ Null \notin Gids
    BY RunQueueAssumption DEF Workers
  <1>1. TypeOK /\ Part
    BY Zenon DEF Inv
  <1>2. "fresh" \in Kinds /\ "finished" \in Kinds /\ "running" \in Kinds
    BY Zenon DEF Kinds
  <1>3. running \in [Workers -> Gids \cup {Null}] /\ \A w \in Workers : running[w] \in Gids \cup {Null}
    BY Zenon, <1>1 DEF TypeOK
  <1>4. fresh \subseteq Gids /\ finished \subseteq Gids
    BY Zenon, <1>1 DEF TypeOK
  <1>5. ASSUME NEW g \in Gids
        PROVE  /\ \A w, v \in Workers : running[w] = g /\ running[v] = g => w = v
               /\ \A w \in Workers : running[w] = g => g \notin fresh /\ g \notin finished
               /\ ~(g \in fresh /\ g \in finished)
    <2>1. \A v \in Workers : /\ Has(g, "fresh", 0) <=> g \in fresh
                             /\ Has(g, "finished", 0) <=> g \in finished
                             /\ Has(g, "running", v) <=> g = running[v]
      BY Zenon, HasIs
    <2> QED
      BY ZenonT(40), <1>0, <1>1, <1>2, <2>1, OneHome
  <1> QED
    BY Zenon, <1>0, <1>3, <1>4, <1>5 DEF RunningOnce

LEMMA SeenNext == Inv' => QueuedOnly' /\ RunningOnce'
  BY QueuedIs, RunningFacts, PTL

PoolSteps == Pool!PoolNext \/ UNCHANGED <<Queued, running, finished>>

LEMMA HiddenPool ==
    ASSUME QueuedOnly, QueuedOnly', Hidden PROVE PoolSteps
  <1>1. Queued' = Queued
    BY Zenon DEF Hidden, QueuedOnly
  <1> QED
    BY Zenon, <1>1 DEF Hidden, PoolSteps

LEMMA SubmittedPool ==
    ASSUME QueuedOnly, QueuedOnly', RunningOnce, NEW g \in Gids, Submitted(g) PROVE PoolSteps
  <1>0. g \in fresh
    BY Zenon DEF Submitted
  <1>1. g \notin Queued /\ g \notin finished /\ \A w \in Workers : running[w] # g
    <2>1. g \notin Queued
      BY Zenon, <1>0 DEF QueuedOnly
    <2>2. \A w \in Workers : running[w] # g
      BY Zenon, <1>0 DEF RunningOnce
    <2>3. fresh \cap finished = {}
      BY Zenon DEF RunningOnce
    <2> QED
      BY Zenon, <1>0, <2>1, <2>2, <2>3
  <1>2. Queued' = Queued \cup {g}
    BY Zenon, <1>1 DEF Submitted, QueuedOnly
  <1>3. Pool!Submit(g)
    BY Zenon, <1>1, <1>2 DEF Submitted, Pool!Submit, Pool!IsRunning
  <1> QED
    BY Zenon, <1>3 DEF Pool!PoolNext, PoolSteps

LEMMA DispatchedPool ==
    ASSUME QueuedOnly, QueuedOnly', RunningOnce, RunningOnce', NEW w \in Workers, Dispatched(w)
    PROVE  PoolSteps
  <1>0. Null \notin Gids
    BY Zenon, RunQueueAssumption
  <1>1. PICK g : running' = [running EXCEPT ![w] = g]
    BY Zenon DEF Dispatched
  <1>2. running'[w] = g /\ \A v \in Workers : v # w => running'[v] = running[v]
    BY Zenon, <1>1 DEF RunningOnce
  <1>3. /\ fresh' = fresh /\ finished' = finished /\ running[w] = Null
    BY Zenon DEF Dispatched
  <1>4. CASE g = Null
    <2>1. running \in [Workers -> Gids \cup {Null}]
      BY Zenon DEF RunningOnce
    <2>2. running' = running
      BY <1>1, <1>3, <1>4, <2>1
    <2> QED
      BY Zenon, <1>3, <2>2, HiddenPool DEF Hidden
  <1>5. CASE g # Null
    <2>1. g \in Gids /\ g \notin fresh /\ g \notin finished /\ \A v \in Workers : running'[v] = g => v = w
      BY Zenon, <1>2, <1>3, <1>5 DEF RunningOnce
    <2>2. g \in Queued
      BY Zenon, <1>0, <1>2, <1>3, <2>1 DEF QueuedOnly
    <2>3. \A h \in Gids : (\A v \in Workers : running'[v] # h) <=> h # g /\ \A v \in Workers : running[v] # h
      BY Zenon, <1>0, <1>2, <1>3
    <2>4. Queued' = Queued \ {g}
      <3>1. \A h : h \in Queued' <=> h \in Queued /\ h # g
        BY Zenon, <1>3, <2>3 DEF QueuedOnly
      <3> QED
        BY Zenon, <3>1
    <2>5. Pool!Take(w, g)
      BY Zenon, <1>1, <1>3, <2>2, <2>4 DEF Pool!Take
    <2> QED
      BY Zenon, <2>1, <2>5 DEF Pool!PoolNext, PoolSteps
  <1> QED
    BY Zenon, <1>4, <1>5

LEMMA ReturnedPool ==
    ASSUME QueuedOnly, QueuedOnly', RunningOnce, RunningOnce', NEW w \in Workers,
           Returned(w) \/ Ended(w)
    PROVE  PoolSteps
  <1> DEFINE g == running[w]
  <1>0. Null \notin Gids
    BY Zenon, RunQueueAssumption
  <1>1. /\ running' = [running EXCEPT ![w] = Null] /\ g # Null /\ fresh' = fresh
        /\ (Returned(w) => finished' = finished) /\ (Ended(w) => finished' = finished \cup {g})
    BY Zenon DEF Returned, Ended
  <1>2. running'[w] = Null /\ \A v \in Workers : v # w => running'[v] = running[v]
    BY Zenon, <1>1 DEF RunningOnce
  <1>3. g \in Gids /\ g \notin fresh /\ g \notin finished /\ \A v \in Workers : running[v] = g => v = w
    BY Zenon, <1>1 DEF RunningOnce
  <1>4. \A h \in Gids : (\A v \in Workers : running'[v] # h) <=> h = g \/ \A v \in Workers : running[v] # h
    BY Zenon, <1>0, <1>2, <1>3
  <1>5. CASE Returned(w)
    <2>1. Queued' = Queued \cup {g}
      <3>0. finished' = finished /\ fresh' = fresh
        BY Zenon, <1>1, <1>5
      <3>1. ASSUME NEW h PROVE h \in Queued' <=> h \in Queued \/ h = g
        <4>1. h \in Queued <=> /\ h \in Gids /\ h \notin fresh /\ h \notin finished
                               /\ \A v \in Workers : running[v] # h
          BY Zenon DEF QueuedOnly
        <4>2. h \in Queued' <=> /\ h \in Gids /\ h \notin fresh /\ h \notin finished
                                /\ \A v \in Workers : running'[v] # h
          BY Zenon, <3>0 DEF QueuedOnly
        <4> QED
          BY Zenon, <1>3, <1>4, <4>1, <4>2
      <3> QED
        BY Zenon, <3>1
    <2>2. Pool!GiveBack(w)
      BY Zenon, <1>1, <1>5, <2>1 DEF Pool!GiveBack
    <2> QED
      BY Zenon, <2>2 DEF Pool!PoolNext, PoolSteps
  <1>6. CASE Ended(w)
    <2>1. Queued' = Queued
      <3>0. fresh' = fresh /\ \A h : h \in finished' <=> h \in finished \/ h = g
        BY Zenon, <1>1, <1>6
      <3>1. g \notin Queued
        BY Zenon DEF QueuedOnly
      <3>2. \A h : h \in Queued' <=> h \in Queued
        BY Zenon, <1>3, <1>4, <3>0, <3>1 DEF QueuedOnly
      <3> QED
        BY Zenon, <3>2
    <2>2. Pool!Complete(w)
      BY Zenon, <1>1, <1>6, <2>1 DEF Pool!Complete
    <2> QED
      BY Zenon, <2>2 DEF Pool!PoolNext, PoolSteps
  <1> QED
    BY Zenon, <1>5, <1>6

\* The queues implement the pool of WorkPool.tla: every step of the rings, of
\* the LIFO slots and of the shared queue is the submission, the hand-over,
\* the return or the completion of one goroutine, or cannot be observed.
THEOREM QueuesImplementPool == Spec /\ NoLaps => ImplementsPool
  <1>1. ASSUME Init PROVE Pool!PoolInit
    <2>1. QueuedOnly
      BY Zenon, <1>1, InitInv, QueuedIs
    <2>2. Queued = {}
      BY Zenon, <1>1, <2>1 DEF QueuedOnly, Init
    <2> QED
      BY Zenon, <1>1, <2>2 DEF Init, Pool!PoolInit
  <1>2. ASSUME Inv, Inv', [Next]_vars PROVE [Pool!PoolNext]_(Pool!poolVars)
    <2>1. QueuedOnly /\ RunningOnce /\ QueuedOnly' /\ RunningOnce'
      BY Zenon, <1>2, QueuedIs, RunningFacts, SeenNext
    <2>2. CASE Next
      <3>1. PoolSteps
        BY ZenonT(40), <1>2, <2>1, <2>2, Visible, HiddenPool, SubmittedPool, DispatchedPool, ReturnedPool
      <3> QED
        BY Zenon, <3>1 DEF PoolSteps, Pool!poolVars
    <2>3. CASE UNCHANGED vars
      <3>1. PoolSteps
        BY Zenon, <2>1, <2>3, HiddenPool DEF vars, Hidden
      <3>2. CASE Pool!PoolNext
        BY Zenon, <3>2
      <3>3. CASE UNCHANGED <<Queued, running, finished>>
        BY Zenon, <3>3 DEF Pool!poolVars
      <3> QED
        BY Zenon, <3>1, <3>2, <3>3 DEF PoolSteps
    <2> QED
      BY Zenon, <1>2, <2>2, <2>3
  <1> QED
    BY Invariant, <1>1, <1>2, PTL DEF Spec, ImplementsPool, Pool!PoolSpec
=============================================================================
