-------------------------- MODULE IdleWorkersProof --------------------------
(***************************************************************************)
(* IDLE_STATE of IdleWorkers.tla counts the searching and the unparked     *)
(* workers exactly, and a wake-up is lost only in the gap before a wait,   *)
(* for any number of workers, goroutines and outside threads.              *)
(***************************************************************************)
EXTENDS IdleWorkers, FiniteSetTheorems, TLAPS

LEMMA DivMod == ASSUME NEW m \in Nat \ {0}, NEW x \in Int
                PROVE x = m * (x \div m) + (x % m) /\ x \div m \in Int /\ x % m \in 0..(m-1)
  BY Z3
LEMMA Unique == ASSUME NEW m \in Nat \ {0}, NEW q \in Int, NEW p \in Int, NEW r \in 0..(m-1), NEW s \in 0..(m-1),
                       m * q + r = m * p + s
                PROVE q = p /\ r = s
  BY Z3
LEMMA Split == ASSUME NEW m \in Nat \ {0}, NEW q \in Int, NEW r \in 0..(m-1), NEW x \in Int, x = m * q + r
               PROVE x % m = r /\ x \div m = q
  <1> DEFINE p == x \div m
             s == x % m
  <1>1. x = m * p + s /\ p \in Int /\ s \in 0..(m-1) BY ZenonT(60), DivMod
  <1> HIDE DEF p, s
  <1>2. m * q + r = m * p + s BY <1>1
  <1>3. q = p /\ r = s BY ZenonT(40), <1>1, <1>2, Unique
  <1> QED BY <1>3 DEF p, s
\* An amount added to a wrapped number wraps like one added to the number.
LEMMA Wrapped == ASSUME NEW m \in Nat \ {0}, NEW x \in Int, NEW n \in Int, NEW k \in Int
                 PROVE ((x % m) + (m * k + n)) % m = (x + n) % m
  <1> DEFINE p == x \div m
             s == x % m
             y == x + n
             q == y \div m
             r == y % m
             z == s + (m * k + n)
             d == q - p + k
  <1>1. x = m * p + s /\ p \in Int /\ s \in 0..(m-1) BY DivMod
  <1>2. y \in Int /\ y = x + n OBVIOUS
  <1> HIDE DEF y
  <1>3. y = m * q + r /\ q \in Int /\ r \in 0..(m-1) BY ZenonT(60), <1>2, DivMod
  <1> HIDE DEF p, s, q, r
  <1>4. z = m * d + r /\ z \in Int /\ d \in Int BY <1>1, <1>2, <1>3
  <1> HIDE DEF z, d
  <1>5. z % m = r BY <1>3, <1>4, Split
  <1> QED BY <1>2, <1>5 DEF r, s, z

-----------------------------------------------------------------------------
(* What a thread adds to IDLE_STATE at each place of the code.              *)

Pcs == {"start", "top", "pop", "refill", "steal", "run", "idle", "spin", "found", "nothing", "recheck",
        "park", "loop", "gap", "wait", "rise", "exited", "check", "count", "uncount", "joined"}
DownPcs == {"start", "exited", "loop", "gap", "wait", "rise"}
SearchPcs == {"spin", "found", "nothing"}
CountPcs == {"gap", "wait", "uncount"}

Weight(t, p) ==
    IF t \in Workers THEN IF p \in DownPcs THEN 0 ELSE IF p \in SearchPcs THEN Unit + 1 ELSE Unit
                     ELSE IF p \in CountPcs THEN -Unit ELSE 0

Movers == Workers \cup Joiners
PcType == pc \in [Movers -> Pcs]

\* The threads of a finite set that are at one of the places P.
AtPlace(f, T, P) == {t \in T : f[t] \in P}
Bits(t, T, p, P) == IF t \in T /\ p \in P THEN 1 ELSE 0

\* The number of threads at P changes by thread t alone.
Shifts(f, e, T, P, t, p) ==
    /\ Cardinality(AtPlace(f, T, P)) \in Nat
    /\ Cardinality(AtPlace(e, T, P)) =
         Cardinality(AtPlace(f, T, P)) + Bits(t, T, p, P) - Bits(t, T, f[t], P)

LEMMA OneMoves ==
    ASSUME NEW f \in [Movers -> Pcs], NEW T \in SUBSET Movers, IsFiniteSet(T),
           NEW P, NEW t \in Movers, NEW p \in Pcs,
           NEW e \in [Movers -> Pcs], e = [f EXCEPT ![t] = p]
    PROVE  Shifts(f, e, T, P, t, p)
  <1> DEFINE S == AtPlace(f, T, P)
             S2 == AtPlace(e, T, P)
  <1>1. IsFiniteSet(S) /\ S \subseteq T BY FS_Subset DEF AtPlace
  <1>2. Cardinality(S) \in Nat BY <1>1, FS_CardinalityType
  <1>3. \A u \in Movers : e[u] = IF u = t THEN p ELSE f[u] OBVIOUS
  <1>4. t \in S <=> t \in T /\ f[t] \in P BY DEF AtPlace
  <1>5. \A u : u \in S2 <=> u \in T /\ (IF u = t THEN p ELSE f[u]) \in P BY <1>3 DEF AtPlace
  <1>6. \A u : u \in S <=> u \in T /\ f[u] \in P BY DEF AtPlace
  <1> HIDE DEF S, S2
  <1> DEFINE Goal == Cardinality(S2) = Cardinality(S) + Bits(t, T, p, P) - Bits(t, T, f[t], P)
  <1>7. ASSUME t \in T /\ p \in P PROVE Goal
    <2>1. S2 = S \cup {t} BY <1>5, <1>6, <1>7
    <2>2. Cardinality(S2) = IF t \in S THEN Cardinality(S) ELSE Cardinality(S) + 1
      BY Zenon, <1>1, <2>1, FS_AddElement
    <2>3. Bits(t, T, p, P) = 1 /\ Bits(t, T, f[t], P) = IF t \in S THEN 1 ELSE 0 BY Zenon, <1>4, <1>7 DEF Bits
    <2> QED BY <1>2, <2>2, <2>3
  <1>8. ASSUME ~(t \in T /\ p \in P) PROVE Goal
    <2>1. S2 = S \ {t} BY <1>5, <1>6, <1>8
    <2>2. Cardinality(S2) = IF t \in S THEN Cardinality(S) - 1 ELSE Cardinality(S)
      BY Zenon, <1>1, <2>1, FS_RemoveElement
    <2>3. Bits(t, T, p, P) = 0 /\ Bits(t, T, f[t], P) = IF t \in S THEN 1 ELSE 0 BY Zenon, <1>4, <1>8 DEF Bits
    <2> QED BY <1>2, <2>2, <2>3
  <1> QED BY Zenon, <1>2, <1>7, <1>8 DEF Shifts, S, S2
LEMMA WorkersFinite ==
    IsFiniteSet(Workers) /\ Len(Order) \in Nat /\ Cardinality(Workers) <= Len(Order)
  <1> DEFINE N == Len(Order)
  <1>1. N \in Nat BY IdleAssumption
  <1>2. Order \in [1..N -> Workers] BY IdleAssumption
  <1>3. \A w \in Workers : \E i \in 1..N : Order[i] = w BY DEF Workers
  <1>4. Order \in Surjection(1..N, Workers) BY <1>2, <1>3 DEF Surjection
  <1> HIDE DEF N
  <1>5. ExistsSurjection(1..N, Workers) BY Zenon, <1>4 DEF ExistsSurjection
  <1> QED BY Zenon, <1>1, <1>5, FS_NatSurjection, FS_SurjCardinalityBound DEF N
UpPcs == Pcs \ DownPcs

\* The sum of the weights of all threads, and IDLE_STATE, which is that sum wrapped.
BalanceOf(f) ==
    Unit * (Cardinality(AtPlace(f, Workers, UpPcs)) - Cardinality(AtPlace(f, Joiners, CountPcs)))
      + Cardinality(AtPlace(f, Workers, SearchPcs))

LEMMA WeightIs ==
    ASSUME NEW t \in Movers, NEW p \in Pcs
    PROVE  /\ Weight(t, p) = Unit * (Bits(t, Workers, p, UpPcs) - Bits(t, Joiners, p, CountPcs))
                               + Bits(t, Workers, p, SearchPcs)
           /\ Bits(t, Workers, p, UpPcs) \in Int /\ Bits(t, Joiners, p, CountPcs) \in Int
           /\ Bits(t, Workers, p, SearchPcs) \in Int
  <1>1. Unit \in Nat /\ Workers \cap Joiners = {} BY IdleAssumption
  <1>4. /\ Unit * (0 - 0) + 0 = 0 /\ Unit * (1 - 0) + 0 = Unit /\ Unit * (1 - 0) + 1 = Unit + 1
        /\ Unit * (0 - 1) + 0 = -Unit /\ 0 \in Int /\ 1 \in Int
    BY <1>1
  <1>2. CASE t \in Workers
    <2>1. Bits(t, Joiners, p, CountPcs) = 0 BY <1>1, <1>2 DEF Bits
    <2>2. Bits(t, Workers, p, UpPcs) = IF p \in DownPcs THEN 0 ELSE 1 BY <1>2 DEF Bits, UpPcs
    <2>3. Bits(t, Workers, p, SearchPcs) = IF p \in SearchPcs THEN 1 ELSE 0 BY <1>2 DEF Bits
    <2>4. p \in SearchPcs => p \notin DownPcs BY DEF SearchPcs, DownPcs
    <2>5. CASE p \in DownPcs BY Zenon, <1>4, <1>2, <2>1, <2>2, <2>3, <2>4, <2>5 DEF Weight
    <2>6. CASE p \in SearchPcs BY Zenon, <1>4, <1>2, <2>1, <2>2, <2>3, <2>4, <2>6 DEF Weight
    <2>7. CASE p \notin DownPcs \cup SearchPcs BY Zenon, <1>4, <1>2, <2>1, <2>2, <2>3, <2>7 DEF Weight
    <2> QED BY Zenon, <2>5, <2>6, <2>7
  <1>3. CASE t \in Joiners
    <2>1. Bits(t, Workers, p, UpPcs) = 0 /\ Bits(t, Workers, p, SearchPcs) = 0
      BY <1>1, <1>3 DEF Bits
    <2>2. Bits(t, Joiners, p, CountPcs) = IF p \in CountPcs THEN 1 ELSE 0 BY <1>3 DEF Bits
    <2>3. t \notin Workers BY <1>1, <1>3
    <2> QED BY Zenon, <1>4, <2>1, <2>2, <2>3 DEF Weight
  <1> QED BY <1>2, <1>3 DEF Movers
LEMMA BalanceOfMoves ==
    ASSUME NEW f \in [Movers -> Pcs], NEW t \in Movers, NEW p \in Pcs
    PROVE  /\ BalanceOf(f) \in Int /\ Weight(t, p) - Weight(t, f[t]) \in Int
           /\ BalanceOf([f EXCEPT ![t] = p]) = BalanceOf(f) + (Weight(t, p) - Weight(t, f[t]))
  <1> DEFINE e == [f EXCEPT ![t] = p]
             Num(h, T, P) == Cardinality(AtPlace(h, T, P))
  <1>1. Unit \in Nat /\ IsFiniteSet(Workers) /\ IsFiniteSet(Joiners) BY IdleAssumption, WorkersFinite
  <1>2. Workers \in SUBSET Movers /\ Joiners \in SUBSET Movers /\ t \in Movers /\ f \in [Movers -> Pcs] /\ f[t] \in Pcs
    BY DEF Movers
  <1>3. /\ Shifts(f, e, Workers, UpPcs, t, p) /\ Shifts(f, e, Joiners, CountPcs, t, p)
        /\ Shifts(f, e, Workers, SearchPcs, t, p)
    <2>1. e \in [Movers -> Pcs] OBVIOUS
    <2>3. e = [f EXCEPT ![t] = p] OBVIOUS
    <2> HIDE DEF e
    <2> QED BY Zenon, <1>1, <1>2, <2>1, <2>3, OneMoves
  <1> HIDE DEF e
  <1>4. /\ Num(f, Workers, UpPcs) \in Nat
        /\ Num(e, Workers, UpPcs) =
             Num(f, Workers, UpPcs) + Bits(t, Workers, p, UpPcs) - Bits(t, Workers, f[t], UpPcs)
        /\ Num(f, Joiners, CountPcs) \in Nat
        /\ Num(e, Joiners, CountPcs) =
             Num(f, Joiners, CountPcs) + Bits(t, Joiners, p, CountPcs) - Bits(t, Joiners, f[t], CountPcs)
        /\ Num(f, Workers, SearchPcs) \in Nat
        /\ Num(e, Workers, SearchPcs) =
             Num(f, Workers, SearchPcs) + Bits(t, Workers, p, SearchPcs)
               - Bits(t, Workers, f[t], SearchPcs)
    BY Zenon, <1>3 DEF Shifts, Num
  <1> HIDE DEF Num
  <1>5. /\ BalanceOf(f) = Unit * (Num(f, Workers, UpPcs) - Num(f, Joiners, CountPcs)) + Num(f, Workers, SearchPcs)
        /\ BalanceOf(e) = Unit * (Num(e, Workers, UpPcs) - Num(e, Joiners, CountPcs)) + Num(e, Workers, SearchPcs)
    BY Zenon DEF BalanceOf, Num
  <1>6. /\ Weight(t, p) = Unit * (Bits(t, Workers, p, UpPcs) - Bits(t, Joiners, p, CountPcs))
                               + Bits(t, Workers, p, SearchPcs)
        /\ Weight(t, f[t]) = Unit * (Bits(t, Workers, f[t], UpPcs) - Bits(t, Joiners, f[t], CountPcs))
                               + Bits(t, Workers, f[t], SearchPcs)
        /\ Bits(t, Workers, p, UpPcs) \in Int /\ Bits(t, Joiners, p, CountPcs) \in Int
        /\ Bits(t, Workers, p, SearchPcs) \in Int
        /\ Bits(t, Workers, f[t], UpPcs) \in Int /\ Bits(t, Joiners, f[t], CountPcs) \in Int
        /\ Bits(t, Workers, f[t], SearchPcs) \in Int
    BY Zenon, <1>2, WeightIs
  <1>7. Unit \in Int /\ Num(f, Workers, UpPcs) \in Int /\ Num(f, Joiners, CountPcs) \in Int
        /\ Num(f, Workers, SearchPcs) \in Int
    BY <1>1, <1>4
  <1>8. PICK a \in Int, b \in Int, c \in Int : /\ a = Num(f, Workers, UpPcs)
                                               /\ b = Num(f, Joiners, CountPcs)
                                               /\ c = Num(f, Workers, SearchPcs)
    BY Zenon, <1>7
  <1>9. PICK a1 \in Int, b1 \in Int, c1 \in Int : /\ a1 = Bits(t, Workers, f[t], UpPcs)
                                                  /\ b1 = Bits(t, Joiners, f[t], CountPcs)
                                                  /\ c1 = Bits(t, Workers, f[t], SearchPcs)
    BY Zenon, <1>6
  <1>10. PICK a2 \in Int, b2 \in Int, c2 \in Int : /\ a2 = Bits(t, Workers, p, UpPcs)
                                                   /\ b2 = Bits(t, Joiners, p, CountPcs)
                                                   /\ c2 = Bits(t, Workers, p, SearchPcs)
    BY Zenon, <1>6
  <1>11. /\ Weight(t, p) = Unit * (a2 - b2) + c2 /\ Weight(t, f[t]) = Unit * (a1 - b1) + c1
         /\ BalanceOf(f) = Unit * (a - b) + c
         /\ BalanceOf(e) = Unit * ((a + a2 - a1) - (b + b2 - b1)) + (c + c2 - c1)
    BY Zenon, <1>4, <1>5, <1>6, <1>8, <1>9, <1>10
  <1>12. /\ Unit * ((a + a2 - a1) - (b + b2 - b1)) + (c + c2 - c1) =
              (Unit * (a - b) + c) + ((Unit * (a2 - b2) + c2) - (Unit * (a1 - b1) + c1))
         /\ Unit * (a - b) + c \in Int /\ (Unit * (a2 - b2) + c2) - (Unit * (a1 - b1) + c1) \in Int
    BY <1>7
  <1> QED BY Zenon, <1>11, <1>12 DEF e
Packed == idle = BalanceOf(pc) % Word

LEMMA Sizes ==
    /\ Unit \in Nat \ {0} /\ Word \in Nat \ {0} /\ Word \div Unit \in Nat \ {0}
    /\ Word = Unit * (Word \div Unit)
  <1>1. Len(Order) \in Nat BY WorkersFinite
  <1>2. Unit \in Nat \ {0} /\ Word \in Nat BY <1>1, IdleAssumption
  <1>3. Word = Unit * (Word \div Unit) + (Word % Unit) /\ Word \div Unit \in Int BY <1>2, DivMod
  <1>4. Word \div Unit > Len(Order) + 1 /\ Word % Unit = 0 BY IdleAssumption
  <1> DEFINE q == Word \div Unit
  <1> HIDE DEF q
  <1>5. q \in Int /\ q > 0 BY <1>1, <1>3, <1>4 DEF q
  <1>6. Word = Unit * q BY <1>2, <1>3, <1>4, <1>5 DEF q
  <1> QED BY <1>2, <1>5, <1>6 DEF q
\* IDLE_STATE follows a thread that moves and adds what its weight gains.
LEMMA Repacked ==
    ASSUME PcType, Packed, NEW t \in Movers, NEW p \in Pcs, Goto(t, p), NEW k \in Int,
           idle' = (idle + (Word * k + (Weight(t, p) - Weight(t, pc[t])))) % Word
    PROVE  PcType' /\ Packed'
  <1>1. pc \in [Movers -> Pcs] /\ pc' = [pc EXCEPT ![t] = p] BY DEF PcType, Goto
  <1>2. PcType' BY <1>1 DEF PcType
  <1> DEFINE x == BalanceOf(pc)
             n == Weight(t, p) - Weight(t, pc[t])
  <1>3. x \in Int /\ n \in Int /\ BalanceOf(pc') = x + n BY Zenon, <1>1, BalanceOfMoves
  <1>4. idle' = ((x % Word) + (Word * k + n)) % Word BY Zenon DEF Packed
  <1> HIDE DEF x, n
  <1>5. idle' = (x + n) % Word BY ZenonT(60), <1>3, <1>4, Wrapped, Sizes
  <1> QED BY Zenon, <1>2, <1>3, <1>5 DEF Packed
LEMMA Rises ==
    ASSUME PcType, Packed, NEW t \in Movers, NEW p \in Pcs, Goto(t, p), NEW n \in Int, Add(n),
           Weight(t, p) - Weight(t, pc[t]) = n
    PROVE  PcType' /\ Packed'
  <1>1. Word * 0 + n = n /\ 0 \in Int BY Sizes
  <1>2. idle' = (idle + (Word * 0 + n)) % Word BY Zenon, <1>1 DEF Add
  <1> QED BY Zenon, <1>1, <1>2, Repacked
LEMMA Falls ==
    ASSUME PcType, Packed, NEW t \in Movers, NEW p \in Pcs, Goto(t, p), NEW n \in Int, Sub(n),
           Weight(t, p) - Weight(t, pc[t]) = -n
    PROVE  PcType' /\ Packed'
  <1>1. BalanceOf(pc) % Word \in Int
    <2>1. BalanceOf(pc) \in Int BY Zenon, BalanceOfMoves DEF PcType
    <2> QED BY <2>1, Sizes, DivMod
  <1>2. idle \in Int BY Zenon, <1>1 DEF Packed
  <1>3. idle + Word - n = idle + (Word * 1 + (-n)) /\ 1 \in Int BY <1>2, Sizes
  <1>4. idle' = (idle + (Word * 1 + (-n))) % Word BY Zenon, <1>3 DEF Sub
  <1> QED BY Zenon, <1>3, <1>4, Repacked
LEMMA Walks ==
    ASSUME PcType, Packed, NEW t \in Movers, NEW p \in Pcs, Goto(t, p), UNCHANGED idle,
           Weight(t, p) = Weight(t, pc[t])
    PROVE  PcType' /\ Packed'
  <1>1. pc \in [Movers -> Pcs] /\ pc' = [pc EXCEPT ![t] = p] BY DEF PcType, Goto
  <1>2. PcType' BY <1>1 DEF PcType
  <1>3. BalanceOf(pc) \in Int /\ BalanceOf(pc') = BalanceOf(pc) + (Weight(t, p) - Weight(t, pc[t]))
    BY Zenon, <1>1, BalanceOfMoves
  <1>4. Weight(t, p) \in Int BY Sizes DEF Weight
  <1>5. BalanceOf(pc') = BalanceOf(pc) BY <1>3, <1>4
  <1> QED BY Zenon, <1>2, <1>5 DEF Packed
LEMMA Stays == ASSUME PcType, Packed, UNCHANGED <<pc, idle>> PROVE PcType' /\ Packed'
  BY Zenon DEF PcType, Packed

LEMMA PcNames ==
    /\ "start" \in Pcs /\ "top" \in Pcs /\ "pop" \in Pcs /\ "refill" \in Pcs /\ "steal" \in Pcs
    /\ "run" \in Pcs /\ "idle" \in Pcs /\ "spin" \in Pcs /\ "found" \in Pcs /\ "nothing" \in Pcs
    /\ "recheck" \in Pcs /\ "park" \in Pcs /\ "loop" \in Pcs /\ "gap" \in Pcs /\ "wait" \in Pcs
    /\ "rise" \in Pcs /\ "exited" \in Pcs /\ "check" \in Pcs /\ "count" \in Pcs /\ "uncount" \in Pcs
    /\ "joined" \in Pcs
  BY Zenon DEF Pcs
LEMMA WorkerWeights ==
    ASSUME NEW w \in Workers
    PROVE  /\ \A p \in DownPcs : Weight(w, p) = 0
           /\ \A p \in SearchPcs : Weight(w, p) = Unit + 1
           /\ \A p \in {"top", "pop", "refill", "steal", "run", "idle", "recheck", "park"} : Weight(w, p) = Unit
  BY Zenon DEF Weight, DownPcs, SearchPcs
LEMMA JoinerWeights ==
    ASSUME NEW j \in Joiners
    PROVE  /\ \A p \in CountPcs : Weight(j, p) = -Unit
           /\ \A p \in {"check", "count", "joined"} : Weight(j, p) = 0
  <1>1. j \notin Workers BY IdleAssumption
  <1> QED BY Zenon, <1>1 DEF Weight, CountPcs
\* A worker that looks for work stays at the same weight.
LEMMA LooksPacked ==
    ASSUME PcType, Packed, NEW w \in Workers, NEW from, NEW stopped, NEW found \in Pcs, NEW none \in Pcs,
           Look(w, from, stopped, found, none), UNCHANGED idle,
           Weight(w, found) = Weight(w, from), Weight(w, none) = Weight(w, from)
    PROVE  PcType' /\ Packed'
  <1>1. w \in Movers BY DEF Movers
  <1>2. pc[w] = from /\ (Goto(w, found) \/ Goto(w, none) \/ UNCHANGED pc) BY Zenon DEF Look
  <1> QED BY Zenon, <1>1, <1>2, Walks, Stays, PcNames
LEMMA WorkPacked ==
    ASSUME PcType, Packed, NEW w \in Workers, Work(w)
    PROVE  PcType' /\ Packed'
  <1>1. w \in Movers BY DEF Movers
  <1>2. Unit \in Int /\ Unit - 0 = Unit /\ 0 - Unit = -Unit /\ (Unit + 1) - Unit = 1 /\ Unit - (Unit + 1) = -1
        /\ 1 \in Int
    BY Sizes
  <1>3. CASE Start(w)
    <2>1. Weight(w, "top") = Unit /\ Weight(w, "start") = 0 BY Zenon, WorkerWeights DEF DownPcs
    <2> QED BY Zenon, <1>1, <1>2, <1>3, <2>1, Rises, PcNames DEF Start
  <1>4. CASE Top(w)
    <2>1. /\ Weight(w, "top") = Unit /\ Weight(w, "exited") = 0 /\ Weight(w, "pop") = Unit
      BY Zenon, WorkerWeights DEF DownPcs
    <2>2. pc[w] = "top" /\ ((Sub(Unit) /\ Goto(w, "exited")) \/ (UNCHANGED idle /\ Goto(w, "pop")))
      BY Zenon, <1>4 DEF Top
    <2> QED BY Zenon, <1>1, <1>2, <2>1, <2>2, Falls, Walks, PcNames
  <1>5. CASE Pop(w) \/ Refill(w) \/ Steal(w)
    <2>1. /\ Weight(w, "pop") = Unit /\ Weight(w, "refill") = Unit /\ Weight(w, "steal") = Unit
          /\ Weight(w, "run") = Unit /\ Weight(w, "idle") = Unit
      BY Zenon, WorkerWeights
    <2>2. /\ pc[w] \in {"pop", "refill", "steal"} /\ UNCHANGED idle
          /\ \/ Goto(w, "run") \/ Goto(w, "refill") \/ Goto(w, "steal") \/ Goto(w, "idle") \/ UNCHANGED pc
      BY Zenon, <1>5 DEF Pop, Refill, Steal, Drive
    <2> QED BY Zenon, <1>1, <2>1, <2>2, Walks, Stays, PcNames
  <1>6. CASE Search(w)
    <2>1. Weight(w, "idle") = Unit /\ Weight(w, "spin") = Unit + 1 BY Zenon, WorkerWeights DEF SearchPcs
    <2> QED BY Zenon, <1>1, <1>2, <1>6, <2>1, Rises, PcNames DEF Search
  <1>7. CASE Spin(w)
    <2>1. Weight(w, "spin") = Unit + 1 /\ Weight(w, "found") = Unit + 1 /\ Weight(w, "nothing") = Unit + 1
      BY Zenon, WorkerWeights DEF SearchPcs
    <2>2. PICK none \in {"spin", "nothing"} : Look(w, "spin", stop, "found", none) /\ UNCHANGED idle
      BY Zenon, <1>7 DEF Spin
    <2>3. none \in Pcs /\ Weight(w, none) = Unit + 1 BY Zenon, <2>1, <2>2, PcNames
    <2> QED BY Zenon, <2>1, <2>2, <2>3, LooksPacked, PcNames
  <1>8. CASE GiveUp(w)
    <2>1. /\ Weight(w, "found") = Unit + 1 /\ Weight(w, "nothing") = Unit + 1 /\ Weight(w, "top") = Unit
          /\ Weight(w, "recheck") = Unit /\ Weight(w, "park") = Unit
      BY Zenon, WorkerWeights DEF SearchPcs
    <2>2. pc[w] \in {"found", "nothing"} /\ Sub(1) /\ (Goto(w, "top") \/ Goto(w, "recheck") \/ Goto(w, "park"))
      BY Zenon, <1>8 DEF GiveUp
    <2> QED BY Zenon, <1>1, <1>2, <2>1, <2>2, Falls, PcNames
  <1>9. CASE Recheck(w)
    <2>1. Weight(w, "recheck") = Unit /\ Weight(w, "top") = Unit /\ Weight(w, "park") = Unit BY Zenon, WorkerWeights
    <2> QED BY Zenon, <1>9, <2>1, LooksPacked, PcNames DEF Recheck
  <1>10. CASE LieDown(w)
    <2>1. Weight(w, "park") = Unit /\ Weight(w, "loop") = 0 BY Zenon, WorkerWeights DEF DownPcs
    <2> QED BY Zenon, <1>1, <1>2, <1>10, <2>1, Falls, PcNames DEF LieDown
  <1>11. CASE LookOnceMore(w)
    <2>1. Weight(w, "loop") = 0 /\ Weight(w, "rise") = 0 /\ Weight(w, "gap") = 0
      BY Zenon, WorkerWeights DEF DownPcs
    <2> QED BY Zenon, <1>11, <2>1, LooksPacked, PcNames DEF LookOnceMore
  <1>12. CASE Sleep(w)
    <2>1. Weight(w, "gap") = 0 /\ Weight(w, "wait") = 0 BY Zenon, WorkerWeights DEF DownPcs
    <2> QED BY Zenon, <1>1, <1>12, <2>1, Walks, PcNames DEF Sleep
  <1>13. CASE Awaken(w)
    <2>1. Weight(w, "wait") = 0 /\ Weight(w, "loop") = 0 BY Zenon, WorkerWeights DEF DownPcs
    <2> QED BY Zenon, <1>1, <1>13, <2>1, Walks, PcNames DEF Awaken, Slept
  <1>14. CASE Rise(w)
    <2>1. Weight(w, "rise") = 0 /\ Weight(w, "top") = Unit BY Zenon, WorkerWeights DEF DownPcs
    <2> QED BY Zenon, <1>1, <1>2, <1>14, <2>1, Rises, PcNames DEF Rise
  <1> QED BY Zenon, <1>3, <1>4, <1>5, <1>6, <1>7, <1>8, <1>9, <1>10, <1>11, <1>12, <1>13, <1>14
          DEF Work, Hunt, Doze
LEMMA InitPacked == Init => PcType /\ Packed
  <1> SUFFICES ASSUME Init PROVE PcType /\ Packed OBVIOUS
  <1>1. pc = [t \in Movers |-> IF t \in Workers THEN "start" ELSE "check"] /\ idle = 0
    BY Zenon DEF Init, Movers
  <1>2. PcType BY <1>1 DEF PcType, Pcs
  <1>3. AtPlace(pc, Workers, UpPcs) = {} /\ AtPlace(pc, Workers, SearchPcs) = {}
    <2>1. \A w \in Workers : pc[w] = "start" BY <1>1 DEF Movers
    <2> QED BY <2>1 DEF AtPlace, UpPcs, DownPcs, SearchPcs
  <1>4. AtPlace(pc, Joiners, CountPcs) = {}
    <2>1. \A j \in Joiners : pc[j] = "check" BY <1>1, IdleAssumption DEF Movers
    <2> QED BY <2>1 DEF AtPlace, CountPcs
  <1>5. BalanceOf(pc) = 0
    <2>1. BalanceOf(pc) = Unit * (0 - 0) + 0 BY Zenon, <1>3, <1>4, FS_EmptySet DEF BalanceOf
    <2> QED BY <2>1, Sizes
  <1>6. 0 % Word = 0
    <2>1. 0 = Word * 0 + 0 /\ 0 \in 0..(Word - 1) /\ 0 \in Int BY Sizes
    <2> QED BY <2>1, Split, Sizes
  <1> QED BY Zenon, <1>1, <1>2, <1>5, <1>6 DEF Packed
LEMMA NextPacked ==
    ASSUME PcType, Packed, [Next]_vars
    PROVE  PcType' /\ Packed'
  <1>1. CASE \E t \in Threads : Tell(t)
    <2>1. UNCHANGED <<pc, idle>> BY Zenon, <1>1 DEF Tell, Decide, Notify
    <2> QED BY Zenon, <2>1, Stays
  <1>2. ASSUME NEW w \in Workers, Work(w) \/ Leave(w) \/ \E g \in Gids : Spawn(w, g)
        PROVE  PcType' /\ Packed'
    <2>1. CASE Work(w) BY Zenon, <2>1, WorkPacked
    <2>2. CASE Leave(w)
      <3>1. w \in Movers /\ Weight(w, "run") = Unit /\ Weight(w, "top") = Unit BY Zenon, WorkerWeights DEF Movers
      <3>2. pc[w] = "run" /\ Goto(w, "top") /\ UNCHANGED idle
        BY Zenon, <2>2 DEF Leave, Park, Finish, Yield, Handoff
      <3> QED BY Zenon, <3>1, <3>2, Walks, PcNames
    <2>3. CASE \E g \in Gids : Spawn(w, g)
      <3>1. UNCHANGED <<pc, idle>> BY Zenon, <2>3 DEF Spawn
      <3> QED BY Zenon, <3>1, Stays
    <2> QED BY Zenon, <1>2, <2>1, <2>2, <2>3
  <1>3. CASE \E o \in Outside : Stop(o) \/ \E g \in Gids : Ready(o, g)
    <2>1. UNCHANGED <<pc, idle>> BY Zenon, <1>3 DEF Stop, Ready
    <2> QED BY Zenon, <2>1, Stays
  <1>4. ASSUME NEW j \in Joiners, Join(j) PROVE PcType' /\ Packed'
    <2>1. j \in Movers /\ j \notin Workers BY IdleAssumption DEF Movers
    <2>2. /\ Weight(j, "gap") = -Unit /\ Weight(j, "wait") = -Unit /\ Weight(j, "uncount") = -Unit
          /\ Weight(j, "check") = 0 /\ Weight(j, "count") = 0 /\ Weight(j, "joined") = 0
      BY Zenon, JoinerWeights DEF CountPcs
    <2>3. CASE Check(j)
      <3>1. pc[j] = "check" /\ (Goto(j, "joined") \/ Goto(j, "count")) /\ UNCHANGED idle BY Zenon, <2>3 DEF Check
      <3> QED BY Zenon, <2>1, <2>2, <3>1, Walks, PcNames
    <2>4. CASE CountIdle(j)
      <3>1. (-Unit) - 0 = -Unit /\ Unit \in Int BY Sizes
      <3> QED BY Zenon, <2>1, <2>2, <2>4, <3>1, Falls, PcNames DEF CountIdle
    <2>5. CASE Sleep(j) BY Zenon, <2>1, <2>2, <2>5, Walks, PcNames DEF Sleep
    <2>6. CASE Awaken(j) BY Zenon, <2>1, <2>2, <2>6, Walks, PcNames DEF Awaken, Slept
    <2>7. CASE Uncount(j)
      <3>1. 0 - (-Unit) = Unit /\ Unit \in Int BY Sizes
      <3> QED BY Zenon, <2>1, <2>2, <2>7, <3>1, Rises, PcNames DEF Uncount
    <2> QED BY Zenon, <1>4, <2>3, <2>4, <2>5, <2>6, <2>7 DEF Join
  <1>5. CASE UNCHANGED vars
    <2>1. UNCHANGED <<pc, idle>> BY Zenon, <1>5 DEF vars
    <2> QED BY Zenon, <2>1, Stays
  <1> QED BY Zenon, <1>1, <1>2, <1>3, <1>4, <1>5 DEF Next, Over
LEMMA PackedExact == PcType /\ Packed => CountsExact
  <1> SUFFICES ASSUME PcType, Packed PROVE CountsExact OBVIOUS
  <1> DEFINE S == AtPlace(pc, Workers, SearchPcs)
             U == AtPlace(pc, Workers, UpPcs)
             J == AtPlace(pc, Joiners, CountPcs)
             M == Word \div Unit
  <1>1. Searchers = S /\ Workers \ Down = U /\ Counted = J
    <2>1. \A w \in Workers : pc[w] \in Pcs BY DEF PcType, Movers
    <2>2. \A w \in Workers : w \in Down <=> pc[w] \in DownPcs BY Zenon DEF Down, Parked, DownPcs
    <2>3. Workers \ Down = U BY Zenon, <2>1, <2>2 DEF AtPlace, UpPcs
    <2> QED BY Zenon, <2>3 DEF Counted, Searchers, AtPlace, CountPcs, SearchPcs
  <1>2. IsFiniteSet(Joiners) BY IdleAssumption
  <1>3. /\ Cardinality(S) \in Nat /\ Cardinality(S) <= Cardinality(Workers) /\ Cardinality(Workers) \in Nat
        /\ Cardinality(U) \in Nat /\ Cardinality(J) \in Nat
    <2>1. S \subseteq Workers /\ U \subseteq Workers /\ J \subseteq Joiners BY Zenon DEF AtPlace
    <2> QED BY Zenon, <1>2, <2>1, WorkersFinite, FS_Subset, FS_CardinalityType
  <1>4. M \in Nat \ {0} /\ Word = Unit * M /\ Unit \in Nat \ {0} BY Zenon, Sizes
  <1>5. idle = (Unit * (Cardinality(U) - Cardinality(J)) + Cardinality(S)) % Word BY Zenon DEF Packed, BalanceOf
  <1> HIDE DEF S, U, J, M
  <1>6. PICK d \in Int, s \in Int : d = Cardinality(U) - Cardinality(J) /\ s = Cardinality(S) BY <1>3
  <1>7. s \in 0..(Unit - 1)
    <2>1. Len(Order) \in Nat /\ Cardinality(Workers) <= Len(Order) /\ Unit > Len(Order)
      BY WorkersFinite, IdleAssumption
    <2> QED BY <1>3, <1>4, <1>6, <2>1
  <1>8. d = M * (d \div M) + (d % M) /\ d \div M \in Int /\ d % M \in 0..(M - 1) BY <1>4, DivMod
  <1>9. PICK q \in Int, r \in 0..(M - 1) : d = M * q + r /\ r = d % M BY Zenon, <1>8
  <1>10. /\ Unit * d + s = Word * q + (Unit * r + s) /\ Unit * r + s \in 0..(Word - 1)
         /\ Unit * d + s \in Int /\ Word \in Nat \ {0}
    <2>0. ASSUME NEW x \in Int, NEW y \in Int, NEW z \in Int, NEW v \in Int
          PROVE  x * (y * z + v) = (x * y) * z + x * v
      OBVIOUS
    <2>7. Unit \in Int /\ M \in Int /\ r \in Int BY <1>4, <1>9
    <2>8. Unit * d = (Unit * M) * q + Unit * r BY <1>9, <2>0, <2>7
    <2>9. (Unit * M) * q \in Int /\ Unit * r \in Int BY <2>7
    <2>1. Unit * d + s = (Unit * M) * q + (Unit * r + s) BY <1>7, <2>8, <2>9
    <2>2. Unit * r + s \in Nat BY <1>4, <1>7, <1>9
    <2>3. Unit * r <= Unit * (M - 1) BY <1>4, <1>9
    <2>4. Unit * (M - 1) = Word - Unit BY <1>4
    <2>5. Unit * r \in Nat BY <1>4, <1>9
    <2>6. Unit * r + s < Word BY <1>4, <1>7, <2>3, <2>4, <2>5
    <2> QED BY <1>4, <1>7, <2>1, <2>2, <2>6, Sizes
  <1>11. idle = Unit * r + s
    <2> DEFINE z == Unit * d + s
               y == Unit * r + s
    <2>1. z = Word * q + y /\ y \in 0..(Word - 1) /\ z \in Int BY Zenon, <1>10
    <2>2. idle = z % Word BY Zenon, <1>5, <1>6
    <2> HIDE DEF z, y
    <2>4. Word \in Nat \ {0} /\ q \in Int BY Zenon, <1>10
    <2>3. z % Word = y BY <2>1, <2>4, Split
    <2> QED BY Zenon, <2>2, <2>3 DEF y
  <1>12. Unit * r + s \in Int /\ r \in Int BY <1>4, <1>7, <1>9
  <1>13. idle % Unit = s /\ idle \div Unit = r BY ZenonT(60), <1>4, <1>7, <1>11, <1>12, Split
  <1> QED BY Zenon, <1>1, <1>6, <1>9, <1>13 DEF CountsExact, Searching, Unparked, M

\* IDLE_STATE is exact: whatever the workers, the joiners and the outside
\* threads do, its low bits are the number of workers that search and its high
\* bits, modulo the word, the workers that are up less the joiners that block
\* (worker_loop, wait_for_work, join_blocking).  No update is lost, and none is
\* counted twice on any of wait_for_work's exits.
THEOREM IdleStateExact == Spec => []CountsExact
  <1>1. Init => PcType /\ Packed BY InitPacked
  <1>2. (PcType /\ Packed) /\ [Next]_vars => (PcType /\ Packed)' BY NextPacked
  <1>3. PcType /\ Packed => CountsExact BY PackedExact
  <1> QED BY <1>1, <1>2, <1>3, PTL DEF Spec

-----------------------------------------------------------------------------
(* Lost wake-ups.                                                           *)

Maps(f, S) == f = [x \in S |-> f[x]]

\* Only threads in the wait of the condition variable are asleep.
Asleep == \A t \in sleeping : t \in Movers /\ pc[t] = "wait"

\* The places of the code at which a worker may leave work in its own queue.
Busy == {"top", "pop", "run", "exited"}

\* Work in a worker's own queue keeps that worker up: no other worker puts
\* work there, and its own leaves Busy only with the slot and the ring empty.
Empty(w) == slot[w] = Null /\ ring[w] = {}
AtHome ==
    /\ Maps(slot, Workers) /\ Maps(ring, Workers)
    /\ \A w \in Workers : Empty(w) \/ pc[w] \in Busy

\* A worker that has yet to look at the shared queue before it sleeps.
Awake(w) == pc[w] # "gap" /\ w \notin sleeping

\* Work in the shared queue is known to somebody.
Heard ==
    /\ Maps(tell, Threads)
    /\ \/ shared = <<>> \/ missed \/ (\E t \in Threads : tell[t] # "nobody")
       \/ \E w \in Workers : Awake(w)

LEMMA PcMoves ==
    ASSUME PcType, NEW t \in Movers, NEW p, Goto(t, p)
    PROVE  pc'[t] = p /\ \A u \in Movers \ {t} : pc'[u] = pc[u]
  BY DEF PcType, Goto
LEMMA Told ==
    ASSUME Heard, NEW t \in Threads, NEW p, Owe(t, p)
    PROVE  Maps(tell', Threads) /\ tell'[t] = p /\ \A u \in Threads \ {t} : tell'[u] = tell[u]
  <1>1. tell = [x \in Threads |-> tell[x]] /\ tell' = [tell EXCEPT ![t] = p] BY Zenon DEF Heard, Maps, Owe
  <1> QED BY <1>1 DEF Maps
LEMMA SleepersWait ==
    ASSUME PcType, Asleep, [Next]_vars
    PROVE  Asleep'
  <1>1. ASSUME NEW t \in Movers, NEW p, Goto(t, p), pc[t] # "wait", UNCHANGED sleeping PROVE Asleep'
    BY Zenon, <1>1, PcMoves DEF Asleep
  <1>2. ASSUME UNCHANGED pc, sleeping' \subseteq sleeping PROVE Asleep' BY Zenon, <1>2 DEF Asleep
  <1>3. CASE \E t \in Threads : Tell(t)
    <2>1. UNCHANGED pc /\ sleeping' \subseteq sleeping BY Zenon, <1>3 DEF Tell, Decide, Notify
    <2> QED BY Zenon, <1>2, <2>1
  <1>4. ASSUME NEW t \in Movers, Sleep(t) PROVE Asleep'
    BY Zenon, <1>4, PcMoves DEF Sleep, Asleep
  <1>5. ASSUME NEW t \in Movers, Awaken(t) PROVE Asleep'
    BY Zenon, <1>5, PcMoves DEF Awaken, Asleep
  <1>6. ASSUME NEW w \in Workers, Work(w) \/ Leave(w) \/ \E g \in Gids : Spawn(w, g)
        PROVE  Asleep'
    <2>1. w \in Movers BY Zenon DEF Movers
    <2>2. CASE Sleep(w) \/ Awaken(w) BY Zenon, <1>4, <1>5, <2>1, <2>2
    <2>3. CASE Start(w) \/ Top(w) \/ Pop(w) \/ Refill(w) \/ Steal(w)
      <3>1. UNCHANGED sleeping /\ pc[w] # "wait" /\ (UNCHANGED pc \/ \E p \in Pcs : Goto(w, p))
        BY Zenon, <2>3, PcNames DEF Start, Top, Pop, Refill, Steal, Drive
      <3> QED BY Zenon, <1>1, <1>2, <2>1, <3>1
    <2>4. CASE Hunt(w)
      <3>1. UNCHANGED sleeping /\ pc[w] # "wait" /\ (UNCHANGED pc \/ \E p : Goto(w, p))
        BY Zenon, <2>4 DEF Hunt, Search, Spin, GiveUp, Recheck, Look
      <3> QED BY Zenon, <1>1, <1>2, <2>1, <3>1
    <2>5. CASE LieDown(w) \/ LookOnceMore(w) \/ Rise(w)
      <3>1. UNCHANGED sleeping /\ pc[w] # "wait" /\ (UNCHANGED pc \/ \E p : Goto(w, p))
        BY Zenon, <2>5 DEF LieDown, LookOnceMore, Look, Rise
      <3> QED BY Zenon, <1>1, <1>2, <2>1, <3>1
    <2>6. CASE Leave(w) \/ \E g \in Gids : Spawn(w, g)
      <3>1. UNCHANGED sleeping /\ pc[w] # "wait" /\ (UNCHANGED pc \/ \E p : Goto(w, p))
        BY Zenon, <2>6 DEF Leave, Park, Finish, Yield, Handoff, Spawn
      <3> QED BY Zenon, <1>1, <1>2, <2>1, <3>1
    <2> QED BY Zenon, <1>6, <2>2, <2>3, <2>4, <2>5, <2>6 DEF Work, Doze
  <1>7. CASE \E o \in Outside : Stop(o) \/ \E g \in Gids : Ready(o, g)
    BY Zenon, <1>2, <1>7 DEF Stop, Ready
  <1>8. ASSUME NEW j \in Joiners, Join(j) PROVE Asleep'
    <2>1. j \in Movers BY Zenon DEF Movers
    <2>2. CASE Sleep(j) \/ Awaken(j) BY Zenon, <1>4, <1>5, <2>1, <2>2
    <2>3. CASE Check(j) \/ CountIdle(j) \/ Uncount(j)
      BY Zenon, <1>1, <2>1, <2>3 DEF Check, CountIdle, Uncount
    <2> QED BY Zenon, <1>8, <2>2, <2>3 DEF Join
  <1>9. CASE UNCHANGED vars BY Zenon, <1>2, <1>9 DEF vars
  <1> QED BY Zenon, <1>3, <1>6, <1>7, <1>8, <1>9 DEF Next, Over
\* Worker w is the one that moves: it empties its queue or stays busy.
LEMMA OwnMove ==
    ASSUME AtHome, NEW w \in Workers, Maps(slot', Workers), Maps(ring', Workers),
           Empty(w)' \/ pc'[w] \in Busy,
           \A u \in Workers \ {w} : pc'[u] = pc[u] /\ slot'[u] = slot[u] /\ ring'[u] \subseteq ring[u]
    PROVE  AtHome'
  <1>1. ASSUME NEW u \in Workers PROVE Empty(u)' \/ pc'[u] \in Busy
    <2>1. CASE u = w BY Zenon, <2>1
    <2>2. CASE u # w
      <3>1. (slot[u] = Null /\ ring[u] = {}) \/ pc[u] \in Busy BY Zenon DEF AtHome, Empty
      <3>2. pc'[u] = pc[u] /\ slot'[u] = slot[u] /\ ring'[u] \subseteq ring[u] BY Zenon, <2>2
      <3>3. ring[u] = {} => ring'[u] = {} BY Zenon, <3>2
      <3> QED BY Zenon, <3>1, <3>2, <3>3 DEF Empty
    <2> QED BY Zenon, <2>1, <2>2
  <1> QED BY Zenon, <1>1 DEF AtHome
LEMMA QueueKept ==
    ASSUME PcType, AtHome, NEW w \in Workers, UNCHANGED <<slot, ring>>,
           UNCHANGED pc \/ (\E p : Goto(w, p)), pc[w] \notin Busy \/ pc'[w] \in Busy
    PROVE  AtHome'
  <1>1. \A u \in Workers \ {w} : pc'[u] = pc[u] BY Zenon, PcMoves DEF Movers
  <1>2. Maps(slot', Workers) /\ Maps(ring', Workers) BY Zenon DEF AtHome
  <1>3. Empty(w)' \/ pc'[w] \in Busy BY Zenon DEF AtHome, Empty
  <1>4. \A u \in Workers \ {w} : pc'[u] = pc[u] /\ slot'[u] = slot[u] /\ ring'[u] \subseteq ring[u]
    BY Zenon, <1>1
  <1> QED BY Zenon, <1>2, <1>3, <1>4, OwnMove
LEMMA AtHomeStill ==
    ASSUME AtHome, UNCHANGED <<pc, slot, ring>> PROVE AtHome'
  BY Zenon DEF AtHome, Empty
\* One cell of a map is written.
Write(f, e, w, x) == e = [f EXCEPT ![w] = x]
Spares(f, e, w) == Maps(e, Workers) /\ \A u \in Workers \ {w} : e[u] = f[u]

LEMMA Written ==
    ASSUME NEW f, NEW e, NEW w \in Workers, NEW x, Maps(f, Workers), Write(f, e, w, x)
    PROVE  Spares(f, e, w) /\ e[w] = x
  <1>1. f = [u \in Workers |-> f[u]] BY Zenon DEF Maps
  <1>2. e = [u \in Workers |-> IF u = w THEN x ELSE f[u]] BY <1>1 DEF Write
  <1> QED BY <1>1, <1>2 DEF Maps, Spares
LEMMA HomeMade ==
    ASSUME PcType, AtHome, NEW w \in Workers, NEW g, MakeRunnable(w, g),
           \/ Goto(w, "top") \/ (UNCHANGED pc /\ pc[w] = "run")
    PROVE  AtHome'
  <1>1. Maps(slot, Workers) /\ Maps(ring, Workers) BY Zenon DEF AtHome
  <1>2. Maps(slot', Workers) /\ \A u \in Workers \ {w} : slot'[u] = slot[u]
    <2>1. Write(slot, slot', w, g) BY Zenon DEF MakeRunnable, Write
    <2>2. Spares(slot, slot', w) BY Zenon, <1>1, <2>1, Written
    <2> QED BY Zenon, <2>2 DEF Spares
  <1>3. Maps(ring', Workers) /\ \A u \in Workers \ {w} : ring'[u] = ring[u]
    <2>1. CASE slot[w] = Null BY Zenon, <1>1, <2>1 DEF MakeRunnable
    <2>2. CASE slot[w] # Null
      <3>1. Write(ring, ring', w, ring[w] \cup {slot[w]}) BY Zenon, <2>2 DEF MakeRunnable, Write
      <3>2. Spares(ring, ring', w) BY Zenon, <1>1, <3>1, Written
      <3> QED BY Zenon, <3>2 DEF Spares
    <2> QED BY Zenon, <2>1, <2>2
  <1>4. w \in Movers /\ Workers \subseteq Movers BY Zenon DEF Movers
  <1>5. pc'[w] \in Busy /\ \A u \in Workers \ {w} : pc'[u] = pc[u]
    BY Zenon, <1>4, PcMoves DEF Busy
  <1>6. \A u \in Workers \ {w} : pc'[u] = pc[u] /\ slot'[u] = slot[u] /\ ring'[u] \subseteq ring[u]
    BY Zenon, <1>2, <1>3, <1>5
  <1> QED BY Zenon, <1>2, <1>3, <1>5, <1>6, OwnMove
\* A worker takes work from the queues and runs it.
LEMMA HomeTaken ==
    ASSUME PcType, AtHome, NEW w \in Workers, Goto(w, "run"),
           Maps(slot', Workers), Maps(ring', Workers),
           \A u \in Workers \ {w} : slot'[u] = slot[u] /\ ring'[u] \subseteq ring[u]
    PROVE  AtHome'
  <1>1. w \in Movers /\ Workers \subseteq Movers BY Zenon DEF Movers
  <1>2. pc'[w] \in Busy /\ \A u \in Workers \ {w} : pc'[u] = pc[u] BY Zenon, <1>1, PcMoves DEF Busy
  <1>3. \A u \in Workers \ {w} : pc'[u] = pc[u] /\ slot'[u] = slot[u] /\ ring'[u] \subseteq ring[u]
    BY Zenon, <1>2
  <1> QED BY Zenon, <1>2, <1>3, OwnMove
LEMMA PopHome ==
    ASSUME PcType, AtHome, NEW w \in Workers, Pop(w) PROVE AtHome'
  <1>1. Maps(slot, Workers) /\ Maps(ring, Workers) BY Zenon DEF AtHome
  <1>2. ASSUME NEW x, Goto(w, "run"), slot' = [slot EXCEPT ![w] = x], UNCHANGED ring PROVE AtHome'
    <2>1. Write(slot, slot', w, x) BY Zenon, <1>2 DEF Write
    <2>2. Spares(slot, slot', w) BY Zenon, <1>1, <2>1, Written
    <2>3. Maps(slot', Workers) /\ Maps(ring', Workers) BY Zenon, <1>1, <1>2, <2>2 DEF Spares
    <2>4. \A u \in Workers \ {w} : slot'[u] = slot[u] /\ ring'[u] \subseteq ring[u] BY Zenon, <1>2, <2>2 DEF Spares
    <2> QED BY Zenon, <1>2, <2>3, <2>4, HomeTaken
  <1>3. ASSUME NEW x, Goto(w, "run"), ring' = [ring EXCEPT ![w] = x], UNCHANGED slot PROVE AtHome'
    <2>1. Write(ring, ring', w, x) BY Zenon, <1>3 DEF Write
    <2>2. Spares(ring, ring', w) BY Zenon, <1>1, <2>1, Written
    <2>3. Maps(slot', Workers) /\ Maps(ring', Workers) BY Zenon, <1>1, <1>3, <2>2 DEF Spares
    <2>4. \A u \in Workers \ {w} : slot'[u] = slot[u] /\ ring'[u] \subseteq ring[u] BY Zenon, <1>3, <2>2 DEF Spares
    <2> QED BY Zenon, <1>3, <2>3, <2>4, HomeTaken
  <1>4. ASSUME Goto(w, "run"), UNCHANGED <<slot, ring>> PROVE AtHome'
    <2>1. Maps(slot', Workers) /\ Maps(ring', Workers) BY Zenon, <1>1, <1>4
    <2>2. \A u \in Workers \ {w} : slot'[u] = slot[u] /\ ring'[u] \subseteq ring[u] BY Zenon, <1>4
    <2> QED BY Zenon, <1>4, <2>1, <2>2, HomeTaken
  <1>5. ASSUME slot[w] = Null, ring[w] = {}, Goto(w, "refill"), UNCHANGED <<slot, ring>> PROVE AtHome'
    <2>1. w \in Movers /\ Workers \subseteq Movers BY Zenon DEF Movers
    <2>2. \A u \in Workers \ {w} : pc'[u] = pc[u] BY Zenon, <1>5, <2>1, PcMoves
    <2>3. Maps(slot', Workers) /\ Maps(ring', Workers) /\ Empty(w)' BY Zenon, <1>1, <1>5 DEF Empty
    <2>4. \A u \in Workers \ {w} : pc'[u] = pc[u] /\ slot'[u] = slot[u] /\ ring'[u] \subseteq ring[u]
      BY Zenon, <1>5, <2>2
    <2> QED BY Zenon, <2>3, <2>4, OwnMove
  <1>6. \/ Goto(w, "run") /\ UNCHANGED <<slot, ring>>
        \/ Goto(w, "run") /\ (\E x : slot' = [slot EXCEPT ![w] = x]) /\ UNCHANGED ring
        \/ Goto(w, "run") /\ (\E x : ring' = [ring EXCEPT ![w] = x]) /\ UNCHANGED slot
        \/ slot[w] = Null /\ ring[w] = {} /\ Goto(w, "refill") /\ UNCHANGED <<slot, ring>>
    BY Zenon DEF Pop, Drive, queueVars
  <1> QED BY Zenon, <1>2, <1>3, <1>4, <1>5, <1>6
LEMMA RefillHome ==
    ASSUME PcType, AtHome, NEW w \in Workers, Refill(w) PROVE AtHome'
  <1>1. Maps(slot, Workers) /\ Maps(ring, Workers) BY Zenon DEF AtHome
  <1>2. ASSUME NEW x, Goto(w, "run"), ring' = [ring EXCEPT ![w] = x], UNCHANGED slot PROVE AtHome'
    <2>1. Write(ring, ring', w, x) BY Zenon, <1>2 DEF Write
    <2>2. Spares(ring, ring', w) BY Zenon, <1>1, <2>1, Written
    <2>3. Maps(slot', Workers) /\ Maps(ring', Workers) BY Zenon, <1>1, <1>2, <2>2 DEF Spares
    <2>4. \A u \in Workers \ {w} : slot'[u] = slot[u] /\ ring'[u] \subseteq ring[u] BY Zenon, <1>2, <2>2 DEF Spares
    <2> QED BY Zenon, <1>2, <2>3, <2>4, HomeTaken
  <1>3. pc[w] = "refill" BY Zenon DEF Refill
  <1>4. \/ Goto(w, "run") /\ (\E x : ring' = [ring EXCEPT ![w] = x]) /\ UNCHANGED slot
        \/ Goto(w, "steal") /\ UNCHANGED <<slot, ring>>
    BY Zenon DEF Refill, Drive, queueVars
  <1>5. CASE Goto(w, "steal") /\ UNCHANGED <<slot, ring>>
    <2>1. pc[w] \notin Busy BY Zenon, <1>3 DEF Busy
    <2> QED BY Zenon, <1>5, <2>1, QueueKept
  <1> QED BY ZenonT(60), <1>2, <1>4, <1>5
LEMMA StealHome ==
    ASSUME PcType, AtHome, NEW w \in Workers, Steal(w) PROVE AtHome'
  <1>1. Maps(slot, Workers) /\ Maps(ring, Workers) BY Zenon DEF AtHome
  <1>2. pc[w] = "steal" /\ UNCHANGED slot BY Zenon DEF Steal
  <1>3. pc[w] \notin Busy BY Zenon, <1>2 DEF Busy
  <1> DEFINE me == CHOOSE i \in 1..Len(Order) : Order[i] = w
             v == Order[((me - 1 + at[w]) % Len(Order)) + 1]
             Stolen(b, g) == ring' = [ring EXCEPT ![v] = @ \ b, ![w] = @ \cup (b \ {g})]
  <1>4. \/ (UNCHANGED pc \/ Goto(w, "idle")) /\ UNCHANGED ring
        \/ Goto(w, "run") /\ \E b, g : Stolen(b, g)
    BY Zenon DEF Steal, Drive
  <1> HIDE DEF v, me
  <1>5. CASE (UNCHANGED pc \/ Goto(w, "idle")) /\ UNCHANGED ring BY Zenon, <1>2, <1>3, <1>5, QueueKept
  <1>6. CASE Goto(w, "run") /\ \E b, g : Stolen(b, g)
    <2>1. PICK b, g : Stolen(b, g) BY Zenon, <1>6
    <2>2. ring = [u \in Workers |-> ring[u]] BY Zenon, <1>1 DEF Maps
    <2>3. PICK x : ring' = [u \in Workers |-> IF u = w THEN x ELSE IF u = v THEN ring[v] \ b ELSE ring[u]]
      BY Zenon, <2>1, <2>2
    <2>4. Maps(ring', Workers) /\ \A u \in Workers \ {w} : ring'[u] \subseteq ring[u] BY <2>3 DEF Maps
    <2>5. Maps(slot', Workers) /\ \A u \in Workers \ {w} : slot'[u] = slot[u] /\ ring'[u] \subseteq ring[u]
      BY Zenon, <1>1, <1>2, <2>4
    <2> QED BY Zenon, <1>6, <2>4, <2>5, HomeTaken
  <1> QED BY Zenon, <1>4, <1>5, <1>6
LEMMA NextHome ==
    ASSUME PcType, AtHome, [Next]_vars
    PROVE  AtHome'
  <1>1. CASE \E t \in Threads : Tell(t)
    <2>1. UNCHANGED <<pc, slot, ring>> BY Zenon, <1>1 DEF Tell, Decide, Notify, queueVars
    <2> QED BY Zenon, <2>1, AtHomeStill
  <1>2. ASSUME NEW w \in Workers, Work(w) \/ Leave(w) \/ \E g \in Gids : Spawn(w, g)
        PROVE  AtHome'
    <2>0. w \in Movers BY Zenon DEF Movers
    <2>1. CASE Pop(w) \/ Refill(w) \/ Steal(w) BY Zenon, <2>1, PopHome, RefillHome, StealHome
    <2>2. CASE Start(w) \/ Top(w)
      <3>1. UNCHANGED <<slot, ring>> /\ (Goto(w, "top") \/ Goto(w, "exited") \/ Goto(w, "pop"))
        BY Zenon, <2>2 DEF Start, Top, queueVars
      <3>2. pc'[w] \in Busy BY Zenon, <2>0, <3>1, PcMoves DEF Busy
      <3> QED BY Zenon, <3>1, <3>2, QueueKept
    <2>3. CASE Hunt(w)
      <3>1. UNCHANGED <<slot, ring>> /\ pc[w] \notin Busy /\ (UNCHANGED pc \/ \E p : Goto(w, p))
        BY Zenon, <2>3 DEF Hunt, Search, Spin, GiveUp, Recheck, Look, queueVars, Busy
      <3> QED BY Zenon, <3>1, QueueKept
    <2>4. CASE Doze(w)
      <3>1. UNCHANGED <<slot, ring>> /\ pc[w] \notin Busy /\ (UNCHANGED pc \/ \E p : Goto(w, p))
        BY Zenon, <2>4 DEF Doze, LieDown, LookOnceMore, Look, Sleep, Awaken, Rise, queueVars, Busy
      <3> QED BY Zenon, <3>1, QueueKept
    <2>5. CASE Park(w) \/ Finish(w) \/ \E g \in Gids : Handoff(w, g)
      <3>1. UNCHANGED <<slot, ring>> /\ Goto(w, "top") BY Zenon, <2>5 DEF Park, Finish, Handoff, queueVars
      <3>2. pc'[w] \in Busy BY Zenon, <2>0, <3>1, PcMoves DEF Busy
      <3> QED BY Zenon, <3>1, <3>2, QueueKept
    <2>6. CASE Yield(w)
      <3>1. MakeRunnable(w, run[w]) /\ Goto(w, "top") BY Zenon, <2>6 DEF Yield
      <3> QED BY Zenon, <3>1, HomeMade
    <2>7. CASE \E g \in Gids : Spawn(w, g)
      <3>1. PICK g \in Gids : MakeRunnable(w, g) /\ UNCHANGED pc /\ pc[w] = "run" BY Zenon, <2>7 DEF Spawn
      <3> QED BY Zenon, <3>1, HomeMade
    <2> QED BY Zenon, <1>2, <2>1, <2>2, <2>3, <2>4, <2>5, <2>6, <2>7 DEF Work, Leave
  <1>3. CASE \E o \in Outside : Stop(o) \/ \E g \in Gids : Ready(o, g)
    <2>1. UNCHANGED <<pc, slot, ring>> BY Zenon, <1>3 DEF Stop, Ready, queueVars
    <2> QED BY Zenon, <2>1, AtHomeStill
  <1>4. ASSUME NEW j \in Joiners, Join(j) PROVE AtHome'
    <2>1. UNCHANGED <<slot, ring>> /\ (\E p : Goto(j, p))
      BY Zenon, <1>4 DEF Join, Check, CountIdle, Sleep, Awaken, Uncount, queueVars
    <2>2. j \in Movers /\ j \notin Workers BY IdleAssumption DEF Movers
    <2>3. \A u \in Workers : pc'[u] = pc[u] BY Zenon, <2>1, <2>2, PcMoves DEF Movers
    <2> QED BY Zenon, <2>1, <2>3 DEF AtHome, Empty
  <1>5. CASE UNCHANGED vars
    <2>1. UNCHANGED <<pc, slot, ring>> BY Zenon, <1>5 DEF vars, queueVars
    <2> QED BY Zenon, <2>1, AtHomeStill
  <1> QED BY Zenon, <1>1, <1>2, <1>3, <1>4, <1>5 DEF Next, Over
\* A worker that stays up knows what is in the shared queue before it sleeps.
LEMMA AwakeHears ==
    ASSUME Maps(tell', Threads), NEW w \in Workers, pc'[w] # "gap", w \notin sleeping' PROVE Heard'
  BY Zenon DEF Heard, Awake
LEMMA ToldHears ==
    ASSUME Maps(tell', Threads), NEW t \in Threads, tell'[t] # "nobody" PROVE Heard'
  BY Zenon DEF Heard
\* A notification that is not needed: somebody searches, or all are up.
LEMMA NotNeeded ==
    ASSUME PcType, CountsExact, Asleep, Joiners = {}, ~ShouldWake
    PROVE  \E w \in Workers : Awake(w)
  <1>1. CASE Searchers # {}
    <2>1. PICK w \in Workers : pc[w] \in {"spin", "found", "nothing"} BY Zenon, <1>1 DEF Searchers
    <2> QED BY Zenon, <2>1 DEF Awake, Asleep
  <1>2. CASE Searchers = {}
    <2>1. Searching = 0 BY Zenon, <1>2, FS_EmptySet DEF CountsExact
    <2>2. Workers \ Down # {}
      <3> SUFFICES ASSUME Workers \ Down = {} PROVE FALSE OBVIOUS
      <3>1. Counted = {} BY Zenon DEF Counted
      <3>2. Unparked = (0 - 0) % (Word \div Unit) BY Zenon, <3>1, FS_EmptySet DEF CountsExact
      <3>3. (0 - 0) % (Word \div Unit) = 0
        <4> DEFINE m == Word \div Unit
        <4>1. m \in Nat \ {0} BY Zenon, Sizes
        <4> HIDE DEF m
        <4>2. 0 = m * 0 + 0 /\ 0 \in 0..(m - 1) /\ 0 \in Int /\ 0 - 0 = 0 BY <4>1
        <4>3. 0 % m = 0 BY <4>1, <4>2, Split
        <4> QED BY Zenon, <4>2, <4>3 DEF m
      <3>4. Len(Order) \in Nat /\ Len(Order) # 0 BY IdleAssumption
      <3>5. ~(Unparked < Len(Order)) BY Zenon, <2>1 DEF ShouldWake
      <3> QED BY <3>2, <3>3, <3>4, <3>5
    <2>3. PICK w \in Workers : w \notin Down BY Zenon, <2>2
    <2>4. pc[w] # "gap" /\ pc[w] # "wait" BY Zenon, <2>3 DEF Down, Parked
    <2> QED BY Zenon, <2>4 DEF Awake, Asleep
  <1> QED BY Zenon, <1>1, <1>2
LEMMA TellHeard ==
    ASSUME PcType, CountsExact, Asleep, Heard, Joiners = {}, NEW t \in Threads, Tell(t)
    PROVE  Heard'
  <1>1. CASE Decide(t)
    <2>1. UNCHANGED <<pc, sleeping, shared, missed>> BY Zenon, <1>1 DEF Decide, queueVars
    <2>2. PICK p : Owe(t, p) /\ (p = "nobody" => ~ShouldWake)
      <3>1. CASE ShouldWake
        <4>1. Owe(t, "one") \/ Owe(t, "all") BY Zenon, <1>1, <3>1 DEF Decide
        <4> QED BY <4>1
      <3>2. CASE ~ShouldWake
        <4>1. Owe(t, "nobody") BY Zenon, <1>1, <3>2 DEF Decide
        <4> QED BY Zenon, <3>2, <4>1
      <3> QED BY Zenon, <3>1, <3>2
    <2>3. Maps(tell', Threads) /\ tell'[t] = p BY Zenon, <2>2, Told
    <2>4. CASE p # "nobody" BY Zenon, <2>3, <2>4, ToldHears
    <2>5. CASE p = "nobody"
      <3>1. PICK w \in Workers : Awake(w) BY Zenon, <2>2, <2>5, NotNeeded
      <3>2. pc'[w] # "gap" /\ w \notin sleeping' BY Zenon, <2>1, <3>1 DEF Awake
      <3> QED BY Zenon, <2>3, <3>2, AwakeHears
    <2> QED BY Zenon, <2>4, <2>5
  <1>2. CASE Notify(t)
    <2>1. UNCHANGED <<pc, shared>> /\ Owe(t, "nobody") BY Zenon, <1>2 DEF Notify, queueVars
    <2>2. Maps(tell', Threads) BY Zenon, <2>1, Told
    <2>3. missed' = TRUE \/ \E u \in sleeping : u \notin sleeping' BY Zenon, <1>2 DEF Notify
    <2>4. CASE missed' = TRUE BY Zenon, <2>2, <2>4 DEF Heard
    <2>5. CASE \E u \in sleeping : u \notin sleeping'
      <3>1. PICK u \in sleeping : u \notin sleeping' BY Zenon, <2>5
      <3>2. u \in Workers /\ pc'[u] # "gap" BY Zenon, <2>1 DEF Asleep, Movers
      <3> QED BY Zenon, <2>2, <3>1, <3>2, AwakeHears
    <2> QED BY Zenon, <2>3, <2>4, <2>5
  <1> QED BY Zenon, <1>1, <1>2 DEF Tell
\* Worker w moves, and is neither before nor in its wait afterwards.
LEMMA UpHeard ==
    ASSUME PcType, Asleep, Heard, NEW w \in Workers, NEW p, pc[w] # "wait", sleeping' \subseteq sleeping,
           Goto(w, p), p # "gap", UNCHANGED tell \/ \E q : Owe(w, q)
    PROVE  Heard'
  <1>1. w \in Movers /\ w \in Threads BY Zenon DEF Movers, Threads
  <1>2. pc'[w] # "gap" /\ w \notin sleeping' BY Zenon, <1>1, PcMoves DEF Asleep
  <1>3. Maps(tell', Threads)
    <2>1. CASE UNCHANGED tell BY Zenon, <2>1 DEF Heard
    <2>2. CASE \E q : Owe(w, q) BY Zenon, <1>1, <2>2, Told
    <2> QED BY Zenon, <2>1, <2>2
  <1> QED BY Zenon, <1>2, <1>3, AwakeHears
LEMMA HereHeard ==
    ASSUME PcType, Asleep, Heard, NEW w \in Workers, pc[w] \notin {"gap", "wait"}, UNCHANGED <<pc, sleeping>>,
           UNCHANGED tell \/ \E q : Owe(w, q)
    PROVE  Heard'
  <1>1. w \in Threads BY Zenon DEF Threads
  <1>2. pc'[w] # "gap" /\ w \notin sleeping' BY Zenon DEF Asleep
  <1>3. Maps(tell', Threads)
    <2>1. CASE UNCHANGED tell BY Zenon, <2>1 DEF Heard
    <2>2. CASE \E q : Owe(w, q) BY Zenon, <1>1, <2>2, Told
    <2> QED BY Zenon, <2>1, <2>2
  <1> QED BY Zenon, <1>2, <1>3, AwakeHears
LEMMA WorkHeard ==
    ASSUME PcType, Asleep, Heard, NEW w \in Workers, Work(w)
    PROVE  Heard'
  <1>1. CASE Start(w) \/ Top(w) \/ Pop(w) \/ Refill(w) \/ Steal(w)
    <2>1. /\ pc[w] \notin {"gap", "wait"} /\ UNCHANGED <<sleeping, tell>>
          /\ \/ UNCHANGED pc
             \/ \E p \in {"top", "exited", "pop", "run", "refill", "steal", "idle"} : Goto(w, p)
      BY Zenon, <1>1 DEF Start, Top, Pop, Refill, Steal, Drive
    <2> QED BY Zenon, <2>1, UpHeard, HereHeard
  <1>2. CASE Search(w) \/ GiveUp(w) \/ LieDown(w) \/ Rise(w)
    <2>1. /\ pc[w] \notin {"gap", "wait"} /\ UNCHANGED <<sleeping, tell>>
          /\ \E p \in {"spin", "top", "recheck", "park", "loop"} : Goto(w, p)
      BY Zenon, <1>2 DEF Search, GiveUp, LieDown, Rise
    <2> QED BY Zenon, <2>1, UpHeard
  <1>3. CASE Spin(w) \/ Recheck(w)
    <2>1. /\ pc[w] \notin {"gap", "wait"} /\ UNCHANGED sleeping /\ (UNCHANGED tell \/ \E q : Owe(w, q))
          /\ UNCHANGED pc \/ \E p \in {"found", "spin", "nothing", "top", "park"} : Goto(w, p)
      BY Zenon, <1>3 DEF Spin, Recheck, Look
    <2> QED BY Zenon, <2>1, UpHeard, HereHeard
  <1>4. CASE LookOnceMore(w)
    <2>1. pc[w] = "loop" /\ UNCHANGED <<sleeping, tell, shared>> BY Zenon, <1>4 DEF LookOnceMore, Look, queueVars
    <2>2. UNCHANGED pc \/ Goto(w, "rise") \/ (Goto(w, "gap") /\ ~Holds(at[w]) /\ at[w] = Places)
      BY Zenon, <1>4 DEF LookOnceMore, Look
    <2>3. CASE UNCHANGED pc \/ Goto(w, "rise") BY Zenon, <2>1, <2>3, UpHeard, HereHeard
    <2>4. CASE ~Holds(at[w]) /\ at[w] = Places
      <3>1. shared' = <<>> BY Zenon, <2>1, <2>4 DEF Holds
      <3> QED BY Zenon, <2>1, <3>1 DEF Heard
    <2> QED BY Zenon, <2>2, <2>3, <2>4
  <1>5. CASE Sleep(w)
    <2>1. /\ pc[w] = "gap" /\ Goto(w, "wait") /\ sleeping' = sleeping \cup {w}
          /\ UNCHANGED <<shared, tell, missed>>
      BY Zenon, <1>5 DEF Sleep, queueVars
    <2>2. ASSUME NEW u \in Workers, Awake(u) PROVE Heard'
      <3>1. u # w /\ u \in Movers /\ w \in Movers BY Zenon, <2>1, <2>2 DEF Awake, Movers
      <3>2. pc'[u] # "gap" /\ u \notin sleeping' BY Zenon, <2>1, <2>2, <3>1, PcMoves DEF Awake
      <3>3. Maps(tell', Threads) BY Zenon, <2>1 DEF Heard
      <3> QED BY Zenon, <3>2, <3>3, AwakeHears
    <2> QED BY Zenon, <2>1, <2>2 DEF Heard
  <1>6. CASE Awaken(w)
    <2>1. Goto(w, "loop") /\ w \notin sleeping' /\ UNCHANGED tell BY Zenon, <1>6 DEF Awaken, Slept
    <2>4. w \in Movers BY Zenon DEF Movers
    <2>5. pc'[w] = "loop" BY Zenon, <2>1, <2>4, PcMoves
    <2>2. pc'[w] # "gap" BY <2>5
    <2>3. Maps(tell', Threads) BY Zenon, <2>1 DEF Heard
    <2> QED BY Zenon, <2>1, <2>2, <2>3, AwakeHears
  <1> QED BY Zenon, <1>1, <1>2, <1>3, <1>4, <1>5, <1>6 DEF Work, Hunt, Doze
LEMMA NextHeard ==
    ASSUME PcType, CountsExact, Asleep, Heard, Joiners = {}, [Next]_vars
    PROVE  Heard'
  <1>1. CASE \E t \in Threads : Tell(t) BY Zenon, <1>1, TellHeard
  <1>2. ASSUME NEW w \in Workers, Work(w) \/ Leave(w) \/ \E g \in Gids : Spawn(w, g)
        PROVE  Heard'
    <2>1. CASE Work(w) BY Zenon, <2>1, WorkHeard
    <2>2. CASE Leave(w)
      <3>1. pc[w] = "run" /\ Goto(w, "top") /\ UNCHANGED sleeping /\ (UNCHANGED tell \/ \E q : Owe(w, q))
        BY Zenon, <2>2 DEF Leave, Park, Finish, Yield, Handoff, MakeRunnable
      <3> QED BY Zenon, <3>1, UpHeard
    <2>3. CASE \E g \in Gids : Spawn(w, g)
      <3>1. pc[w] = "run" /\ UNCHANGED <<pc, sleeping>> /\ (UNCHANGED tell \/ \E q : Owe(w, q))
        BY Zenon, <2>3 DEF Spawn, MakeRunnable
      <3>2. pc[w] \notin {"gap", "wait"} BY Zenon, <3>1
      <3> QED BY Zenon, <3>1, <3>2, HereHeard
    <2> QED BY Zenon, <1>2, <2>1, <2>2, <2>3
  <1>3. ASSUME NEW o \in Outside, Stop(o) \/ \E g \in Gids : Ready(o, g) PROVE Heard'
    <2>1. o \in Threads BY Zenon DEF Threads
    <2>2. Owe(o, "all") \/ Owe(o, "one?") BY Zenon, <1>3 DEF Stop, Ready
    <2>4. Maps(tell', Threads) /\ (tell'[o] = "all" \/ tell'[o] = "one?") BY Zenon, <2>1, <2>2, Told
    <2>3. tell'[o] # "nobody" BY <2>4
    <2> QED BY Zenon, <2>1, <2>3, <2>4, ToldHears
  <1>4. CASE UNCHANGED vars
    <2>1. UNCHANGED <<pc, sleeping, tell, shared, missed>> BY Zenon, <1>4 DEF vars, queueVars
    <2> QED BY Zenon, <2>1 DEF Heard, Awake
  <1> QED BY Zenon, <1>1, <1>2, <1>3, <1>4 DEF Next, Over
LEMMA InitWaking == Init => Asleep /\ AtHome /\ Heard
  <1> SUFFICES ASSUME Init PROVE Asleep /\ AtHome /\ Heard OBVIOUS
  <1>1. Asleep BY Zenon DEF Init, Asleep
  <1>2. slot = [w \in Workers |-> Null] /\ ring = [w \in Workers |-> {}]
        /\ tell = [t \in Threads |-> "nobody"] /\ shared = <<>>
    BY Zenon DEF Init
  <1>3. Maps(slot, Workers) /\ Maps(ring, Workers) /\ Maps(tell, Threads) BY <1>2 DEF Maps
  <1>4. \A w \in Workers : Empty(w) BY <1>2 DEF Empty
  <1> QED BY Zenon, <1>1, <1>2, <1>3, <1>4 DEF AtHome, Heard
LEMMA HeardNotLost == ASSUME Asleep, AtHome, Heard PROVE LostOnlyInGap
  <1> SUFFICES ASSUME Workers \subseteq sleeping, Queued # {}, \A t \in Threads : Quiet(t) PROVE missed
    BY Zenon DEF LostOnlyInGap
  <1>1. \A w \in Workers : pc[w] = "wait" BY Zenon DEF Asleep
  <1>2. \A w \in Workers : slot[w] = Null /\ ring[w] = {} BY Zenon, <1>1 DEF AtHome, Empty, Busy
  <1>3. PICK x : x \in Queued BY Zenon
  <1>4. x \in {shared[i] : i \in 1..Len(shared)} BY <1>2, <1>3 DEF Queued
  <1>5. shared # <<>>
    <2> SUFFICES ASSUME shared = <<>> PROVE FALSE OBVIOUS
    <2>1. Len(shared) = 0 OBVIOUS
    <2> QED BY <1>4, <2>1
  <1>6. \A t \in Threads : tell[t] = "nobody" BY Zenon DEF Quiet
  <1>7. \A w \in Workers : ~Awake(w) BY Zenon DEF Awake
  <1> QED BY Zenon, <1>5, <1>6, <1>7 DEF Heard

\* When no thread blocks in join_blocking, a wake-up is lost only in the gap
\* of wait_for_work: if all workers sleep on queued work and no notification is
\* still owed, the last one fell between a worker's look at the queues and its
\* wait.  The look at IDLE_STATE and the bursts of notify_spawn_burst never
\* lose one.
THEOREM WakeupsLostOnlyInGap == ASSUME Joiners = {} PROVE Spec => []LostOnlyInGap
  <1> DEFINE Inv == PcType /\ Packed /\ Asleep /\ AtHome /\ Heard
  <1>1. Init => Inv BY Zenon, InitPacked, InitWaking
  <1>2. Inv /\ [Next]_vars => Inv'
    <2> SUFFICES ASSUME Inv, [Next]_vars PROVE Inv' OBVIOUS
    <2>1. CountsExact BY Zenon, PackedExact
    <2> QED BY Zenon, <2>1, NextPacked, SleepersWait, NextHome, NextHeard
  <1>3. Inv => LostOnlyInGap BY Zenon, HeardNotLost
  <1> QED BY <1>1, <1>2, <1>3, PTL DEF Spec
=============================================================================
