---------------------------- MODULE ChannelsFifo ----------------------------
(***************************************************************************)
(* For any number of goroutines, channels, capacities and values: buffer,  *)
(* parked senders and parked receivers together are one first-in first-out *)
(* queue for each channel (FifoChannel).                                   *)
(***************************************************************************)
EXTENDS ChannelsProof

\* The values in a buffer, and behind it those of the parked senders.
Line(b, s, f) == b \o [i \in 1..Len(s) |-> f[s[i]].send]

\* Two sequences with the same elements are the same.
LEMMA SameSeq ==
    ASSUME NEW S, NEW s \in Seq(S), NEW t \in Seq(S), Len(s) = Len(t), \A i \in 1..Len(s) : s[i] = t[i]
    PROVE  s = t
  OBVIOUS

\* Where each value of the line comes from.
LEMMA LineShape ==
    ASSUME NEW b \in Seq(Words), NEW s \in Seq(Gids), NEW f \in [Gids -> Suspension]
    PROVE  /\ Line(b, s, f) \in Seq(Words) /\ Len(Line(b, s, f)) = Len(b) + Len(s)
           /\ Len(b) \in Nat /\ Len(s) \in Nat
           /\ \A i \in 1..Len(b) : Line(b, s, f)[i] = b[i]
           /\ \A i \in 1..Len(s) : Line(b, s, f)[Len(b) + i] = f[s[i]].send
<1> DEFINE t == [i \in 1..Len(s) |-> f[s[i]].send]
<1>1. Len(b) \in Nat /\ Len(s) \in Nat /\ \A i \in 1..Len(s) : s[i] \in Gids
  OBVIOUS
<1>2. \A i \in 1..Len(s) : f[s[i]].send \in Words
  BY <1>1 DEF Suspension
<1>3. t \in Seq(Words) /\ Len(t) = Len(s) /\ \A i \in 1..Len(s) : t[i] = f[s[i]].send
  BY <1>1, <1>2
<1> HIDE DEF t
<1>4. /\ b \o t \in Seq(Words) /\ Len(b \o t) = Len(b) + Len(t)
      /\ \A i \in 1..Len(b) : (b \o t)[i] = b[i]
      /\ \A i \in 1..Len(t) : (b \o t)[Len(b) + i] = t[i]
  BY <1>1, <1>3
<1>5. Line(b, s, f) = b \o t
  BY Zenon DEF Line, t
<1> QED
  BY <1>1, <1>3, <1>4, <1>5

\* A line only depends on what its senders send.
LEMMA LineSame ==
    ASSUME NEW b \in Seq(Words), NEW s \in Seq(Gids),
           NEW f \in [Gids -> Suspension], NEW h \in [Gids -> Suspension],
           \A x \in Elems(s) : h[x].send = f[x].send
    PROVE  Line(b, s, h) = Line(b, s, f)
<1>1. \A i \in 1..Len(s) : h[s[i]].send = f[s[i]].send
  BY Zenon DEF Elems
<1>2. [i \in 1..Len(s) |-> h[s[i]].send] = [i \in 1..Len(s) |-> f[s[i]].send]
  BY Zenon, <1>1
<1> QED
  BY Zenon, <1>2 DEF Line

\* Nobody is parked: the line is the buffer.
LEMMA LineOfBuffer ==
    ASSUME NEW b \in Seq(Words), NEW f \in [Gids -> Suspension]
    PROVE  Line(b, <<>>, f) = b
<1>1. <<>> \in Seq(Gids) /\ Len(<<>>) = 0 /\ Len(b) \in Nat
  OBVIOUS
<1>2. /\ Line(b, <<>>, f) \in Seq(Words) /\ Len(Line(b, <<>>, f)) = Len(b) + Len(<<>>)
      /\ \A i \in 1..Len(b) : Line(b, <<>>, f)[i] = b[i]
  BY Zenon, <1>1, LineShape
<1>3. PICK t : t = Line(b, <<>>, f)
  BY Zenon
<1>4. Len(t) = Len(b) /\ t \in Seq(Words) /\ \A i \in 1..Len(t) : t[i] = b[i]
  BY <1>1, <1>2, <1>3
<1> QED
  BY Zenon, <1>3, <1>4, SameSeq

\* A sender that parks joins the line at its end.
LEMMA LineGrows ==
    ASSUME NEW b \in Seq(Words), NEW s \in Seq(Gids), NEW g \in Gids,
           NEW f \in [Gids -> Suspension], NEW h \in [Gids -> Suspension],
           \A x \in Elems(s) : h[x].send = f[x].send
    PROVE  Line(b, Append(s, g), h) = Append(Line(b, s, f), h[g].send)
<1>1. PICK t : t = Line(b, s, f)
  BY Zenon
<1>2. PICK w : w = Line(b, Append(s, g), h)
  BY Zenon
<1>3. PICK v : v = h[g].send
  BY Zenon
<1>4. v \in Words /\ Append(s, g) \in Seq(Gids) /\ Len(Append(s, g)) = Len(s) + 1
      /\ Append(s, g)[Len(s) + 1] = g /\ \A i \in 1..Len(s) : Append(s, g)[i] = s[i]
  <2>1. v \in Words
    BY <1>3 DEF Suspension
  <2> QED
    BY <2>1
<1>5. /\ t \in Seq(Words) /\ Len(t) = Len(b) + Len(s) /\ Len(b) \in Nat /\ Len(s) \in Nat
      /\ \A i \in 1..Len(b) : t[i] = b[i] 
      /\ \A i \in 1..Len(s) : t[Len(b) + i] = f[s[i]].send
  BY ZenonT(60), <1>1, LineShape
<1>6. /\ w \in Seq(Words) /\ Len(w) = Len(b) + Len(Append(s, g))
      /\ \A i \in 1..Len(b) : w[i] = b[i]
      /\ \A i \in 1..Len(Append(s, g)) : w[Len(b) + i] = h[Append(s, g)[i]].send
  BY ZenonT(60), <1>2, <1>4, LineShape
<1>7. Len(w) = Len(t) + 1 /\ w[Len(t) + 1] = v
  <2>1. Len(w) = Len(t) + 1 /\ Len(s) + 1 \in 1..Len(Append(s, g)) /\ Len(t) + 1 = Len(b) + (Len(s) + 1)
    BY <1>4, <1>5, <1>6
  <2> QED
    BY Zenon, <1>3, <1>4, <1>6, <2>1
<1>8. ASSUME NEW i \in 1..Len(t) PROVE w[i] = t[i]
  <2>1. CASE i \in 1..Len(b)
    BY Zenon, <1>5, <1>6, <2>1
  <2>2. CASE i \notin 1..Len(b)
    <3>1. PICK j \in 1..Len(s) : i = Len(b) + j
      <4>1. Len(t) = Len(b) + Len(s) /\ Len(b) \in Nat /\ Len(s) \in Nat
        BY Zenon, <1>5
      <4>2. i - Len(b) \in 1..Len(s) /\ i = Len(b) + (i - Len(b))
        BY <1>8, <2>2, <4>1
      <4> QED
        BY Zenon, <4>2
    <3>2. j \in 1..Len(Append(s, g)) /\ Append(s, g)[j] = s[j] /\ s[j] \in Elems(s)
      BY <1>4, <1>5, <3>1 DEF Elems
    <3> QED
      BY Zenon, <1>5, <1>6, <3>1, <3>2
  <2> QED
    BY Zenon, <2>1, <2>2
<1>9. w = Append(t, v)
  <2>1. /\ Append(t, v) \in Seq(Words) /\ Len(Append(t, v)) = Len(t) + 1 /\ Len(t) \in Nat
        /\ \A i \in 1..Len(t) : Append(t, v)[i] = t[i]
        /\ Append(t, v)[Len(t) + 1] = v
    <3>1. t \in Seq(Words) /\ v \in Words
      BY Zenon, <1>4, <1>5
    <3> QED
      BY <3>1
  <2>2. \A i \in 1..Len(w) : w[i] = Append(t, v)[i]
    BY <1>7, <1>8, <2>1
  <2> QED
    BY Zenon, <1>6, <1>7, <2>1, <2>2, SameSeq
<1> QED
  BY Zenon, <1>1, <1>2, <1>3, <1>9

\* The front of the line is served and everybody moves up.
LEMMA LineServed ==
    ASSUME NEW b \in Seq(Words), NEW s \in Seq(Gids), s # <<>>, NEW b2 \in Seq(Words),
           NEW f \in [Gids -> Suspension], NEW h \in [Gids -> Suspension],
           \A x \in Elems(Tail(s)) : h[x].send = f[x].send,
           Len(b2) = Len(b), \A i \in 1..Len(b) : b2[i] = Line(b, s, f)[i + 1]
    PROVE  Line(b2, Tail(s), h) = Tail(Line(b, s, f)) /\ Line(b, s, f) # <<>>
<1>1. PICK t : t = Line(b, s, f)
  BY Zenon
<1>2. PICK w : w = Line(b2, Tail(s), h)
  BY Zenon
<1>3. /\ Tail(s) \in Seq(Gids) /\ Len(Tail(s)) = Len(s) - 1 /\ Len(s) \in Nat \ {0}
      /\ \A i \in 1..Len(Tail(s)) : Tail(s)[i] = s[i + 1]
  OBVIOUS
<1>4. /\ t \in Seq(Words) /\ Len(t) = Len(b) + Len(s) /\ Len(b) \in Nat /\ Len(s) \in Nat
      /\ \A i \in 1..Len(s) : t[Len(b) + i] = f[s[i]].send
  BY Zenon, <1>1, LineShape
<1>5. /\ w \in Seq(Words) /\ Len(w) = Len(b) + Len(Tail(s))
      /\ \A i \in 1..Len(b) : w[i] = b2[i]
      /\ \A i \in 1..Len(Tail(s)) : w[Len(b) + i] = h[Tail(s)[i]].send
  <2>1. PICK u : u = Tail(s)
    BY Zenon
  <2>2. u \in Seq(Gids)
    BY Zenon, <1>3, <2>1
  <2>3. w = Line(b2, u, h)
    BY Zenon, <1>2, <2>1
  <2>4. /\ Line(b2, u, h) \in Seq(Words) /\ Len(Line(b2, u, h)) = Len(b2) + Len(u)
        /\ \A i \in 1..Len(b2) : Line(b2, u, h)[i] = b2[i]
        /\ \A i \in 1..Len(u) : Line(b2, u, h)[Len(b2) + i] = h[u[i]].send
    BY ZenonT(60), <2>2, LineShape
  <2>5. /\ w \in Seq(Words) /\ Len(w) = Len(b2) + Len(u)
        /\ \A i \in 1..Len(b2) : w[i] = b2[i]
        /\ \A i \in 1..Len(u) : w[Len(b2) + i] = h[u[i]].send
    BY Zenon, <2>3, <2>4
  <2> QED
    BY Zenon, <2>1, <2>5
<1>6. Len(t) \in Nat \ {0} /\ Len(w) = Len(t) - 1 /\ Len(Tail(s)) = Len(s) - 1
  BY <1>3, <1>4, <1>5
<1>7. t # <<>> /\ Tail(t) \in Seq(Words) /\ Len(Tail(t)) = Len(t) - 1
      /\ \A i \in 1..Len(Tail(t)) : Tail(t)[i] = t[i + 1]
  <2>1. t \in Seq(Words) /\ Len(t) # 0
    BY <1>4, <1>6
  <2> QED
    BY <2>1
<1>8. ASSUME NEW i \in 1..Len(w) PROVE w[i] = Tail(t)[i]
  <2>1. CASE i \in 1..Len(b)
    <3>1. w[i] = t[i + 1]
      BY Zenon, <1>1, <1>5, <2>1
    <3> QED
      BY Zenon, <1>6, <1>7, <1>8, <3>1
  <2>2. CASE i \notin 1..Len(b)
    <3>1. PICK j \in 1..Len(Tail(s)) : i = Len(b) + j
      <4>1. Len(w) = Len(b) + Len(Tail(s)) /\ Len(b) \in Nat /\ Len(Tail(s)) \in Nat
        BY <1>3, <1>4, <1>5
      <4>2. i - Len(b) \in 1..Len(Tail(s)) /\ i = Len(b) + (i - Len(b))
        BY <1>8, <2>2, <4>1
      <4> QED
        BY Zenon, <4>2
    <3>2. Tail(s)[j] = s[j + 1] /\ Tail(s)[j] \in Elems(Tail(s))
      BY Zenon, <1>3, <3>1 DEF Elems
    <3>3. j + 1 \in 1..Len(s) /\ i + 1 = Len(b) + (j + 1)
      <4>1. Len(Tail(s)) = Len(s) - 1 /\ Len(s) \in Nat \ {0} /\ Len(b) \in Nat
        BY Zenon, <1>3, <1>4
      <4> QED
        BY <3>1, <4>1
    <3>4. w[i] = h[Tail(s)[j]].send /\ t[i + 1] = f[s[j + 1]].send
      BY Zenon, <1>4, <1>5, <3>1, <3>3
    <3>5. w[i] = t[i + 1]
      BY Zenon, <3>2, <3>4
    <3> QED
      BY Zenon, <1>6, <1>7, <1>8, <3>5
  <2> QED
    BY Zenon, <2>1, <2>2
<1>9. Len(w) = Len(Tail(t))
  BY Zenon, <1>6, <1>7
<1>10. w = Tail(t)
  BY Zenon, <1>5, <1>7, <1>8, <1>9, SameSeq
<1> QED
  BY Zenon, <1>1, <1>2, <1>7, <1>10

\* The parked senders are turned away: the buffer is left.
LEMMA LineCut ==
    ASSUME NEW b \in Seq(Words), NEW s \in Seq(Gids), NEW f \in [Gids -> Suspension]
    PROVE  Len(b) \in 0..Len(Line(b, s, f)) /\ SubSeq(Line(b, s, f), 1, Len(b)) = b
<1>1. PICK t : t = Line(b, s, f)
  BY Zenon
<1>2. /\ t \in Seq(Words) /\ Len(t) = Len(b) + Len(s) /\ Len(b) \in Nat /\ Len(s) \in Nat
      /\ \A i \in 1..Len(b) : t[i] = b[i]
  BY Zenon, <1>1, LineShape
<1>3. Len(b) \in 0..Len(t)
  BY <1>2
<1>4. PICK n : n = Len(b)
  BY Zenon
<1>5. /\ SubSeq(t, 1, n) \in Seq(Words) /\ Len(SubSeq(t, 1, n)) = n
      /\ \A i \in 1..n : SubSeq(t, 1, n)[i] = t[i]
  <2>1. t \in Seq(Words) /\ n \in 0..Len(t)
    BY Zenon, <1>2, <1>3, <1>4
  <2>2. \A i \in 1..n : t[i] \in Words
    BY <2>1
  <2> QED
    BY <2>1, <2>2
<1>6. SubSeq(t, 1, n) = b
  BY Zenon, <1>2, <1>4, <1>5, SameSeq
<1> QED
  BY Zenon, <1>1, <1>3, <1>4, <1>6

\* What a piece of a queue consists of.
IsPiece(u, S, t, a, n) ==
    u \in Seq(S) /\ Len(u) = n - a + 1 /\ \A j \in 1..(n - a + 1) : u[j] = t[a + j - 1]

LEMMA Piece ==
    ASSUME NEW S, NEW t \in Seq(S), NEW a \in Nat \ {0}, NEW n \in Nat, n <= Len(t), a <= n + 1
    PROVE  IsPiece(SubSeq(t, a, n), S, t, a, n)
<1>1. PICK u : u = SubSeq(t, a, n)
  BY Zenon
<1>2. \A j \in 1..(n - a + 1) : t[a + j - 1] \in S
  BY SMTT(20), Z3T(20)
<1>3. u = [j \in 1..(n - a + 1) |-> t[a + j - 1]] /\ n - a + 1 \in Nat
  BY SMTT(20), Z3T(20), <1>1
<1>4. u \in Seq(S) /\ Len(u) = n - a + 1 /\ \A j \in 1..(n - a + 1) : u[j] = t[a + j - 1]
  BY SMTT(20), Z3T(20), <1>2, <1>3
<1> QED
  BY Zenon, <1>1, <1>4 DEF IsPiece

\* A queue without its i-th element.
Shortened(r, S, t, i) ==
    /\ r \in Seq(S) /\ Len(r) = Len(t) - 1
    /\ \A j \in 1..Len(r) : r[j] = IF j < i THEN t[j] ELSE t[j + 1]

LEMMA OneLess ==
    ASSUME NEW S, NEW t \in Seq(S), NEW i \in 1..Len(t), NEW r,
           r = SubSeq(t, 1, i - 1) \o SubSeq(t, i + 1, Len(t))
    PROVE  Shortened(r, S, t, i)
<1>1. PICK n : n = Len(t)
  BY Zenon
<1>2. PICK p : p = i - 1
  BY Zenon
<1>3. PICK q : q = i + 1
  BY Zenon
<1>4. /\ n \in Nat /\ n <= Len(t) /\ i \in 1..n
      /\ p \in Nat /\ p <= Len(t) /\ 1 \in Nat \ {0} /\ 1 <= p + 1
      /\ q \in Nat \ {0} /\ q <= n + 1
  BY <1>1, <1>2, <1>3
<1>5. PICK u : u = SubSeq(t, 1, p)
  BY Zenon
<1>6. PICK w : w = SubSeq(t, q, n)
  BY Zenon
<1>7. IsPiece(u, S, t, 1, p) /\ IsPiece(w, S, t, q, n)
  BY Zenon, <1>4, <1>5, <1>6, Piece
<1>8. u \in Seq(S) /\ Len(u) = p /\ \A j \in 1..p : u[j] = t[j]
  <2>1. u \in Seq(S) /\ Len(u) = p - 1 + 1 /\ \A j \in 1..(p - 1 + 1) : u[j] = t[1 + j - 1]
    BY Zenon, <1>7 DEF IsPiece
  <2> QED
    BY <1>4, <2>1
<1>9. w \in Seq(S) /\ Len(w) = n - i /\ \A j \in 1..(n - i) : w[j] = t[i + j]
  <2>1. w \in Seq(S) /\ Len(w) = n - q + 1 /\ \A j \in 1..(n - q + 1) : w[j] = t[q + j - 1]
    BY Zenon, <1>7 DEF IsPiece
  <2>2. n - q + 1 = n - i /\ \A j \in 1..(n - i) : q + j - 1 = i + j
    BY <1>3, <1>4
  <2> QED
    BY Zenon, <2>1, <2>2
<1>10. /\ u \o w \in Seq(S) /\ Len(u \o w) = Len(u) + Len(w)
       /\ \A j \in 1..Len(u) : (u \o w)[j] = u[j]
       /\ \A j \in 1..Len(w) : (u \o w)[Len(u) + j] = w[j]
  <2>1. u \in Seq(S) /\ w \in Seq(S)
    BY Zenon, <1>8, <1>9
  <2> QED
    BY <2>1
<1>11. r = u \o w
  BY Zenon, <1>1, <1>2, <1>3, <1>5, <1>6
<1>12. /\ r \in Seq(S) /\ Len(r) = p + (n - i)
       /\ \A j \in 1..p : r[j] = t[j]
       /\ \A j \in 1..(n - i) : r[p + j] = t[i + j]
  BY Zenon, <1>8, <1>9, <1>10, <1>11
<1>13. p + (n - i) = n - 1
  BY <1>2, <1>4
<1>14. ASSUME NEW j \in 1..Len(r) PROVE r[j] = IF j < i THEN t[j] ELSE t[j + 1]
  <2>1. j \in 1..(n - 1)
    BY Zenon, <1>12, <1>13
  <2>2. CASE j < i
    <3>1. j \in 1..p
      BY <1>2, <1>4, <2>1, <2>2
    <3> QED
      BY Zenon, <1>12, <2>2, <3>1
  <2>3. CASE ~(j < i)
    <3>1. j - p \in 1..(n - i) /\ p + (j - p) = j /\ i + (j - p) = j + 1
      BY <1>2, <1>4, <2>1, <2>3
    <3>2. r[p + (j - p)] = t[i + (j - p)]
      BY Zenon, <1>12, <3>1
    <3> QED
      BY Zenon, <2>3, <3>1, <3>2
  <2> QED
    BY Zenon, <2>2, <2>3
<1> QED
  BY Zenon, <1>1, <1>12, <1>13, <1>14 DEF Shortened

\* A parked sender that is dropped leaves the line, and the others close up.
LEMMA LineLeft ==
    ASSUME NEW b \in Seq(Words), NEW s \in Seq(Gids), NEW f \in [Gids -> Suspension],
           NEW g \in Elems(s)
    PROVE  \E i \in 1..Len(Line(b, s, f)) :
               Line(b, Without(s, g), f) = SubSeq(Line(b, s, f), 1, i - 1)
                                           \o SubSeq(Line(b, s, f), i + 1, Len(Line(b, s, f)))
<1>1. PICK t : t = Line(b, s, f)
  BY Zenon
<1>2. PICK k : k \in 1..Len(s) /\ s[k] = g
               /\ Without(s, g) = [i \in 1..(Len(s) - 1) |-> IF i < k THEN s[i] ELSE s[i + 1]]
  <2> DEFINE m == CHOOSE i \in 1..Len(s) : s[i] = g
  <2>1. \E i \in 1..Len(s) : s[i] = g
    BY Zenon DEF Elems
  <2>2. m \in 1..Len(s) /\ s[m] = g
    BY Zenon, <2>1
  <2>3. Without(s, g) = [i \in 1..(Len(s) - 1) |-> IF i < m THEN s[i] ELSE s[i + 1]]
    BY Zenon, <2>1 DEF Without
  <2> HIDE DEF m
  <2> QED
    BY Zenon, <2>2, <2>3
<1>3. PICK q : q = Without(s, g)
  BY Zenon
<1>4. Len(s) \in Nat /\ q \in Seq(Gids) /\ Len(q) = Len(s) - 1
      /\ \A j \in 1..Len(q) : q[j] = IF j < k THEN s[j] ELSE s[j + 1]
  <2>1. q \in Seq(Gids)
    BY Zenon, <1>3, WithoutType
  <2> QED
    BY <1>2, <1>3, <2>1
<1>5. PICK w : w = Line(b, q, f)
  BY Zenon
<1>6. /\ t \in Seq(Words) /\ Len(t) = Len(b) + Len(s) /\ Len(b) \in Nat
      /\ \A i \in 1..Len(b) : t[i] = b[i] 
      /\ \A i \in 1..Len(s) : t[Len(b) + i] = f[s[i]].send
  BY Zenon, <1>1, LineShape
<1>7. /\ w \in Seq(Words) /\ Len(w) = Len(b) + Len(q)
      /\ \A i \in 1..Len(b) : w[i] = b[i]
      /\ \A i \in 1..Len(q) : w[Len(b) + i] = f[q[i]].send
  BY Zenon, <1>4, <1>5, LineShape
<1>8. PICK i : i = Len(b) + k
  BY Zenon
<1>9. i \in 1..Len(t) /\ Len(w) = Len(t) - 1 /\ Len(b) < i
  <2>1. Len(t) = Len(b) + Len(s) /\ Len(w) = Len(b) + Len(q) /\ Len(q) = Len(s) - 1
        /\ Len(b) \in Nat /\ Len(s) \in Nat
    BY Zenon, <1>4, <1>6, <1>7
  <2> QED
    BY <1>2, <1>8, <2>1
<1>10. PICK r : r = SubSeq(t, 1, i - 1) \o SubSeq(t, i + 1, Len(t))
  BY Zenon
<1>11. /\ r \in Seq(Words) /\ Len(r) = Len(t) - 1
       /\ \A j \in 1..Len(r) : r[j] = IF j < i THEN t[j] ELSE t[j + 1]
  <2>1. Shortened(r, Words, t, i)
    BY Zenon, <1>6, <1>9, <1>10, OneLess
  <2> QED
    BY Zenon, <2>1 DEF Shortened
<1>12. ASSUME NEW j \in 1..Len(w) PROVE w[j] = r[j]
  <2>0. /\ Len(w) = Len(b) + Len(q) /\ Len(q) = Len(s) - 1 /\ Len(b) \in Nat /\ Len(s) \in Nat
        /\ j \in 1..Len(r)
    BY Zenon, <1>4, <1>6, <1>7, <1>9, <1>11, <1>12
  <2>1. CASE j \in 1..Len(b)
    <3>1. j < i
      BY <1>9, <2>0, <2>1, <1>2, <1>8
    <3> QED
      BY Zenon, <1>6, <1>7, <1>11, <2>0, <2>1, <3>1
  <2>2. CASE j \notin 1..Len(b)
    <3>1. PICK m \in 1..Len(q) : j = Len(b) + m
      <4>1. j - Len(b) \in 1..Len(q) /\ j = Len(b) + (j - Len(b))
        BY <1>12, <2>0, <2>2
      <4> QED
        BY Zenon, <4>1
    <3>2. /\ m \in 1..Len(s) /\ m + 1 \in 1..Len(s) /\ j + 1 = Len(b) + (m + 1)
          /\ (j < i <=> m < k)
      BY SMTT(30), Z3T(30), <1>2, <1>8, <2>0, <3>1
    <3>3. w[j] = f[q[m]].send /\ t[j] = f[s[m]].send /\ t[j + 1] = f[s[m + 1]].send
      BY Zenon, <1>6, <1>7, <3>1, <3>2
    <3>4. CASE m < k
      BY Zenon, <1>4, <1>11, <2>0, <3>1, <3>2, <3>3, <3>4
    <3>5. CASE ~(m < k)
      BY Zenon, <1>4, <1>11, <2>0, <3>1, <3>2, <3>3, <3>5
    <3> QED
      BY Zenon, <3>4, <3>5
  <2> QED
    BY Zenon, <2>1, <2>2
<1>13. w = r
  BY Zenon, <1>7, <1>9, <1>11, <1>12, SameSeq
<1> QED
  BY Zenon, <1>1, <1>3, <1>5, <1>9, <1>10, <1>13

\* Whoever is about to wait is being polled and has looked at what it
\* received, a value to be sent is a value, and nobody waits with something
\* received.
Settled ==
    /\ \A g \in Gids : park[g].op # "none" => g \in on /\ tls[g].recv = Null
    /\ \A g \in Gids : park[g].op = "send" => tls[g].send \in Values
    /\ \A c \in Chans : \A g \in Waiters(c) : slot[g].recv = Null

Flowing == TypeOK /\ NoMissedPartner /\ OnePlace /\ Settled

\* The fields that the refinement looks at, after each write.
LEMMA Fields ==
    ASSUME NEW s, NEW c, NEW v
    PROVE  /\ Received(s, c, v).recv = v /\ ReceivedNothing(s).recv = Null /\ Taken(s).recv = Null
           /\ SendDone(s).recv = s.recv /\ SendParked(s, c).recv = s.recv /\ Sending(s, v).recv = s.recv
           /\ ReceivedNothing(s).send = s.send /\ Taken(s).send = s.send
           /\ SendParked(s, c).send = s.send /\ Sending(s, v).send = v
           /\ Idle.recv = Null /\ NoPark.op = "none"
  BY Zenon DEF Received, ReceivedNothing, Taken, SendDone, SendParked, Sending, Idle, NoPark, State

\* A goroutine that is polled, with what its poll leaves.
Polled(g) ==
    /\ park[g].op # "none" => g \in on /\ tls[g].recv = Null
    /\ park[g].op = "send" => tls[g].send \in Values

\* A poll that goes on touches one goroutine.
LEMMA NextPolled ==
    ASSUME TypeOK, OnePlace, NEW x \in Gids, Polled(x), [Next]_vars
    PROVE  Polled(x)'
<1> USE ChannelsAssumption
<1>1. ASSUME park'[x] = park[x], tls'[x] = tls[x], x \in on => x \in on' PROVE Polled(x)'
  BY Zenon, <1>1 DEF Polled
<1>2. ASSUME UNCHANGED <<park, tls, on>> PROVE Polled(x)'
  BY Zenon, <1>1, <1>2
<1>3. ASSUME NEW g \in Gids, EndPoll(g) PROVE Polled(x)'
  <2>1. CASE g = x
    <3>1. park'[x] = NoPark
      BY Zenon, <1>3, <2>1 DEF EndPoll, TypeOK
    <3>2. park'[x].op = "none"
      BY Zenon, <3>1, Fields
    <3> QED
      BY SMT, <3>2 DEF Polled
  <2>2. CASE g # x
    BY Zenon, <1>1, <1>3, <2>2 DEF EndPoll, TypeOK
  <2> QED
    BY Zenon, <2>1, <2>2
<1>4. ASSUME NEW g \in Gids, Drive(g) PROVE Polled(x)'
  <2>1. runq[g] > 0 /\ park' = park
    BY Zenon, <1>4 DEF Drive
  <2>2. g \notin on
    BY <2>1 DEF OnePlace, TypeOK
  <2>3. CASE g = x
    <3>1. park[x].op = "none"
      BY Zenon, <2>2, <2>3 DEF Polled
    <3> QED
      BY SMT, <2>1, <3>1 DEF Polled
  <2>4. CASE g # x
    BY Zenon, <1>1, <1>4, <2>4 DEF Drive, TypeOK
  <2> QED
    BY Zenon, <2>3, <2>4
<1>5. ASSUME NEW g \in Gids, TakeResult(g) PROVE Polled(x)'
  <2>1. CASE g = x
    <3>1. tls'[x] = Taken(tls[x]) /\ park' = park /\ on' = on
      BY Zenon, <1>5, <2>1 DEF TakeResult, TypeOK
    <3>2. tls'[x].recv = Null /\ tls'[x].send = tls[x].send
      BY <3>1 DEF Taken, State
    <3> QED
      BY Zenon, <3>1, <3>2 DEF Polled
  <2>2. CASE g # x
    BY Zenon, <1>1, <1>5, <2>2 DEF TakeResult, TypeOK
  <2> QED
    BY Zenon, <2>1, <2>2
<1>6. ASSUME NEW g \in Gids, NEW c \in Chans, NEW v \in Values, ParkSend(g, c, v) PROVE Polled(x)'
  <2>1. CASE g = x
    <3>1. tls'[x] = Sending(tls[x], v) /\ on' = on /\ x \in on /\ tls[x].recv = Null
      BY Zenon, <1>6, <2>1 DEF ParkSend, TypeOK, CanUse, CanAct
    <3>2. tls'[x].recv = Null /\ tls'[x].send = v
      BY <3>1 DEF Sending, State
    <3> QED
      BY Zenon, <1>6, <3>1, <3>2 DEF Polled
  <2>2. CASE g # x
    BY Zenon, <1>1, <1>6, <2>2 DEF ParkSend, TypeOK
  <2> QED
    BY Zenon, <2>1, <2>2
<1>7. ASSUME NEW g \in Gids, NEW c \in Chans, ParkRecv(g, c) PROVE Polled(x)'
  <2>1. CASE g = x
    <3>1. tls'[x] = ReceivedNothing(tls[x]) /\ on' = on /\ x \in on
          /\ park'[x] = [op |-> "recv", chan |-> c]
      BY Zenon, <1>7, <2>1 DEF ParkRecv, TypeOK, CanUse, CanAct
    <3>2. tls'[x].recv = Null /\ park'[x].op = "recv" /\ "recv" # "send"
      BY <3>1 DEF ReceivedNothing, State
    <3> QED
      BY SMT, <3>1, <3>2 DEF Polled
  <2>2. CASE g # x
    BY Zenon, <1>1, <1>7, <2>2 DEF ParkRecv, TypeOK
  <2> QED
    BY Zenon, <2>1, <2>2
<1>8. ASSUME NEW g \in Gids, FlushDropped(g) \/ FlushYield(g) \/ FlushDone(g) PROVE Polled(x)'
  BY Zenon, <1>3, <1>8 DEF FlushDropped, FlushYield, FlushDone
<1>9. ASSUME NEW g \in Gids, NEW c \in Chans,
             \/ SendGone(g, c) \/ SendClosed(g, c) \/ SendHandoff(g, c)
             \/ SendBuffered(g, c) \/ SendParks(g, c)
             \/ RecvNothing(g, c) \/ RecvBuffered(g, c) \/ RecvRefills(g, c)
             \/ RecvRendezvous(g, c) \/ RecvParks(g, c)
      PROVE  Polled(x)'
  <2>1. EndPoll(g)
    BY Zenon, <1>9 DEF SendGone, SendClosed, SendHandoff, SendBuffered, SendParks, RecvNothing,
       RecvBuffered, RecvRefills, RecvRendezvous, RecvParks, Flushing
  <2> QED
    BY Zenon, <1>3, <2>1
<1>10. ASSUME NEW g \in Gids, NEW c \in Chans, DropRef(g, c) \/ Close(g, c) PROVE Polled(x)'
  BY Zenon, <1>2, <1>10 DEF DropRef, Close, taskVars
<1>11. ASSUME NEW g \in Gids, DropGoroutine(g) \/ \E v \in Handles : ReleaseHeld(g, v) PROVE Polled(x)'
  BY Zenon, <1>2, <1>11 DEF DropGoroutine, ReleaseHeld, taskVars
<1>12. CASE UNCHANGED vars
  BY Zenon, <1>2, <1>12 DEF vars, taskVars
<1> QED
  BY Zenon, <1>4, <1>5, <1>6, <1>7, <1>8, <1>9, <1>10, <1>11, <1>12 DEF Next, ChanStep

Rested == \A c \in Chans : \A g \in Waiters(c) : slot[g].recv = Null

\* A slot is only written when its goroutine parks or is let go on.
LEMMA NextRested ==
    ASSUME TypeOK, OnePlace, OnePlace', Settled, [Next]_vars
    PROVE  Rested'
<1> USE ChannelsAssumption
<1>0. /\ \A c \in Chans : senders[c] \in Seq(Gids) /\ receivers[c] \in Seq(Gids)
      /\ slot \in [Gids -> Suspension] /\ tls \in [Gids -> Suspension]
  BY Zenon DEF TypeOK
<1>1. ASSUME \A c \in Chans : /\ Elems(senders'[c]) \subseteq Elems(senders[c])
                              /\ Elems(receivers'[c]) \subseteq Elems(receivers[c]),
             \A x \in Gids : slot'[x] = slot[x] \/ runq'[x] # 0
      PROVE  Rested'
  <2> SUFFICES ASSUME NEW c \in Chans, NEW g \in Waiters(c)' PROVE slot'[g].recv = Null
    BY Zenon DEF Rested
  <2>1. g \in Waiters(c)
    BY Zenon, <1>1 DEF Waiters
  <2>2. runq'[g] = 0
    BY Zenon DEF OnePlace
  <2>3. g \in Gids
    BY Zenon, <2>1 DEF OnePlace, TypeOK
  <2>4. slot'[g] = slot[g]
    BY Zenon, <1>1, <2>2, <2>3
  <2> QED
    BY Zenon, <2>1, <2>4 DEF Settled
<1>2. ASSUME UNCHANGED <<senders, receivers>>, \A x \in Gids : slot'[x] = slot[x] \/ runq'[x] # 0
      PROVE  Rested'
  BY Zenon, <1>1, <1>2
<1>3. ASSUME NEW S, WakeAll(S), \A x \in Gids : x \notin S => slot'[x] = slot[x]
      PROVE  \A x \in Gids : slot'[x] = slot[x] \/ runq'[x] # 0
  <2>1. \A x \in Gids : x \in S => runq'[x] # 0
    BY <1>3 DEF WakeAll, TypeOK
  <2> QED
    BY Zenon, <1>3, <2>1
<1>4. ASSUME UNCHANGED <<senders, receivers, slot>> PROVE Rested'
  BY Zenon, <1>2, <1>4
<1>5. ASSUME NEW g \in Gids,
             \/ Drive(g) \/ TakeResult(g) \/ FlushDropped(g) \/ FlushDone(g)
             \/ \E v \in Handles : ReleaseHeld(g, v)
      PROVE  Rested'
  BY Zenon, <1>4, <1>5 DEF Drive, TakeResult, FlushDropped, FlushDone, ReleaseHeld, taskVars, chanVars
<1>6. ASSUME NEW g \in Gids, NEW c \in Chans, ParkRecv(g, c) \/ \E v \in Values : ParkSend(g, c, v)
      PROVE  Rested'
  BY Zenon, <1>4, <1>6 DEF ParkRecv, ParkSend, chanVars
<1>7. ASSUME NEW g \in Gids, NEW v, slot' = [slot EXCEPT ![g] = v], WakeAll({g}),
             UNCHANGED <<senders, receivers>>
      PROVE  Rested'
  <2>1. \A x \in Gids : x \notin {g} => slot'[x] = slot[x]
    BY Zenon, <1>0, <1>7
  <2>2. \A x \in Gids : slot'[x] = slot[x] \/ runq'[x] # 0
    BY Zenon, <1>3, <1>7, <2>1
  <2> QED
    BY Zenon, <1>2, <1>7, <2>2
<1>8. ASSUME NEW g \in Gids, FlushYield(g) PROVE Rested'
  BY Zenon, <1>7, <1>8 DEF FlushYield, chanVars
<1>9. ASSUME NEW g \in Gids, NEW c \in Chans,
             \/ SendGone(g, c) \/ SendClosed(g, c) \/ SendBuffered(g, c)
             \/ RecvNothing(g, c) \/ RecvBuffered(g, c)
      PROVE  Rested'
  BY Zenon, <1>7, <1>9 DEF SendGone, SendClosed, SendBuffered, RecvNothing, RecvBuffered
<1>10. ASSUME NEW c \in Chans, NEW q \in {senders, receivers}, q[c] # <<>>
       PROVE  \A d \in Chans : Elems([q EXCEPT ![c] = Tail(@)][d]) \subseteq Elems(q[d])
  <2> SUFFICES ASSUME NEW d \in Chans PROVE Elems([q EXCEPT ![c] = Tail(@)][d]) \subseteq Elems(q[d])
    BY Zenon
  <2>1. q[c] \in Seq(Gids) /\ [q EXCEPT ![c] = Tail(@)][d] = IF d = c THEN Tail(q[c]) ELSE q[d]
    BY Zenon DEF TypeOK
  <2>2. Elems(Tail(q[c])) \subseteq Elems(q[c])
    BY Zenon, <1>10, <2>1, PopSets
  <2> QED
    BY Zenon, <2>1, <2>2
<1>11. ASSUME NEW g \in Gids, NEW s, NEW u, NEW v, slot' = [slot EXCEPT ![g] = u, ![s] = v] 
                                                  \/ slot' = [slot EXCEPT ![s] = u, ![g] = v],
              WakeAll({s, g})
       PROVE  \A x \in Gids : slot'[x] = slot[x] \/ runq'[x] # 0
  <2>1. \A x \in Gids : x \notin {s, g} => slot'[x] = slot[x]
    BY Zenon, <1>0, <1>11
  <2> QED
    BY Zenon, <1>3, <1>11, <2>1
<1>12. ASSUME NEW g \in Gids, NEW c \in Chans, SendHandoff(g, c) PROVE Rested'
  <2>1. \A x \in Gids : slot'[x] = slot[x] \/ runq'[x] # 0
    BY Zenon, <1>11, <1>12 DEF SendHandoff
  <2>2. \A d \in Chans : /\ Elems(senders'[d]) \subseteq Elems(senders[d])
                         /\ Elems(receivers'[d]) \subseteq Elems(receivers[d])
    BY Zenon, <1>10, <1>12 DEF SendHandoff
  <2> QED
    BY Zenon, <1>1, <2>1, <2>2
<1>13. ASSUME NEW g \in Gids, NEW c \in Chans, RecvRefills(g, c) \/ RecvRendezvous(g, c) PROVE Rested'
  <2>1. \A x \in Gids : slot'[x] = slot[x] \/ runq'[x] # 0
    BY Zenon, <1>11, <1>13 DEF RecvRefills, RecvRendezvous
  <2>2. \A d \in Chans : /\ Elems(senders'[d]) \subseteq Elems(senders[d])
                         /\ Elems(receivers'[d]) \subseteq Elems(receivers[d])
    BY Zenon, <1>10, <1>13 DEF RecvRefills, RecvRendezvous
  <2> QED
    BY Zenon, <1>1, <2>1, <2>2
<1>14. ASSUME NEW g \in Gids, NEW c \in Chans, DropRef(g, c) \/ Close(g, c) PROVE Rested'
  <2>1. \A d \in Chans : /\ senders'[d] \in {senders[d], <<>>}
                         /\ receivers'[d] \in {receivers[d], <<>>}
    BY Zenon, <1>14 DEF DropRef, Close, TypeOK
  <2>2. Elems(<<>>) = {}
    BY DEF Elems
  <2>3. \A d \in Chans : /\ Elems(senders'[d]) \subseteq Elems(senders[d])
                         /\ Elems(receivers'[d]) \subseteq Elems(receivers[d])
    BY Zenon, <2>1, <2>2
  <2>4. \A x \in Gids : slot'[x] = slot[x] \/ runq'[x] # 0
    <3>1. CASE DropRef(g, c)
      BY Zenon, <3>1 DEF DropRef, taskVars
    <3>2. CASE Close(g, c)
      <4>1. WakeAll(Elems(receivers[c]) \cup Elems(senders[c]))
            /\ \A x \in Gids : x \notin Elems(receivers[c]) \cup Elems(senders[c]) => slot'[x] = slot[x]
        BY Zenon, <3>2 DEF Close
      <4> QED
        BY Zenon, <1>3, <4>1
    <3> QED
      BY Zenon, <1>14, <3>1, <3>2
  <2> QED
    BY Zenon, <1>1, <2>3, <2>4
<1>15. ASSUME NEW g \in Gids, DropGoroutine(g) PROVE Rested'
  <2>1. \A d \in Chans : /\ Elems(senders'[d]) = Elems(senders[d]) \ {g}
                         /\ Elems(receivers'[d]) = Elems(receivers[d]) \ {g}
    BY Zenon, <1>0, <1>15, WithoutSets DEF DropGoroutine, OnePlace
  <2>2. slot' = slot
    BY Zenon, <1>15 DEF DropGoroutine
  <2> QED
    BY Zenon, <1>1, <2>1, <2>2
<1>16. ASSUME NEW g \in Gids, NEW c \in Chans, SendParks(g, c) \/ RecvParks(g, c) PROVE Rested'
  <2>1. /\ \A x \in Gids : x # g => slot'[x] = slot[x]
        /\ slot'[g] = SendParked(tls[g], c) \/ slot'[g] = tls[g]
    BY Zenon, <1>0, <1>16 DEF SendParks, RecvParks
  <2>2. tls[g].recv = Null
    <3>1. park[g].op = "send" \/ park[g].op = "recv"
      BY <1>16 DEF SendParks, RecvParks, Flushing
    <3>2. park[g].op # "none"
      BY <3>1
    <3> QED
      BY Zenon, <3>2 DEF Settled
  <2>3. slot'[g].recv = Null
    BY <2>1, <2>2 DEF SendParked, State
  <2>4. \A d \in Chans : Waiters(d)' \subseteq Waiters(d) \cup {g}
    <3> SUFFICES ASSUME NEW d \in Chans PROVE Waiters(d)' \subseteq Waiters(d) \cup {g}
      BY Zenon
    <3>1. /\ senders'[d] = senders[d] \/ senders'[d] = Append(senders[d], g)
          /\ receivers'[d] = receivers[d] \/ receivers'[d] = Append(receivers[d], g)
      <4>1. CASE d = c
        BY Zenon, <1>0, <1>16, <4>1 DEF SendParks, RecvParks, TypeOK
      <4>2. CASE d # c
        BY Zenon, <1>0, <1>16, <4>2 DEF SendParks, RecvParks, TypeOK
      <4> QED
        BY Zenon, <4>1, <4>2
    <3>2. /\ Elems(Append(senders[d], g)) = Elems(senders[d]) \cup {g}
          /\ Elems(Append(receivers[d], g)) = Elems(receivers[d]) \cup {g}
      <4>1. senders[d] \in Seq(Gids) /\ receivers[d] \in Seq(Gids)
        BY Zenon, <1>0
      <4> QED
        BY <4>1, QueueSets
    <3> QED
      BY Zenon, <3>1, <3>2 DEF Waiters
  <2> SUFFICES ASSUME NEW d \in Chans, NEW x \in Waiters(d)' PROVE slot'[x].recv = Null
    BY Zenon DEF Rested
  <2>5. CASE x = g
    BY Zenon, <2>3, <2>5
  <2>6. CASE x # g
    <3>1. x \in Waiters(d)
      BY Zenon, <2>4, <2>6
    <3>2. x \in Gids /\ slot[x].recv = Null
      BY Zenon, <3>1 DEF Settled, OnePlace, TypeOK
    <3> QED
      BY Zenon, <2>1, <2>6, <3>2
  <2> QED
    BY Zenon, <2>5, <2>6
<1>17. CASE UNCHANGED vars
  BY Zenon, <1>4, <1>17 DEF vars, taskVars, chanVars
<1> QED
  BY Zenon, <1>5, <1>6, <1>8, <1>9, <1>12, <1>13, <1>14, <1>15, <1>16, <1>17 DEF Next, ChanStep

\* Every step keeps what the refinement rests on.
LEMMA NextFlowing ==
    ASSUME Flowing, [Next]_vars
    PROVE  Flowing'
<1>1. TypeOK' /\ NoMissedPartner' /\ OnePlace'
  BY Zenon, NextType, NextMet, NextPlace DEF Flowing
<1>2. Rested'
  BY Zenon, <1>1, NextRested DEF Flowing
<1>3. \A x \in Gids : Polled(x)
  BY Zenon DEF Flowing, Settled, Polled
<1>4. \A x \in Gids : Polled(x)'
  BY Zenon, <1>3, NextPolled DEF Flowing
<1>5. Settled'
  BY Zenon, <1>2, <1>4 DEF Settled, Rested, Polled
<1> QED
  BY Zenon, <1>1, <1>5 DEF Flowing

\* What a goroutine has received and not yet looked at.
Mail(g) == IF g \in on THEN tls[g].recv ELSE IF g \in table \ done THEN slot[g].recv ELSE Null

FifoSteps == Fifo!FifoNext \/ UNCHANGED <<Queues, Inbox>>

LEMMA SameInbox ==
    ASSUME \A g \in Gids : Mail(g)' = Mail(g)
    PROVE  Inbox' = Inbox
  BY Zenon DEF Inbox, Mail

LEMMA InboxAt ==
    ASSUME NEW r \in Gids, NEW v, Mail(r)' = v, \A g \in Gids : g # r => Mail(g)' = Mail(g)
    PROVE  Inbox' = [Inbox EXCEPT ![r] = v] /\ Inbox[r] = Mail(r)
<1>1. Inbox = [g \in Gids |-> Mail(g)] /\ Inbox' = [g \in Gids |-> Mail(g)']
  BY Zenon DEF Inbox, Mail
<1> QED
  BY Zenon, <1>1

LEMMA SameQueues ==
    ASSUME \A d \in Chans : Undelivered(d)' = Undelivered(d)
    PROVE  Queues' = Queues
  BY Zenon DEF Queues

LEMMA QueueAt ==
    ASSUME NEW c \in Chans, NEW t, Undelivered(c)' = t,
           \A d \in Chans : d # c => Undelivered(d)' = Undelivered(d)
    PROVE  Queues' = [Queues EXCEPT ![c] = t] /\ Queues[c] = Undelivered(c)
  BY Zenon DEF Queues

\* A channel's line, in terms of the operator about which we know.
LEMMA LinesAre ==
    ASSUME TypeOK, NEW c \in Chans
    PROVE  /\ Undelivered(c) = Line(buf[c], senders[c], slot)
           /\ Undelivered(c)' = Line(buf'[c], senders'[c], slot')
           /\ buf[c] \in Seq(Words) /\ senders[c] \in Seq(Gids) /\ slot \in [Gids -> Suspension]
  BY Zenon DEF Undelivered, Line, TypeOK

\* A channel that a step passes by.
LEMMA StillLine ==
    ASSUME TypeOK, TypeOK', NEW d \in Chans, buf'[d] = buf[d], senders'[d] = senders[d],
           \A x \in Elems(senders[d]) : slot'[x].send = slot[x].send
    PROVE  Undelivered(d)' = Undelivered(d)
<1>1. slot' \in [Gids -> Suspension]
  BY Zenon DEF TypeOK
<1>2. Undelivered(d)' = Line(buf[d], senders[d], slot')
  BY Zenon, LinesAre
<1>3. /\ Undelivered(d) = Line(buf[d], senders[d], slot)
      /\ buf[d] \in Seq(Words) /\ senders[d] \in Seq(Gids) /\ slot \in [Gids -> Suspension]
  BY Zenon, LinesAre
<1>4. Line(buf[d], senders[d], slot') = Line(buf[d], senders[d], slot)
  BY Zenon, <1>1, <1>3, LineSame
<1> QED
  BY Zenon, <1>2, <1>3, <1>4

LEMMA StillLines ==
    ASSUME UNCHANGED <<buf, senders, slot>>
    PROVE  Queues' = Queues
  BY Zenon DEF Queues, Undelivered

\* Steps of the poll, and drive's first critical section.
LEMMA PollFifo ==
    ASSUME Flowing, NEW g \in Gids,
           \/ Drive(g) \/ TakeResult(g) \/ FlushDropped(g) \/ FlushDone(g)
           \/ \E v \in Handles : ReleaseHeld(g, v)
           \/ \E c \in Chans : ParkRecv(g, c) \/ \E v \in Values : ParkSend(g, c, v)
    PROVE  FifoSteps
<1>1. UNCHANGED <<buf, senders, slot>>
  BY Zenon DEF Drive, TakeResult, FlushDropped, FlushDone, ReleaseHeld, ParkRecv, ParkSend,
     taskVars, chanVars
<1>2. Queues' = Queues
  BY Zenon, <1>1, StillLines
<1>3. ASSUME Mail(g)' = Null, \A x \in Gids : x # g => Mail(x)' = Mail(x) PROVE FifoSteps
  <2>1. Inbox' = [Inbox EXCEPT ![g] = Null]
    BY Zenon, <1>3, InboxAt
  <2>2. Fifo!Look(g)
    BY Zenon, <1>2, <2>1 DEF Fifo!Look
  <2> QED
    BY Zenon, <2>2 DEF FifoSteps, Fifo!FifoNext
<1>4. ASSUME \A x \in Gids : Mail(x)' = Mail(x) PROVE FifoSteps
  BY Zenon, <1>2, <1>4, SameInbox DEF FifoSteps
<1>5. tls \in [Gids -> Suspension] /\ slot \in [Gids -> Suspension]
  BY Zenon DEF Flowing, TypeOK
<1>6. CASE Drive(g)
  <2>1. runq[g] > 0 /\ UNCHANGED <<table, done, slot>>
    BY Zenon, <1>6 DEF Drive
  <2>2. g \notin on /\ g \notin done
    BY <2>1 DEF Flowing, OnePlace, TypeOK
  <2>3. ASSUME NEW x \in Gids PROVE Mail(x)' = Mail(x)
    <3>1. CASE x = g
      BY Zenon, <1>5, <1>6, <2>1, <2>2, <3>1 DEF Drive, Mail
    <3>2. CASE x # g
      BY Zenon, <1>5, <1>6, <2>1, <3>2 DEF Drive, Mail
    <3> QED
      BY Zenon, <3>1, <3>2
  <2> QED
    BY Zenon, <1>4, <2>3
<1>7. CASE TakeResult(g)
  <2>1. tls'[g] = Taken(tls[g]) /\ on' = on /\ g \in on
        /\ \A x \in Gids : x # g => tls'[x] = tls[x]
    BY Zenon, <1>5, <1>7 DEF TakeResult
  <2>2. tls'[g].recv = Null
    BY <2>1 DEF Taken, State
  <2>3. UNCHANGED <<table, done, slot>>
    BY Zenon, <1>7 DEF TakeResult
  <2> QED
    BY Zenon, <1>3, <2>1, <2>2, <2>3 DEF Mail
<1>8. CASE FlushDropped(g)
  <2>1. /\ on' = on \ {g} /\ g \notin table' /\ UNCHANGED <<table, done, slot>>
        /\ \A x \in Gids : x # g => tls'[x] = tls[x]
    BY Zenon, <1>5, <1>8 DEF FlushDropped, EndPoll
  <2>2. Mail(g)' = Null
    BY Zenon, <2>1 DEF Mail
  <2>3. \A x \in Gids : x # g => Mail(x)' = Mail(x)
    BY Zenon, <2>1 DEF Mail
  <2> QED
    BY Zenon, <1>3, <2>2, <2>3
<1>9. CASE FlushDone(g)
  <2>1. /\ on' = on \ {g} /\ (g \notin table' \/ g \in done') /\ slot' = slot
        /\ \A x \in Gids : x # g => /\ tls'[x] = tls[x]
                                    /\ x \in table' \ done' <=> x \in table \ done
    <3>1. /\ on' = on \ {g} /\ slot' = slot /\ tls' = [tls EXCEPT ![g] = Idle]
          /\ \/ table' = table \ {g} /\ done' = done
             \/ done' = done \cup {g} /\ table' = table
      BY Zenon, <1>9 DEF FlushDone, EndPoll
    <3>2. (g \notin table' \/ g \in done')
          /\ \A x \in Gids : x # g => (x \in table' \ done' <=> x \in table \ done)
      BY Zenon, <3>1
    <3> QED
      BY Zenon, <1>5, <3>1, <3>2
  <2>2. Mail(g)' = Null
    BY Zenon, <2>1 DEF Mail
  <2>3. \A x \in Gids : x # g => Mail(x)' = Mail(x)
    BY Zenon, <2>1 DEF Mail
  <2> QED
    BY Zenon, <1>3, <2>2, <2>3
<1>10. CASE \E v \in Handles : ReleaseHeld(g, v)
  BY Zenon, <1>4, <1>10 DEF ReleaseHeld, taskVars, Mail
<1>11. CASE \E c \in Chans : ParkRecv(g, c) \/ \E v \in Values : ParkSend(g, c, v)
  <2>1. PICK v \in Values \cup {Null} : tls' = [tls EXCEPT ![g] = ReceivedNothing(tls[g])]
                                       \/ tls' = [tls EXCEPT ![g] = Sending(tls[g], v)]
    BY Zenon, <1>11 DEF ParkRecv, ParkSend
  <2>2. tls'[g] = ReceivedNothing(tls[g]) \/ tls'[g] = Sending(tls[g], v)
    BY Zenon, <1>5, <2>1
  <2>3. tls[g].recv = Null /\ UNCHANGED <<table, done, slot, on>>
    BY Zenon, <1>11 DEF ParkRecv, ParkSend, CanUse, CanAct
  <2>4. tls'[g].recv = Null
    BY <2>2, <2>3 DEF ReceivedNothing, Sending, State
  <2>5. \A x \in Gids : tls'[x].recv = tls[x].recv
    BY Zenon, <1>5, <2>1, <2>3, <2>4
  <2> QED
    BY Zenon, <1>4, <2>3, <2>5 DEF Mail
<1> QED
  BY Zenon, <1>6, <1>7, <1>8, <1>9, <1>10, <1>11

\* The end of a poll: nothing is left to look at, and who waits is at rest.
Ends(g) ==
    /\ Mail(g) = Null /\ Mail(g)' = slot'[g].recv
    /\ \A x \in Gids : x # g /\ slot'[x].recv = slot[x].recv => Mail(x)' = Mail(x)
    /\ \A d \in Chans : \A x \in Waiters(d) :
        x \in Gids /\ x # g /\ Mail(x) = Null /\ Mail(x)' = slot'[x].recv

LEMMA PollEnds ==
    ASSUME Flowing, NEW g \in on \cap table, tls[g].recv = Null, EndPoll(g), UNCHANGED <<table, done>>
    PROVE  Ends(g)
<1>1. /\ g \in Gids /\ g \notin done /\ on' = on \ {g} /\ tls \in [Gids -> Suspension]
      /\ \A x \in Gids : x # g => tls'[x] = tls[x]
  BY Zenon DEF Flowing, TypeOK, OnePlace, EndPoll
<1>2. Mail(g) = Null /\ Mail(g)' = slot'[g].recv
  BY Zenon, <1>1 DEF Mail
<1>3. ASSUME NEW x \in Gids, x # g, slot'[x].recv = slot[x].recv PROVE Mail(x)' = Mail(x)
  BY Zenon, <1>1, <1>3 DEF Mail
<1>4. ASSUME NEW d \in Chans, NEW x \in Waiters(d)
      PROVE  x \in Gids /\ x # g /\ Mail(x) = Null /\ Mail(x)' = slot'[x].recv
  <2>1. x \in table /\ x \notin done /\ x \notin on /\ x \in Gids /\ slot[x].recv = Null
    BY Zenon DEF Flowing, OnePlace, TypeOK, Settled
  <2> QED
    BY Zenon, <1>1, <2>1 DEF Mail
<1> QED
  BY Zenon, <1>2, <1>3, <1>4 DEF Ends

LEMMA FlushingEnds ==
    ASSUME Flowing, NEW g \in Gids, NEW op \in {"send", "recv"}, NEW c, Flushing(g, op, c)
    PROVE  Ends(g) /\ tls[g].recv = Null /\ (op = "send" => tls[g].send \in Values)
<1>1. park[g].op = op
  BY DEF Flushing
<1>2. park[g].op # "none"
  BY <1>1
<1>3. tls[g].recv = Null /\ (op = "send" => tls[g].send \in Values)
  BY Zenon, <1>1, <1>2 DEF Flowing, Settled
<1> QED
  BY Zenon, <1>3, PollEnds DEF Flushing

\* A step that writes the slot of the goroutine whose poll ends.
LEMMA OwnSlot ==
    ASSUME Flowing, Flowing', NEW g \in Gids, Ends(g), NEW w, slot' = [slot EXCEPT ![g] = w]
    PROVE  /\ slot'[g] = w
           /\ \A x \in Gids : x # g => Mail(x)' = Mail(x)
           /\ \A d \in Chans : \A x \in Elems(senders[d]) : slot'[x].send = slot[x].send
           /\ \A d \in Chans : buf'[d] = buf[d] /\ senders'[d] = senders[d] =>
                 Undelivered(d)' = Undelivered(d)
<1>1. /\ slot'[g] = w /\ \A x \in Gids : x # g => slot'[x] = slot[x]
  BY Zenon DEF Flowing, TypeOK
<1>2. \A x \in Gids : x # g => Mail(x)' = Mail(x)
  BY Zenon, <1>1 DEF Ends
<1>3. \A d \in Chans : \A x \in Elems(senders[d]) : slot'[x].send = slot[x].send
  BY Zenon, <1>1 DEF Ends, Waiters
<1>4. \A d \in Chans : buf'[d] = buf[d] /\ senders'[d] = senders[d] =>
          Undelivered(d)' = Undelivered(d)
  BY Zenon, <1>3, StillLine DEF Flowing
<1> QED
  BY Zenon, <1>1, <1>2, <1>3, <1>4

\* Nothing is received.
LEMMA OwnMail ==
    ASSUME Flowing, Flowing', NEW g \in Gids, Ends(g), NEW w, slot' = [slot EXCEPT ![g] = w], w.recv = Null
    PROVE  \A x \in Gids : Mail(x)' = Mail(x)
  BY Zenon, OwnSlot DEF Ends

\* Nothing was sent and nothing received.
LEMMA IdleFifo ==
    ASSUME Flowing, Flowing', NEW g \in Gids, Ends(g), NEW w, slot' = [slot EXCEPT ![g] = w],
           w.recv = Null, UNCHANGED <<buf, senders>>
    PROVE  FifoSteps
<1>1. \A d \in Chans : Undelivered(d)' = Undelivered(d)
  BY Zenon, OwnSlot
<1>2. \A x \in Gids : Mail(x)' = Mail(x)
  BY Zenon, OwnMail
<1> QED
  BY Zenon, <1>1, <1>2, SameQueues, SameInbox DEF FifoSteps

\* A poll that ends without a value entering or leaving a channel.
LEMMA QuietFifo ==
    ASSUME Flowing, Flowing', NEW g \in Gids,
           \/ FlushYield(g)
           \/ \E c \in Chans : \/ SendGone(g, c) \/ SendClosed(g, c)
                               \/ RecvNothing(g, c) \/ RecvParks(g, c)
    PROVE  FifoSteps
<1>1. CASE FlushYield(g)
  <2>1. Ends(g) /\ tls[g].recv = Null
    BY Zenon, <1>1, PollEnds DEF FlushYield, CanAct
  <2> QED
    BY Zenon, <1>1, <2>1, IdleFifo DEF FlushYield, chanVars
<1>2. ASSUME NEW c \in Chans, SendGone(g, c) \/ SendClosed(g, c) PROVE FifoSteps
  <2>1. Ends(g) /\ tls[g].recv = Null
    BY Zenon, <1>2, FlushingEnds DEF SendGone, SendClosed
  <2>2. SendDone(tls[g]).recv = Null
    BY <2>1 DEF SendDone, State
  <2> QED
    BY Zenon, <1>2, <2>1, <2>2, IdleFifo DEF SendGone, SendClosed
<1>3. ASSUME NEW c \in Chans, RecvNothing(g, c) \/ RecvParks(g, c) PROVE FifoSteps
  <2>1. Ends(g) /\ tls[g].recv = Null
    BY Zenon, <1>3, FlushingEnds DEF RecvNothing, RecvParks
  <2>2. ReceivedNothing(tls[g]).recv = Null
    BY DEF ReceivedNothing, State
  <2> QED
    BY Zenon, <1>3, <2>1, <2>2, IdleFifo DEF RecvNothing, RecvParks
<1> QED
  BY Zenon, <1>1, <1>2, <1>3

\* One channel and one inbox change: the steps of the abstract channel.
LEMMA PutStep ==
    ASSUME NEW c \in Chans, NEW v \in Values, Undelivered(c)' = Append(Undelivered(c), v),
           \A d \in Chans : d # c => Undelivered(d)' = Undelivered(d),
           \A x \in Gids : Mail(x)' = Mail(x)
    PROVE  FifoSteps
<1>1. Queues' = [Queues EXCEPT ![c] = Append(Undelivered(c), v)] /\ Queues[c] = Undelivered(c)
  BY Zenon, QueueAt
<1>2. Inbox' = Inbox
  BY Zenon, SameInbox
<1>3. Fifo!Put(c, v)
  BY Zenon, <1>1, <1>2 DEF Fifo!Put
<1> QED
  BY Zenon, <1>3 DEF FifoSteps, Fifo!FifoNext

LEMMA GetStep ==
    ASSUME NEW c \in Chans, NEW r \in Gids, Undelivered(c) # <<>>, Undelivered(c)' = Tail(Undelivered(c)),
           \A d \in Chans : d # c => Undelivered(d)' = Undelivered(d),
           Mail(r) = Null, Mail(r)' = Head(Undelivered(c)), \A x \in Gids : x # r => Mail(x)' = Mail(x)
    PROVE  FifoSteps
<1>1. Queues' = [Queues EXCEPT ![c] = Tail(Undelivered(c))] /\ Queues[c] = Undelivered(c)
  BY Zenon, QueueAt
<1>2. Inbox' = [Inbox EXCEPT ![r] = Head(Undelivered(c))] /\ Inbox[r] = Null
  BY Zenon, InboxAt
<1>3. Fifo!Get(c, r)
  BY Zenon, <1>1, <1>2 DEF Fifo!Get
<1> QED
  BY Zenon, <1>3 DEF FifoSteps, Fifo!FifoNext

LEMMA PutGetStep ==
    ASSUME NEW c \in Chans, NEW r \in Gids, NEW v \in Values, Undelivered(c) = <<>>,
           \A d \in Chans : Undelivered(d)' = Undelivered(d),
           Mail(r) = Null, Mail(r)' = v, \A x \in Gids : x # r => Mail(x)' = Mail(x)
    PROVE  FifoSteps
<1>1. Queues' = Queues /\ Queues[c] = <<>>
  BY Zenon, SameQueues DEF Queues
<1>2. Inbox' = [Inbox EXCEPT ![r] = v] /\ Inbox[r] = Null
  BY Zenon, InboxAt
<1>3. Fifo!PutGet(c, r, v)
  BY Zenon, <1>1, <1>2 DEF Fifo!PutGet
<1> QED
  BY Zenon, <1>3 DEF FifoSteps, Fifo!FifoNext

\* A value goes into the buffer, behind which nobody is parked.
LEMMA SendBufferedFifo ==
    ASSUME Flowing, Flowing', NEW g \in Gids, NEW c \in Chans, SendBuffered(g, c)
    PROVE  FifoSteps
<1>1. Ends(g) /\ tls[g].recv = Null /\ tls[g].send \in Values
  BY Zenon, FlushingEnds DEF SendBuffered
<1>2. /\ slot' = [slot EXCEPT ![g] = SendDone(tls[g])] /\ senders' = senders
      /\ buf'[c] = Append(buf[c], tls[g].send) /\ \A d \in Chans : d # c => buf'[d] = buf[d]
  BY Zenon DEF SendBuffered, Flowing, TypeOK
<1>3. SendDone(tls[g]).recv = Null
  BY <1>1 DEF SendDone, State
<1>4. \A x \in Gids : Mail(x)' = Mail(x)
  BY Zenon, <1>1, <1>2, <1>3, OwnMail
<1>5. \A d \in Chans : d # c => Undelivered(d)' = Undelivered(d)
  BY Zenon, <1>1, <1>2, OwnSlot
<1>6. senders[c] = <<>>
  <2>0. buf[c] \in Seq(Words) /\ Len(buf[c]) < Cap[c] /\ Cap[c] \in Nat
    BY Zenon, ChannelsAssumption DEF SendBuffered, Flowing, TypeOK
  <2>1. Len(buf[c]) < Cap[c] /\ Len(buf[c]) \in Nat /\ Cap[c] \in Nat
    BY <2>0
  <2>2. Len(buf[c]) # Cap[c]
    BY <2>1
  <2> QED
    BY Zenon, <2>2 DEF Flowing, NoMissedPartner
<1>7. /\ buf[c] \in Seq(Words) /\ buf'[c] \in Seq(Words)
      /\ slot \in [Gids -> Suspension] /\ slot' \in [Gids -> Suspension]
  BY Zenon DEF Flowing, TypeOK
<1>8. Undelivered(c) = buf[c] /\ Undelivered(c)' = buf'[c]
  <2>1. Undelivered(c) = Line(buf[c], <<>>, slot) /\ Undelivered(c)' = Line(buf'[c], <<>>, slot')
    BY Zenon, <1>2, <1>6, LinesAre DEF Flowing
  <2> QED
    BY Zenon, <1>7, <2>1, LineOfBuffer
<1> QED
  BY Zenon, <1>1, <1>2, <1>4, <1>5, <1>8, PutStep

\* The buffer is full: the sender parks with its value, behind the others.
LEMMA SendParksFifo ==
    ASSUME Flowing, Flowing', NEW g \in Gids, NEW c \in Chans, SendParks(g, c)
    PROVE  FifoSteps
<1>1. Ends(g) /\ tls[g].recv = Null /\ tls[g].send \in Values
  BY Zenon, FlushingEnds DEF SendParks
<1>2. /\ slot' = [slot EXCEPT ![g] = SendParked(tls[g], c)] /\ buf' = buf
      /\ senders'[c] = Append(senders[c], g) /\ \A d \in Chans : d # c => senders'[d] = senders[d]
  BY Zenon DEF SendParks, Flowing, TypeOK
<1>3. SendParked(tls[g], c).recv = Null /\ SendParked(tls[g], c).send = tls[g].send
  BY <1>1 DEF SendParked, State
<1>4. \A x \in Gids : Mail(x)' = Mail(x)
  BY Zenon, <1>1, <1>2, <1>3, OwnMail
<1>5. \A d \in Chans : d # c => Undelivered(d)' = Undelivered(d)
  BY Zenon, <1>1, <1>2, OwnSlot
<1>6. slot'[g].send = tls[g].send /\ \A x \in Elems(senders[c]) : slot'[x].send = slot[x].send
  BY Zenon, <1>1, <1>2, <1>3, OwnSlot
<1>7. Undelivered(c)' = Append(Undelivered(c), tls[g].send)
  <2>1. /\ Undelivered(c) = Line(buf[c], senders[c], slot)
        /\ Undelivered(c)' = Line(buf[c], Append(senders[c], g), slot')
        /\ buf[c] \in Seq(Words) /\ senders[c] \in Seq(Gids) /\ slot \in [Gids -> Suspension]
    BY Zenon, <1>2, LinesAre DEF Flowing
  <2>2. slot' \in [Gids -> Suspension]
    BY Zenon DEF Flowing, TypeOK
  <2>3. Line(buf[c], Append(senders[c], g), slot') = Append(Line(buf[c], senders[c], slot), slot'[g].send)
    BY Zenon, <1>6, <2>1, <2>2, LineGrows
  <2> QED
    BY Zenon, <1>6, <2>1, <2>3
<1> QED
  BY Zenon, <1>1, <1>4, <1>5, <1>7, PutStep

\* The oldest buffered value is received, and nobody is parked behind it.
LEMMA RecvBufferedFifo ==
    ASSUME Flowing, Flowing', NEW g \in Gids, NEW c \in Chans, RecvBuffered(g, c)
    PROVE  FifoSteps
<1>1. Ends(g)
  BY Zenon, FlushingEnds DEF RecvBuffered
<1>2. /\ slot' = [slot EXCEPT ![g] = Received(tls[g], c, Head(buf[c]))] /\ senders' = senders
      /\ buf[c] # <<>> /\ senders[c] = <<>>
      /\ buf'[c] = Tail(buf[c]) /\ \A d \in Chans : d # c => buf'[d] = buf[d]
  BY Zenon DEF RecvBuffered, Flowing, TypeOK
<1>3. Received(tls[g], c, Head(buf[c])).recv = Head(buf[c])
  BY Zenon DEF Received, State
<1>4. Mail(g)' = Head(buf[c]) /\ \A x \in Gids : x # g => Mail(x)' = Mail(x)
  BY ZenonT(60), <1>1, <1>2, <1>3, OwnSlot DEF Ends
<1>5. \A d \in Chans : d # c => Undelivered(d)' = Undelivered(d)
  BY Zenon, <1>1, <1>2, OwnSlot
<1>6. /\ buf[c] \in Seq(Words) /\ buf'[c] \in Seq(Words)
      /\ slot \in [Gids -> Suspension] /\ slot' \in [Gids -> Suspension]
  BY Zenon DEF Flowing, TypeOK
<1>7. Undelivered(c) = buf[c] /\ Undelivered(c)' = buf'[c]
  <2>1. Undelivered(c) = Line(buf[c], <<>>, slot) /\ Undelivered(c)' = Line(buf'[c], <<>>, slot')
    BY Zenon, <1>2, LinesAre DEF Flowing
  <2> QED
    BY Zenon, <1>6, <2>1, LineOfBuffer
<1> QED
  BY Zenon, <1>1, <1>2, <1>4, <1>5, <1>7, GetStep DEF Ends

\* The oldest buffered value is received and the oldest parked sender's value
\* takes the place this frees.
LEMMA LineRefilled ==
    ASSUME NEW b \in Seq(Words), b # <<>>, NEW s \in Seq(Gids), s # <<>>,
           NEW f \in [Gids -> Suspension], NEW h \in [Gids -> Suspension],
           \A x \in Elems(Tail(s)) : h[x].send = f[x].send
    PROVE  /\ Line(b, s, f) # <<>> /\ Head(Line(b, s, f)) = Head(b)
           /\ Line(Append(Tail(b), f[Head(s)].send), Tail(s), h) = Tail(Line(b, s, f))
<1>1. PICK t : t = Line(b, s, f)
  BY Zenon
<1>2. PICK v : v = f[Head(s)].send
  BY Zenon
<1>3. PICK b2 : b2 = Append(Tail(b), v)
  BY Zenon
<1>4. Head(s) = s[1] /\ Head(s) \in Gids /\ Len(s) \in Nat \ {0} /\ 1 \in 1..Len(s)
  OBVIOUS
<1>5. v \in Words
  BY <1>2, <1>4 DEF Suspension
<1>6. /\ Len(b) \in Nat \ {0} /\ b2 \in Seq(Words) /\ Len(b2) = Len(b) /\ b2[Len(b)] = v
      /\ \A i \in 1..(Len(b) - 1) : b2[i] = b[i + 1]
  <2>1. PICK u : u = Tail(b)
    BY Zenon
  <2>2. u \in Seq(Words) /\ Len(u) = Len(b) - 1 /\ Len(b) \in Nat \ {0}
        /\ \A i \in 1..(Len(b) - 1) : u[i] = b[i + 1]
    BY <2>1
  <2>3. /\ Append(u, v) \in Seq(Words) /\ Len(Append(u, v)) = Len(u) + 1
        /\ Append(u, v)[Len(u) + 1] = v /\ \A i \in 1..Len(u) : Append(u, v)[i] = u[i]
    <3>1. u \in Seq(Words) /\ v \in Words
      BY Zenon, <1>5, <2>2
    <3> QED
      BY <3>1
  <2>4. Len(u) + 1 = Len(b)
    BY <2>2
  <2> QED
    BY Zenon, <1>3, <2>1, <2>2, <2>3, <2>4
<1>7. /\ t \in Seq(Words) /\ Len(t) = Len(b) + Len(s)
      /\ \A i \in 1..Len(b) : t[i] = b[i] 
      /\ \A i \in 1..Len(s) : t[Len(b) + i] = f[s[i]].send
  BY ZenonT(60), <1>1, LineShape
<1>8. t[Len(b) + 1] = v
  BY Zenon, <1>2, <1>4, <1>7
<1>9. ASSUME NEW i \in 1..Len(b) PROVE b2[i] = t[i + 1]
  <2>1. CASE i = Len(b)
    BY Zenon, <1>6, <1>8, <2>1
  <2>2. CASE i # Len(b)
    <3>1. i \in 1..(Len(b) - 1) /\ i + 1 \in 1..Len(b)
      <4>1. Len(b) \in Nat \ {0}
        BY Zenon, <1>6
      <4> QED
        BY <2>2, <4>1
    <3> QED
      BY Zenon, <1>6, <1>7, <3>1
  <2> QED
    BY Zenon, <2>1, <2>2
<1>10. Line(b2, Tail(s), h) = Tail(t) /\ t # <<>>
  <2>1. Len(b2) = Len(b) /\ b2 \in Seq(Words) /\ \A i \in 1..Len(b) : b2[i] = Line(b, s, f)[i + 1]
    BY Zenon, <1>1, <1>6, <1>9
  <2>2. Line(b2, Tail(s), h) = Tail(Line(b, s, f)) /\ Line(b, s, f) # <<>>
    BY ZenonT(60), <2>1, LineServed
  <2> QED
    BY Zenon, <1>1, <2>2
<1>11. Head(t) = Head(b)
  <2>1. Head(b) = b[1] /\ 1 \in 1..Len(b)
    OBVIOUS
  <2>2. t[1] = b[1]
    BY Zenon, <1>7, <2>1
  <2>3. Head(t) = t[1]
    BY <1>7, <1>10
  <2> QED
    BY Zenon, <2>1, <2>2, <2>3
<1> QED
  BY Zenon, <1>1, <1>2, <1>3, <1>10, <1>11

\* Nothing is buffered: the oldest parked sender is served.
LEMMA LineMet ==
    ASSUME NEW s \in Seq(Gids), s # <<>>,
           NEW f \in [Gids -> Suspension], NEW h \in [Gids -> Suspension],
           \A x \in Elems(Tail(s)) : h[x].send = f[x].send
    PROVE  /\ Line(<<>>, s, f) # <<>> /\ Head(Line(<<>>, s, f)) = f[Head(s)].send
           /\ Line(<<>>, Tail(s), h) = Tail(Line(<<>>, s, f))
<1>1. PICK t : t = Line(<<>>, s, f)
  BY Zenon
<1>2. PICK b : b = <<>>
  BY Zenon
<1>3. Len(b) = 0 /\ 1..Len(b) = {}
  BY <1>2
<1>0. b \in Seq(Words)
  BY <1>2
<1>4. /\ t \in Seq(Words) /\ Len(t) = Len(b) + Len(s)
      /\ \A i \in 1..Len(s) : t[Len(b) + i] = f[s[i]].send
  <2>1. t = Line(b, s, f)
    BY Zenon, <1>1, <1>2
  <2> QED
    BY Zenon, <1>0, <2>1, LineShape
<1>5. Head(s) = s[1] /\ 1 \in 1..Len(s) /\ 0 + 1 = 1
  OBVIOUS
<1>6. t[1] = f[Head(s)].send
  BY Zenon, <1>3, <1>4, <1>5
<1>7. Line(b, Tail(s), h) = Tail(t) /\ t # <<>>
  <2>1. t = Line(b, s, f) /\ \A i \in 1..Len(b) : b[i] = Line(b, s, f)[i + 1]
    BY Zenon, <1>1, <1>2, <1>3
  <2>2. Len(b) = Len(b)
    BY Zenon
  <2>3. Line(b, Tail(s), h) = Tail(Line(b, s, f)) /\ Line(b, s, f) # <<>>
    BY ZenonT(60), <1>0, <2>1, <2>2, LineServed
  <2> QED
    BY Zenon, <2>1, <2>3
<1>8. Head(t) = t[1]
  BY <1>4, <1>7
<1> QED
  BY Zenon, <1>1, <1>2, <1>6, <1>7, <1>8

\* A poll ends and a parked goroutine goes on with it.
Serves(g, c, s) ==
    /\ s \in Gids /\ s # g /\ Mail(s) = Null /\ Mail(s)' = slot'[s].recv
    /\ \A x \in Gids : x \notin {g, s} => Mail(x)' = Mail(x)
    /\ \A x \in Elems(senders[c]) : x # s => slot'[x].send = slot[x].send
    /\ \A d \in Chans : d # c /\ buf'[d] = buf[d] /\ senders'[d] = senders[d] =>
          Undelivered(d)' = Undelivered(d)

LEMMA TwoSlots ==
    ASSUME Flowing, Flowing', NEW g \in Gids, Ends(g), NEW c \in Chans, NEW s \in Waiters(c),
           \A x \in Gids : x \notin {g, s} => slot'[x] = slot[x]
    PROVE  Serves(g, c, s)
<1>1. s \in Gids /\ s # g /\ Mail(s) = Null /\ Mail(s)' = slot'[s].recv
  BY Zenon DEF Ends
<1>2. \A x \in Gids : x \notin {g, s} => Mail(x)' = Mail(x)
  BY Zenon DEF Ends
<1>3. ASSUME NEW d \in Chans, NEW x \in Elems(senders[d]), x # s PROVE slot'[x].send = slot[x].send
  <2>1. x \in Gids /\ x # g
    BY Zenon DEF Ends, Waiters
  <2> QED
    BY Zenon, <1>3, <2>1
<1>4. ASSUME NEW d \in Chans, d # c, buf'[d] = buf[d], senders'[d] = senders[d]
      PROVE  Undelivered(d)' = Undelivered(d)
  <2>1. s \notin Elems(senders[d])
    BY Zenon, <1>4 DEF Flowing, OnePlace, Waiters
  <2>2. \A x \in Elems(senders[d]) : slot'[x].send = slot[x].send
    BY Zenon, <1>3, <2>1
  <2> QED
    BY Zenon, <1>4, <2>2, StillLine DEF Flowing
<1> QED
  BY Zenon, <1>1, <1>2, <1>3, <1>4 DEF Serves

\* A value is handed to a parked receiver: nothing is waiting before it.
LEMMA SendHandoffFifo ==
    ASSUME Flowing, Flowing', NEW g \in Gids, NEW c \in Chans, SendHandoff(g, c)
    PROVE  FifoSteps
<1>1. Ends(g) /\ tls[g].recv = Null /\ tls[g].send \in Values
  BY Zenon, FlushingEnds DEF SendHandoff
<1>2. PICK r : r = Head(receivers[c])
  BY Zenon
<1>3. r \in Waiters(c) /\ buf[c] = <<>> /\ senders[c] = <<>>
  <2>1. receivers[c] \in Seq(Gids) /\ receivers[c] # <<>>
    BY Zenon DEF SendHandoff, Flowing, TypeOK
  <2>2. r \in Elems(receivers[c])
    BY Zenon, <1>2, <2>1, PopSets
  <2> QED
    BY Zenon, <2>1, <2>2 DEF Waiters, Flowing, NoMissedPartner
<1>4. r \in Gids /\ r # g
  BY Zenon, <1>1, <1>3 DEF Ends
<1>5. /\ slot'[r] = Received(slot[r], c, tls[g].send) /\ slot'[g] = SendDone(tls[g])
      /\ \A x \in Gids : x \notin {g, r} => slot'[x] = slot[x]
  <2>1. slot' = [slot EXCEPT ![r] = Received(@, c, tls[g].send), ![g] = SendDone(tls[g])]
        /\ slot \in [Gids -> Suspension]
    BY Zenon, <1>2 DEF SendHandoff, Flowing, TypeOK
  <2> QED
    BY Zenon, <1>4, <2>1
<1>6. slot'[r].recv = tls[g].send /\ slot'[g].recv = Null
  BY <1>1, <1>5 DEF Received, SendDone, State
<1>7. /\ Mail(r) = Null /\ Mail(r)' = slot'[r].recv
      /\ \A x \in Gids : x \notin {g, r} => Mail(x)' = Mail(x)
      /\ \A d \in Chans : d # c /\ buf'[d] = buf[d] /\ senders'[d] = senders[d] =>
             Undelivered(d)' = Undelivered(d)
  <2>1. Serves(g, c, r)
    BY Zenon, <1>1, <1>3, <1>5, TwoSlots
  <2> QED
    BY Zenon, <2>1 DEF Serves
<1>8. UNCHANGED <<buf, senders>>
  BY Zenon DEF SendHandoff
<1>9. Undelivered(c) = <<>> /\ Undelivered(c)' = <<>>
  <2>1. /\ Undelivered(c) = Line(<<>>, <<>>, slot) /\ Undelivered(c)' = Line(<<>>, <<>>, slot')
        /\ slot \in [Gids -> Suspension]
    BY Zenon, <1>3, <1>8, LinesAre DEF Flowing
  <2>2. slot' \in [Gids -> Suspension]
    BY Zenon DEF Flowing, TypeOK
  <2>3. <<>> \in Seq(Words)
    OBVIOUS
  <2> QED
    BY Zenon, <2>1, <2>2, <2>3, LineOfBuffer
<1>10. \A d \in Chans : Undelivered(d)' = Undelivered(d)
  BY Zenon, <1>7, <1>8, <1>9
<1>11. Mail(r)' = tls[g].send /\ \A x \in Gids : x # r => Mail(x)' = Mail(x)
  <2>1. Mail(g)' = Mail(g)
    BY Zenon, <1>1, <1>6 DEF Ends
  <2> QED
    BY Zenon, <1>6, <1>7, <2>1
<1> QED
  BY Zenon, <1>1, <1>4, <1>7, <1>9, <1>10, <1>11, PutGetStep

\* A receiver takes the oldest value and a parked sender goes on.
LEMMA ServedFifo ==
    ASSUME Flowing, Flowing', NEW g \in Gids, NEW c \in Chans, NEW s, NEW v,
           Flushing(g, "recv", c), senders[c] # <<>>, s = Head(senders[c]),
           senders' = [senders EXCEPT ![c] = Tail(@)],
           slot' = [slot EXCEPT ![g] = Received(tls[g], c, v), ![s] = SendDone(@)]
    PROVE  /\ Mail(g) = Null /\ Mail(g)' = v /\ \A x \in Gids : x # g => Mail(x)' = Mail(x)
           /\ \A d \in Chans : d # c /\ buf'[d] = buf[d] => Undelivered(d)' = Undelivered(d)
           /\ \A x \in Elems(Tail(senders[c])) : slot'[x].send = slot[x].send
<1>1. Ends(g) /\ tls[g].recv = Null
  BY Zenon, FlushingEnds
<1>2. senders[c] \in Seq(Gids) /\ slot \in [Gids -> Suspension] /\ NoDuplicates(senders[c])
  BY Zenon DEF Flowing, TypeOK, OnePlace
<1>3. /\ s \in Elems(senders[c]) /\ Elems(Tail(senders[c])) = Elems(senders[c]) \ {s}
      /\ s \in Waiters(c)
  BY Zenon, <1>2, QueueSets DEF Waiters
<1>4. s \in Gids /\ s # g
  BY Zenon, <1>1, <1>3 DEF Ends
<1>5. /\ slot'[g] = Received(tls[g], c, v) /\ slot'[s] = SendDone(slot[s])
      /\ \A x \in Gids : x \notin {g, s} => slot'[x] = slot[x]
  BY Zenon, <1>2, <1>4
<1>6. slot'[g].recv = v /\ slot'[s].recv = slot[s].recv
  BY <1>5 DEF Received, SendDone, State
<1>7. /\ Mail(s) = Null /\ Mail(s)' = slot'[s].recv
      /\ \A x \in Gids : x \notin {g, s} => Mail(x)' = Mail(x)
      /\ \A x \in Elems(senders[c]) : x # s => slot'[x].send = slot[x].send
      /\ \A d \in Chans : d # c /\ buf'[d] = buf[d] /\ senders'[d] = senders[d] =>
             Undelivered(d)' = Undelivered(d)
  <2>1. Serves(g, c, s)
    BY Zenon, <1>1, <1>3, <1>5, TwoSlots
  <2> QED
    BY Zenon, <2>1 DEF Serves
<1>8. Mail(s)' = Mail(s)
  BY Zenon, <1>1, <1>4, <1>6 DEF Ends
<1>9. \A d \in Chans : d # c => senders'[d] = senders[d]
  BY Zenon DEF Flowing, TypeOK
<1> QED
  BY Zenon, <1>1, <1>3, <1>6, <1>7, <1>8, <1>9 DEF Ends

\* The oldest buffered value is received and a parked sender moves up.
LEMMA RecvRefillsFifo ==
    ASSUME Flowing, Flowing', NEW g \in Gids, NEW c \in Chans, RecvRefills(g, c)
    PROVE  FifoSteps
<1>1. PICK s : s = Head(senders[c])
  BY Zenon
<1>2. PICK v : v = Head(buf[c])
  BY Zenon
<1>3. /\ Flushing(g, "recv", c) /\ senders[c] # <<>> /\ buf[c] # <<>>
      /\ senders' = [senders EXCEPT ![c] = Tail(@)]
      /\ slot' = [slot EXCEPT ![g] = Received(tls[g], c, v), ![s] = SendDone(@)]
  BY Zenon, <1>1, <1>2 DEF RecvRefills
<1>4. /\ Mail(g) = Null /\ Mail(g)' = v /\ \A x \in Gids : x # g => Mail(x)' = Mail(x)
      /\ \A d \in Chans : d # c /\ buf'[d] = buf[d] => Undelivered(d)' = Undelivered(d)
      /\ \A x \in Elems(Tail(senders[c])) : slot'[x].send = slot[x].send
  BY Zenon, <1>1, <1>3, ServedFifo
<1>5. /\ buf'[c] = Append(Tail(buf[c]), slot[Head(senders[c])].send)
      /\ senders'[c] = Tail(senders[c])
      /\ \A d \in Chans : d # c => buf'[d] = buf[d]
  BY Zenon DEF RecvRefills, Flowing, TypeOK
<1>6. /\ Undelivered(c) = Line(buf[c], senders[c], slot)
      /\ Undelivered(c)' = Line(Append(Tail(buf[c]), slot[Head(senders[c])].send), Tail(senders[c]), slot')
      /\ buf[c] \in Seq(Words) /\ senders[c] \in Seq(Gids) /\ slot \in [Gids -> Suspension]
  BY Zenon, <1>5, LinesAre DEF Flowing
<1>7. slot' \in [Gids -> Suspension]
  BY Zenon DEF Flowing, TypeOK
<1>8. /\ Undelivered(c) # <<>> /\ Head(Undelivered(c)) = v
      /\ Undelivered(c)' = Tail(Undelivered(c))
  <2>1. /\ Line(buf[c], senders[c], slot) # <<>> /\ Head(Line(buf[c], senders[c], slot)) = Head(buf[c])
        /\ Line(Append(Tail(buf[c]), slot[Head(senders[c])].send), Tail(senders[c]), slot')
               = Tail(Line(buf[c], senders[c], slot))
    <3>1. buf[c] # <<>> /\ senders[c] # <<>>
      BY Zenon, <1>3
    <3>2. \A x \in Elems(Tail(senders[c])) : slot'[x].send = slot[x].send
      BY Zenon, <1>4
    <3>3. buf[c] \in Seq(Words) /\ senders[c] \in Seq(Gids) /\ slot \in [Gids -> Suspension]
      BY Zenon, <1>6
    <3> QED
      BY Zenon, <1>7, <3>1, <3>2, <3>3, LineRefilled
  <2> QED
    BY Zenon, <1>2, <1>6, <2>1
<1> QED
  BY Zenon, <1>4, <1>5, <1>8, GetStep

\* Without a buffer the value comes straight from the oldest parked sender.
LEMMA RecvRendezvousFifo ==
    ASSUME Flowing, Flowing', NEW g \in Gids, NEW c \in Chans, RecvRendezvous(g, c)
    PROVE  FifoSteps
<1>1. PICK s : s = Head(senders[c])
  BY Zenon
<1>2. PICK v : v = slot[s].send
  BY Zenon
<1>3. /\ Flushing(g, "recv", c) /\ senders[c] # <<>> /\ buf[c] = <<>> /\ buf' = buf
      /\ senders' = [senders EXCEPT ![c] = Tail(@)]
      /\ slot' = [slot EXCEPT ![g] = Received(tls[g], c, v), ![s] = SendDone(@)]
  BY Zenon, <1>1, <1>2 DEF RecvRendezvous
<1>4. /\ Mail(g) = Null /\ Mail(g)' = v /\ \A x \in Gids : x # g => Mail(x)' = Mail(x)
      /\ \A d \in Chans : d # c /\ buf'[d] = buf[d] => Undelivered(d)' = Undelivered(d)
      /\ \A x \in Elems(Tail(senders[c])) : slot'[x].send = slot[x].send
  BY Zenon, <1>1, <1>3, ServedFifo
<1>5. senders'[c] = Tail(senders[c])
  BY Zenon DEF RecvRendezvous, Flowing, TypeOK
<1>6. /\ Undelivered(c) = Line(<<>>, senders[c], slot)
      /\ Undelivered(c)' = Line(<<>>, Tail(senders[c]), slot')
      /\ senders[c] \in Seq(Gids) /\ slot \in [Gids -> Suspension]
  BY Zenon, <1>3, <1>5, LinesAre DEF Flowing
<1>7. slot' \in [Gids -> Suspension]
  BY Zenon DEF Flowing, TypeOK
<1>8. /\ Undelivered(c) # <<>> /\ Head(Undelivered(c)) = v
      /\ Undelivered(c)' = Tail(Undelivered(c))
  <2>1. /\ Line(<<>>, senders[c], slot) # <<>>
        /\ Head(Line(<<>>, senders[c], slot)) = slot[Head(senders[c])].send
        /\ Line(<<>>, Tail(senders[c]), slot') = Tail(Line(<<>>, senders[c], slot))
    <3>1. senders[c] # <<>> /\ senders[c] \in Seq(Gids) /\ slot \in [Gids -> Suspension]
      BY Zenon, <1>3, <1>6
    <3>2. \A x \in Elems(Tail(senders[c])) : slot'[x].send = slot[x].send
      BY Zenon, <1>4
    <3> QED
      BY Zenon, <1>7, <3>1, <3>2, LineMet
  <2> QED
    BY Zenon, <1>1, <1>2, <1>6, <2>1
<1> QED
  BY Zenon, <1>3, <1>4, <1>8, GetStep

LEMMA DiscardStep ==
    ASSUME NEW c \in Chans, NEW n \in 0..Len(Undelivered(c)),
           Undelivered(c)' = SubSeq(Undelivered(c), 1, n),
           \A d \in Chans : d # c => Undelivered(d)' = Undelivered(d),
           \A x \in Gids : Mail(x)' = Mail(x)
    PROVE  FifoSteps
<1>1. Queues' = [Queues EXCEPT ![c] = SubSeq(Undelivered(c), 1, n)] /\ Queues[c] = Undelivered(c)
  BY Zenon, QueueAt
<1>2. Inbox' = Inbox
  BY Zenon, SameInbox
<1>3. Fifo!Discard(c, n)
  BY Zenon, <1>1, <1>2 DEF Fifo!Discard
<1>4. n \in 0..Len(Queues[c])
  BY Zenon, <1>1
<1> QED
  BY Zenon, <1>3, <1>4 DEF FifoSteps, Fifo!FifoNext

\* The last reference is dropped, and the channel with all it holds.
LEMMA DropRefFifo ==
    ASSUME Flowing, Flowing', NEW g \in Gids, NEW c \in Chans, DropRef(g, c)
    PROVE  FifoSteps
<1>1. UNCHANGED <<slot, tls, on, table, done>>
  BY Zenon DEF DropRef, taskVars
<1>2. \A x \in Gids : Mail(x)' = Mail(x)
  BY Zenon, <1>1 DEF Mail
<1>3. CASE LastRef(g, c)
  <2>1. /\ buf'[c] = <<>> /\ senders'[c] = <<>>
        /\ \A d \in Chans : d # c => buf'[d] = buf[d] /\ senders'[d] = senders[d]
    BY ZenonT(60), <1>3 DEF DropRef, Flowing, TypeOK
  <2>2. \A d \in Chans : d # c => Undelivered(d)' = Undelivered(d)
    BY Zenon, <1>1, <2>1 DEF Undelivered
  <2>3. Undelivered(c)' = <<>>
    <3>1. Undelivered(c)' = Line(<<>>, <<>>, slot) /\ slot \in [Gids -> Suspension]
      BY Zenon, <1>1, <2>1, LinesAre DEF Flowing
    <3>2. <<>> \in Seq(Words)
      OBVIOUS
    <3> QED
      BY Zenon, <3>1, <3>2, LineOfBuffer
  <2>4. Undelivered(c) \in Seq(Words)
    <3>1. /\ Undelivered(c) = Line(buf[c], senders[c], slot)
          /\ buf[c] \in Seq(Words) /\ senders[c] \in Seq(Gids) /\ slot \in [Gids -> Suspension]
      BY Zenon, LinesAre DEF Flowing
    <3>2. Line(buf[c], senders[c], slot) \in Seq(Words)
      BY Zenon, <3>1, LineShape
    <3> QED
      BY Zenon, <3>1, <3>2
  <2>5. 0 \in 0..Len(Undelivered(c)) /\ SubSeq(Undelivered(c), 1, 0) = <<>>
    BY <2>4
  <2> QED
    BY Zenon, <1>2, <2>2, <2>3, <2>5, DiscardStep
<1>4. CASE ~LastRef(g, c)
  <2>1. UNCHANGED <<buf, senders>>
    BY Zenon, <1>4 DEF DropRef
  <2>2. Queues' = Queues
    BY Zenon, <1>1, <2>1, StillLines
  <2> QED
    BY Zenon, <1>2, <2>2, SameInbox DEF FifoSteps
<1> QED
  BY Zenon, <1>3, <1>4

\* close turns the parked senders away; what is buffered can still be received.
LEMMA CloseFifo ==
    ASSUME Flowing, Flowing', NEW g \in Gids, NEW c \in Chans, Close(g, c)
    PROVE  FifoSteps
<1>1. /\ receivers[c] # <<>> => buf[c] = <<>>
      /\ receivers[c] \in Seq(Gids) /\ senders[c] \in Seq(Gids) /\ buf[c] \in Seq(Words)
      /\ slot \in [Gids -> Suspension]
  BY Zenon DEF Flowing, NoMissedPartner, TypeOK
<1>2. UNCHANGED <<on, tls, table, done>>
  BY Zenon DEF Close
<1>3. ASSUME NEW x \in Elems(receivers[c]), x \in Gids PROVE slot'[x] = ReceivedNothing(slot[x])
  <2> DEFINE nth == CHOOSE i \in 1..Len(receivers[c]) : receivers[c][i] = x
  <2>1. nth \in 1..Len(receivers[c])
    BY Zenon DEF Elems
  <2> HIDE DEF nth
  <2>2. receivers[c] # <<>>
    BY <1>1, <2>1
  <2>3. ~(nth <= Len(buf[c]))
    BY <1>1, <2>1, <2>2
  <2> QED
    BY Zenon, <1>3, <2>3 DEF Close, nth
<1>4. \A x \in Gids : x \notin Waiters(c) => slot'[x] = slot[x]
  BY Zenon DEF Close, Waiters
<1>5. ASSUME NEW x \in Gids PROVE slot'[x].recv = slot[x].recv
  <2>1. CASE x \in Elems(receivers[c])
    <3>1. slot'[x] = ReceivedNothing(slot[x]) /\ slot[x].recv = Null
      BY Zenon, <1>3, <2>1 DEF Flowing, Settled, Waiters
    <3> QED
      BY <3>1 DEF ReceivedNothing, State
  <2>2. CASE x \in Elems(senders[c]) /\ x \notin Elems(receivers[c])
    <3>1. slot'[x] = SendDone(slot[x])
      BY Zenon, <2>2 DEF Close
    <3> QED
      BY <3>1 DEF SendDone, State
  <2>3. CASE x \notin Waiters(c)
    BY Zenon, <1>4, <2>3
  <2> QED
    BY Zenon, <2>1, <2>2, <2>3 DEF Waiters
<1>6. \A x \in Gids : Mail(x)' = Mail(x)
  BY Zenon, <1>2, <1>5 DEF Mail
<1>7. buf'[c] = buf[c] /\ senders'[c] = <<>>
      /\ \A d \in Chans : d # c => buf'[d] = buf[d] /\ senders'[d] = senders[d]
  <2>1. /\ buf'[c] = SubSeq(buf[c], Len(receivers[c]) + 1, Len(buf[c])) /\ senders'[c] = <<>>
        /\ \A d \in Chans : d # c => buf'[d] = buf[d] /\ senders'[d] = senders[d]
    BY Zenon DEF Close, Flowing, TypeOK
  <2>2. SubSeq(buf[c], Len(receivers[c]) + 1, Len(buf[c])) = buf[c]
    <3>1. CASE receivers[c] = <<>>
      BY <1>1, <3>1
    <3>2. CASE receivers[c] # <<>>
      <4>1. buf[c] = <<>> /\ Len(buf[c]) = 0 /\ Len(receivers[c]) \in Nat
        BY <1>1, <3>2
      <4> QED
        BY <4>1
    <3> QED
      BY Zenon, <3>1, <3>2
  <2> QED
    BY Zenon, <2>1, <2>2
<1>8. ASSUME NEW d \in Chans, d # c PROVE Undelivered(d)' = Undelivered(d)
  <2>1. \A x \in Elems(senders[d]) : x \in Gids /\ x \notin Waiters(c)
    <3>1. Waiters(d) \cap Waiters(c) = {} /\ Waiters(d) \subseteq Gids
      BY Zenon, <1>8 DEF Flowing, OnePlace, TypeOK
    <3> QED
      BY Zenon, <3>1 DEF Waiters
  <2>2. \A x \in Elems(senders[d]) : slot'[x].send = slot[x].send
    BY Zenon, <1>4, <2>1
  <2> QED
    BY Zenon, <1>7, <1>8, <2>2, StillLine DEF Flowing
<1>9. Undelivered(c)' = buf[c]
  <2>1. Undelivered(c)' = Line(buf[c], <<>>, slot')
    BY Zenon, <1>7, LinesAre DEF Flowing
  <2>2. slot' \in [Gids -> Suspension]
    BY Zenon DEF Flowing, TypeOK
  <2> QED
    BY Zenon, <1>1, <2>1, <2>2, LineOfBuffer
<1>10. Len(buf[c]) \in 0..Len(Undelivered(c)) /\ SubSeq(Undelivered(c), 1, Len(buf[c])) = buf[c]
  <2>1. Undelivered(c) = Line(buf[c], senders[c], slot)
    BY Zenon, LinesAre DEF Flowing
  <2>2. /\ Len(buf[c]) \in 0..Len(Line(buf[c], senders[c], slot))
        /\ SubSeq(Line(buf[c], senders[c], slot), 1, Len(buf[c])) = buf[c]
    BY Zenon, <1>1, LineCut
  <2> QED
    BY Zenon, <2>1, <2>2
<1> QED
  BY Zenon, <1>6, <1>8, <1>9, <1>10, DiscardStep

\* A goroutine is dropped: it leaves its wait queue with its value, or what it
\* received is lost with it.
LEMMA DropFifo ==
    ASSUME Flowing, Flowing', NEW g \in Gids, DropGoroutine(g)
    PROVE  FifoSteps
<1>1. /\ table' = table \ {g} /\ done' = done \ {g} /\ UNCHANGED <<on, tls, slot, buf>>
      /\ \A d \in Chans : senders'[d] = Without(senders[d], g)
  BY Zenon DEF DropGoroutine
<1>2. \A x \in Gids : x # g => Mail(x)' = Mail(x)
  BY Zenon, <1>1 DEF Mail
<1>3. ASSUME NEW d \in Chans, g \notin Elems(senders[d]) PROVE Undelivered(d)' = Undelivered(d)
  <2>1. senders'[d] = senders[d]
    BY Zenon, <1>1, <1>3 DEF Without, Elems
  <2> QED
    BY Zenon, <1>1, <2>1 DEF Undelivered
<1>4. CASE g \in on
  <2>1. \A d \in Chans : g \notin Elems(senders[d])
    BY Zenon, <1>4 DEF Flowing, OnePlace, Waiters
  <2>2. Mail(g)' = Mail(g)
    BY Zenon, <1>1, <1>4 DEF Mail
  <2>3. Queues' = Queues
    BY Zenon, <1>3, <2>1, SameQueues
  <2>4. Inbox' = Inbox
    BY Zenon, <1>2, <2>2, SameInbox
  <2> QED
    BY Zenon, <2>3, <2>4 DEF FifoSteps
<1>5. ASSUME g \notin on PROVE Mail(g)' = Null
  BY Zenon, <1>1, <1>5 DEF Mail
<1>6. CASE g \notin on /\ \A d \in Chans : g \notin Elems(senders[d])
  <2>1. Queues' = Queues
    BY Zenon, <1>3, <1>6, SameQueues
  <2>2. Inbox' = [Inbox EXCEPT ![g] = Null]
    BY Zenon, <1>2, <1>5, <1>6, InboxAt
  <2>3. Fifo!Look(g)
    BY Zenon, <2>1, <2>2 DEF Fifo!Look
  <2> QED
    BY Zenon, <2>3 DEF FifoSteps, Fifo!FifoNext
<1>7. ASSUME g \notin on, NEW c \in Chans, g \in Elems(senders[c]) PROVE FifoSteps
  <2>1. g \in Waiters(c)
    BY Zenon, <1>7 DEF Waiters
  <2>2. g \in table /\ g \notin done /\ slot[g].recv = Null
    BY Zenon, <2>1 DEF Flowing, OnePlace, Settled
  <2>3. Mail(g)' = Mail(g)
    BY Zenon, <1>5, <1>7, <2>2 DEF Mail
  <2>4. Inbox' = Inbox
    BY Zenon, <1>2, <2>3, SameInbox
  <2>5. \A d \in Chans : d # c => g \notin Elems(senders[d])
    BY Zenon, <2>1 DEF Flowing, OnePlace, Waiters
  <2>6. \A d \in Chans : d # c => Undelivered(d)' = Undelivered(d)
    BY Zenon, <1>3, <2>5
  <2>7. /\ Undelivered(c) = Line(buf[c], senders[c], slot)
        /\ Undelivered(c)' = Line(buf[c], Without(senders[c], g), slot)
        /\ buf[c] \in Seq(Words) /\ senders[c] \in Seq(Gids) /\ slot \in [Gids -> Suspension]
    BY Zenon, <1>1, LinesAre DEF Flowing
  <2>8. PICK t : t = Undelivered(c)
    BY Zenon
  <2>9. PICK i \in 1..Len(t) : Undelivered(c)' = SubSeq(t, 1, i - 1) \o SubSeq(t, i + 1, Len(t))
    <3>1. \E i \in 1..Len(Line(buf[c], senders[c], slot)) :
              Line(buf[c], Without(senders[c], g), slot)
                  = SubSeq(Line(buf[c], senders[c], slot), 1, i - 1)
                    \o SubSeq(Line(buf[c], senders[c], slot), i + 1, Len(Line(buf[c], senders[c], slot)))
      BY Zenon, <1>7, <2>7, LineLeft
    <3> QED
      BY Zenon, <2>7, <2>8, <3>1
  <2>10. /\ Queues' = [Queues EXCEPT ![c] = SubSeq(t, 1, i - 1) \o SubSeq(t, i + 1, Len(t))]
         /\ Queues[c] = t
    BY Zenon, <2>6, <2>8, <2>9, QueueAt
  <2>11. Fifo!Withdraw(c, i)
    BY Zenon, <2>4, <2>10 DEF Fifo!Withdraw
  <2>12. i \in 1..Len(Queues[c])
    BY Zenon, <2>9, <2>10
  <2> QED
    BY Zenon, <2>11, <2>12 DEF FifoSteps, Fifo!FifoNext
<1> QED
  BY Zenon, <1>4, <1>6, <1>7

\* For any number of goroutines, channels, capacities and values: the values
\* sent on a channel are received in the order in which they were sent and each
\* by one receiver, whichever way they take, even when goroutines are dropped
\* while they are polled and channels are used without being retained.
THEOREM ChannelsImplementFifo == Spec => ImplementsFifo
<1>1. ASSUME Init PROVE Flowing /\ Fifo!FifoInit
  <2>1. /\ \A c \in Chans : senders[c] = <<>> /\ receivers[c] = <<>> /\ buf[c] = <<>>
        /\ \A g \in Gids : park[g] = NoPark /\ tls[g] = Idle /\ slot[g] = Idle
        /\ on = {} /\ done = {} /\ runq = [g \in Gids |-> 1] /\ closed = {} /\ table = Gids
        /\ slot = [g \in Gids |-> Idle]
    BY Zenon, <1>1 DEF Init
  <2>2. Elems(<<>>) = {} /\ NoDuplicates(<<>>) /\ Len(<<>>) = 0 /\ <<>> \in Seq(Words)
    BY DEF Elems, NoDuplicates
  <2>3. TypeOK /\ \A c \in Chans : Waiters(c) = {}
    BY Zenon, <1>1, <2>1, <2>2, InitType DEF Waiters
  <2>4. OnePlace
    BY <2>1, <2>2, <2>3 DEF OnePlace
  <2>5. NoMissedPartner
    BY <2>1, <2>2, ChannelsAssumption DEF NoMissedPartner
  <2>6. Settled
    <3>1. NoPark.op = "none"
      BY Zenon DEF NoPark
    <3>2. \A g \in Gids : park[g].op = "none"
      BY Zenon, <2>1, <3>1
    <3> QED
      BY <2>3, <3>2 DEF Settled
  <2>7. slot \in [Gids -> Suspension]
    BY Zenon, <2>3 DEF TypeOK
  <2>8. ASSUME NEW c \in Chans PROVE Undelivered(c) = <<>>
    <3>1. Undelivered(c) = Line(<<>>, <<>>, slot)
      BY Zenon, <2>1, <2>3, LinesAre
    <3> QED
      BY Zenon, <2>2, <2>7, <3>1, LineOfBuffer
  <2>9. \A g \in Gids : slot[g].recv = Null
    BY <2>1 DEF Idle, State
  <2>10. Queues = [c \in Chans |-> <<>>] /\ Inbox = [g \in Gids |-> Null]
    BY Zenon, <2>1, <2>8, <2>9 DEF Queues, Inbox
  <2> QED
    BY Zenon, <2>3, <2>4, <2>5, <2>6, <2>10 DEF Flowing, Fifo!FifoInit
<1>2. ASSUME Flowing, Flowing', [Next]_vars PROVE [Fifo!FifoNext]_(Fifo!fifoVars)
  <2>1. CASE Next
    <3>1. PICK g \in Gids :
              \/ Drive(g) \/ TakeResult(g)
              \/ FlushDropped(g) \/ FlushYield(g) \/ FlushDone(g)
              \/ DropGoroutine(g)
              \/ \E v \in Handles : ReleaseHeld(g, v)
              \/ \E c \in Chans : ChanStep(g, c)
      BY Zenon, <2>1 DEF Next
    <3>2. ASSUME NEW c \in Chans, ChanStep(g, c) PROVE FifoSteps
      BY Zenon, <1>2, <3>2, PollFifo, QuietFifo, DropRefFifo, CloseFifo, SendHandoffFifo, SendBufferedFifo,
         SendParksFifo, RecvBufferedFifo, RecvRefillsFifo, RecvRendezvousFifo DEF ChanStep
    <3>3. FifoSteps
      BY Zenon, <1>2, <3>1, <3>2, PollFifo, QuietFifo, DropFifo
    <3> QED
      BY Zenon, <3>3 DEF FifoSteps, Fifo!fifoVars
  <2>2. CASE UNCHANGED vars
    <3>1. UNCHANGED <<Queues, Inbox>>
      BY Zenon, <2>2 DEF vars, taskVars, chanVars, Queues, Undelivered, Inbox
    <3> QED
      BY Zenon, <3>1 DEF Fifo!fifoVars
  <2> QED
    BY Zenon, <1>2, <2>1, <2>2
<1>3. Flowing /\ [Next]_vars => Flowing'
  BY Zenon, NextFlowing
<1>4. Spec => []Flowing
  BY <1>1, <1>3, PTL DEF Spec
<1> QED
  BY <1>1, <1>2, <1>4, PTL DEF Spec, ImplementsFifo, Fifo!FifoSpec
=============================================================================
