--------------------------- MODULE ChannelsProof ----------------------------
(***************************************************************************)
(* The properties of Channels, for any number of goroutines, channels,     *)
(* values and workers: types, no wake-up is lost, a goroutine is in one    *)
(* place; and when every goroutine retains the channels it uses, nobody is *)
(* forgotten.                                                              *)
(***************************************************************************)
EXTENDS Channels, TLAPS

-----------------------------------------------------------------------------
(* Wait queues. *)

\* Vec::retain leaves a queue of the same kind.
LEMMA WithoutType ==
    ASSUME NEW S, NEW s \in Seq(S), NEW e
    PROVE  Without(s, e) \in Seq(S)
<1>1. CASE ~ \E i \in 1..Len(s) : s[i] = e
  BY Zenon, <1>1 DEF Without
<1>2. CASE \E i \in 1..Len(s) : s[i] = e
  <2> DEFINE k == CHOOSE i \in 1..Len(s) : s[i] = e
             w == [i \in 1..(Len(s) - 1) |-> IF i < k THEN s[i] ELSE s[i + 1]]
  <2>1. Without(s, e) = w /\ k \in 1..Len(s)
    BY Zenon, <1>2 DEF Without
  <2> HIDE DEF k
  <2>2. Len(s) - 1 \in Nat /\ \A i \in 1..(Len(s) - 1) : w[i] \in S
    BY <2>1
  <2> QED
    BY <2>1, <2>2
<1> QED
  BY Zenon, <1>1, <1>2

\* What Vec::retain leaves in a wait queue, as a set.
LEMMA WithoutSets ==
    ASSUME NEW S, NEW s \in Seq(S), NEW e, NoDuplicates(s)
    PROVE  /\ Elems(Without(s, e)) = Elems(s) \ {e}
           /\ NoDuplicates(Without(s, e))
<1>1. CASE ~ \E i \in 1..Len(s) : s[i] = e
  BY Zenon, <1>1 DEF Without, Elems
<1>2. CASE \E i \in 1..Len(s) : s[i] = e
  <2> DEFINE k == CHOOSE i \in 1..Len(s) : s[i] = e
             w == [i \in 1..(Len(s) - 1) |-> IF i < k THEN s[i] ELSE s[i + 1]]
  <2>1. k \in 1..Len(s) /\ s[k] = e /\ Without(s, e) = w
    BY Zenon, <1>2 DEF Without
  <2> HIDE DEF k
  <2>2. Len(s) \in Nat \ {0} /\ Len(w) = Len(s) - 1
    BY <2>1
  <2>3. NoDuplicates(w)
    BY <2>1, <2>2 DEF NoDuplicates
  <2>4. ASSUME NEW x \in Elems(w) PROVE x \in Elems(s) /\ x # e
    BY <2>1, <2>2, <2>4 DEF Elems, NoDuplicates
  <2>5. ASSUME NEW x \in Elems(s), x # e PROVE x \in Elems(w)
    <3>1. PICK i \in 1..Len(s) : s[i] = x
      BY Zenon, <2>5 DEF Elems
    <3>2. CASE i < k
      <4>1. i \in 1..Len(w) /\ w[i] = x
        BY <2>1, <2>2, <3>1, <3>2
      <4> QED
        BY Zenon, <4>1 DEF Elems
    <3>3. CASE ~(i < k)
      <4>1. i - 1 \in 1..Len(w) /\ w[i - 1] = x
        BY <2>1, <2>2, <2>5, <3>1, <3>3
      <4> QED
        BY Zenon, <4>1 DEF Elems
    <3> QED
      BY Zenon, <3>2, <3>3
  <2> QED
    BY Zenon, <2>1, <2>3, <2>4, <2>5
<1> QED
  BY Zenon, <1>1, <1>2

\* What push_back adds to a queue, as a set.
LEMMA PushSets ==
    ASSUME NEW S, NEW s \in Seq(S), NEW e \in S
    PROVE  /\ Elems(Append(s, e)) = Elems(s) \cup {e}
           /\ NoDuplicates(s) /\ e \notin Elems(s) => NoDuplicates(Append(s, e))
<1>1. /\ Len(s) \in Nat /\ Len(Append(s, e)) = Len(s) + 1
      /\ \A i \in 1..Len(s) : Append(s, e)[i] = s[i]
      /\ Append(s, e)[Len(s) + 1] = e
  OBVIOUS
<1>2. \A x : x \in Elems(Append(s, e)) <=> x \in Elems(s) \/ x = e
  BY <1>1 DEF Elems
<1>3. NoDuplicates(s) /\ e \notin Elems(s) => NoDuplicates(Append(s, e))
  BY <1>1 DEF Elems, NoDuplicates
<1> QED
  BY Zenon, <1>2, <1>3

\* What push_back and pop_front do to a wait queue, as a set.
LEMMA QueueSets ==
    ASSUME NEW S, NEW s \in Seq(S)
    PROVE  /\ Elems(<<>>) = {} /\ NoDuplicates(<<>>)
           /\ Elems(s) \subseteq S
           /\ s # <<>> => Head(s) \in Elems(s)
           /\ s # <<>> /\ NoDuplicates(s) => /\ Elems(Tail(s)) = Elems(s) \ {Head(s)}
                                             /\ NoDuplicates(Tail(s))
           /\ \A e \in S : /\ Elems(Append(s, e)) = Elems(s) \cup {e}
                           /\ NoDuplicates(s) /\ e \notin Elems(s) => NoDuplicates(Append(s, e))
<1>1. Elems(<<>>) = {} /\ NoDuplicates(<<>>)
  BY DEF Elems, NoDuplicates
<1>2. Elems(s) \subseteq S /\ (s # <<>> => Head(s) \in Elems(s))
  BY DEF Elems
<1>3. ASSUME s # <<>>, NoDuplicates(s)
      PROVE  Elems(Tail(s)) = Elems(s) \ {Head(s)} /\ NoDuplicates(Tail(s))
  <2>1. /\ Len(s) \in Nat \ {0} /\ Head(s) = s[1] /\ Len(Tail(s)) = Len(s) - 1
        /\ \A i \in 1..(Len(s) - 1) : Tail(s)[i] = s[i + 1]
    BY <1>3
  <2>2. NoDuplicates(Tail(s))
    BY <1>3, <2>1 DEF NoDuplicates
  <2>3. ASSUME NEW e \in Elems(Tail(s)) PROVE e \in Elems(s) /\ e # Head(s)
    BY <1>3, <2>1, <2>3 DEF Elems, NoDuplicates
  <2>4. ASSUME NEW e \in Elems(s), e # Head(s) PROVE e \in Elems(Tail(s))
    <3>1. PICK i \in 1..Len(s) : s[i] = e
      BY Zenon, <2>4 DEF Elems
    <3>2. i - 1 \in 1..Len(Tail(s)) /\ Tail(s)[i - 1] = e
      BY <2>1, <2>4, <3>1
    <3> QED
      BY Zenon, <3>2 DEF Elems
  <2> QED
    BY Zenon, <2>2, <2>3, <2>4
<1>4. \A e \in S : /\ Elems(Append(s, e)) = Elems(s) \cup {e}
                   /\ NoDuplicates(s) /\ e \notin Elems(s) => NoDuplicates(Append(s, e))
  BY Zenon, PushSets
<1> QED
  BY Zenon, <1>1, <1>2, <1>3, <1>4

\* What pop_front leaves was there before.
LEMMA PopSets ==
    ASSUME NEW S, NEW s \in Seq(S), s # <<>>
    PROVE  Tail(s) \in Seq(S) /\ Elems(Tail(s)) \subseteq Elems(s) /\ Head(s) \in Elems(s)
<1>1. /\ Len(s) \in Nat \ {0} /\ Head(s) = s[1] /\ Len(Tail(s)) = Len(s) - 1
      /\ \A i \in 1..(Len(s) - 1) : Tail(s)[i] = s[i + 1]
  OBVIOUS
<1>2. Tail(s) \in Seq(S)
  OBVIOUS
<1>3. ASSUME NEW i \in 1..Len(Tail(s)) PROVE Tail(s)[i] \in Elems(s)
  BY <1>1 DEF Elems
<1>4. Elems(Tail(s)) \subseteq Elems(s)
  BY Zenon, <1>3 DEF Elems
<1>5. Head(s) \in Elems(s)
  BY <1>1 DEF Elems
<1> QED
  BY Zenon, <1>2, <1>4, <1>5

-----------------------------------------------------------------------------
(* Types. *)

\* What is left of a buffer after its front has been handed out.
LEMMA RestOfSeq ==
    ASSUME NEW S, NEW s \in Seq(S), NEW n \in Nat
    PROVE  /\ SubSeq(s, n + 1, Len(s)) \in Seq(S)
           /\ Len(SubSeq(s, n + 1, Len(s))) <= Len(s)
<1>1. Len(s) \in Nat
  OBVIOUS
<1> DEFINE r == SubSeq(s, n + 1, Len(s))
<1>2. CASE n + 1 <= Len(s)
  <2>1. \A i \in (n + 1)..Len(s) : s[i] \in S
    BY <1>1
  <2> QED
    BY <1>1, <1>2, <2>1
<1>3. CASE ~(n + 1 <= Len(s))
  BY <1>1, <1>3
<1> QED
  BY Zenon, <1>1, <1>2, <1>3

\* Every value of the thread-locals that chan_op writes is well formed.
LEMMA StateTypes ==
    ASSUME NEW t \in Suspension, NEW c, NEW v \in Words
    PROVE  /\ Idle \in Suspension
           /\ Sending(t, v) \in Suspension
           /\ SendParked(t, c) \in Suspension
           /\ SendDone(t) \in Suspension
           /\ Received(t, c, v) \in Suspension
           /\ ReceivedNothing(t) \in Suspension
           /\ Taken(t) \in Suspension
<1>1. Null \in Words /\ (c \in Owns) \in BOOLEAN
  BY DEF Words
<1> QED
  BY Zenon, <1>1 DEF Suspension, State, Idle, Sending, SendParked, SendDone, Received,
              ReceivedNothing, Taken

\* make_runnable keeps the run queues well formed.
LEMMA WakeType ==
    ASSUME runq \in [Gids -> Nat], NEW S, WakeAll(S)
    PROVE  runq' \in [Gids -> Nat]
  BY DEF WakeAll

\* The runtime starts well formed.
LEMMA InitType == Init => TypeOK
<1> SUFFICES ASSUME Init PROVE TypeOK
  BY Zenon
<1>1. Idle \in Suspension /\ NoPark \in Parks
  BY Zenon DEF Idle, State, Suspension, Words, NoPark, Parks
<1>2. /\ runq \in [Gids -> Nat]
      /\ buf \in [Chans -> Seq(Words)]
      /\ senders \in [Chans -> Seq(Gids)] /\ receivers \in [Chans -> Seq(Gids)]
  BY DEF Init
<1>3. /\ park \in [Gids -> Parks] 
      /\ tls \in [Gids -> Suspension] /\ slot \in [Gids -> Suspension]
      /\ refs \in [Chans -> SUBSET Gids] /\ held \in [Gids -> SUBSET Values]
  BY Zenon, <1>1 DEF Init
<1>4. stopped \in BOOLEAN
  BY Zenon DEF Init
<1> QED
  BY Zenon, <1>2, <1>3, <1>4 DEF Init, TypeOK

\* Every step keeps the types.
LEMMA NextType == TypeOK /\ [Next]_vars => TypeOK'
<1> SUFFICES ASSUME TypeOK, [Next]_vars PROVE TypeOK'
  BY Zenon
<1> USE ChannelsAssumption
<1>0. /\ Idle \in Suspension /\ NoPark \in Parks /\ Null \in Words
      /\ Handles \subseteq Values /\ Values \subseteq Words
  BY Zenon DEF Idle, State, Suspension, Words, NoPark, Parks, Values
<1>1. CASE UNCHANGED vars
  BY Zenon, <1>1 DEF vars, taskVars, chanVars, valueVars, TypeOK
<1>2. ASSUME NEW g \in Gids, Drive(g) PROVE TypeOK'
  <2>1. runq' \in [Gids -> Nat]
    BY <1>2 DEF Drive, TypeOK
  <2>2. tls' \in [Gids -> Suspension] /\ on' \subseteq Gids
    BY Zenon, <1>2 DEF Drive, TypeOK
  <2> QED
    BY Zenon, <1>2, <2>1, <2>2 DEF Drive, chanVars, valueVars, TypeOK
<1>3. ASSUME NEW g \in Gids, TakeResult(g) PROVE TypeOK'
  <2>1. Taken(tls[g]) \in Suspension /\ tls[g].recv \in Words
    BY Zenon, <1>0, StateTypes DEF TypeOK, Suspension
  <2>2. held' \in [Gids -> SUBSET Values]
    BY Zenon, <1>3, <2>1 DEF TakeResult, TypeOK, Words
  <2> QED
    BY Zenon, <1>3, <2>1, <2>2 DEF TakeResult, chanVars, TypeOK
<1>4. ASSUME NEW g \in Gids, FlushDropped(g) PROVE TypeOK'
  BY Zenon, <1>0, <1>4 DEF FlushDropped, EndPoll, chanVars, valueVars, TypeOK
<1>5. ASSUME NEW g \in Gids, FlushYield(g) PROVE TypeOK'
  BY Zenon, <1>0, <1>5, WakeType DEF FlushYield, EndPoll, chanVars, valueVars, TypeOK
<1>6. ASSUME NEW g \in Gids, FlushDone(g) PROVE TypeOK'
  BY Zenon, <1>0, <1>6 DEF FlushDone, EndPoll, chanVars, valueVars, TypeOK
<1>8. ASSUME NEW g \in Gids, NEW v \in Handles, ReleaseHeld(g, v) PROVE TypeOK'
  BY Zenon, <1>0, <1>8 DEF ReleaseHeld, taskVars, chanVars, TypeOK
<1>9. ASSUME NEW g \in Gids, NEW c \in Chans, NEW v \in Values, ParkSend(g, c, v) PROVE TypeOK'
  <2>1. Sending(tls[g], v) \in Suspension /\ [op |-> "send", chan |-> c] \in Parks
    BY Zenon, <1>0, StateTypes DEF TypeOK, Parks
  <2> QED
    BY Zenon, <1>9, <2>1 DEF ParkSend, chanVars, TypeOK
<1>10. ASSUME NEW g \in Gids, NEW c \in Chans, ParkRecv(g, c) PROVE TypeOK'
  <2>1. ReceivedNothing(tls[g]) \in Suspension /\ [op |-> "recv", chan |-> c] \in Parks
    BY Zenon, <1>0, StateTypes DEF TypeOK, Parks
  <2> QED
    BY Zenon, <1>10, <2>1 DEF ParkRecv, chanVars, valueVars, TypeOK
<1>11. ASSUME NEW g \in Gids, NEW c \in Chans, DropRef(g, c) PROVE TypeOK'
  <2>1. Owned(c, Elems(buf[c])) \subseteq Words
    BY DEF Owned, Elems, TypeOK
  <2>2. \A S : <<>> \in Seq(S)
    OBVIOUS
  <2>3. refs' \in [Chans -> SUBSET Gids] /\ chans' \subseteq Chans /\ released' \subseteq Words
    BY Zenon, <1>11, <2>1 DEF DropRef, LastRef, TypeOK
  <2>4. /\ buf' \in [Chans -> Seq(Words)]
        /\ senders' \in [Chans -> Seq(Gids)] /\ receivers' \in [Chans -> Seq(Gids)]
    <3>1. CASE refs[c] = {g}
      <4>1. /\ buf' = [buf EXCEPT ![c] = <<>>]
            /\ senders' = [senders EXCEPT ![c] = <<>>]
            /\ receivers' = [receivers EXCEPT ![c] = <<>>]
        BY Zenon, <1>11, <3>1 DEF DropRef, LastRef
      <4>2. buf' \in [Chans -> Seq(Words)]
        BY Zenon, <2>2, <4>1 DEF TypeOK
      <4>3. senders' \in [Chans -> Seq(Gids)]
        BY Zenon, <2>2, <4>1 DEF TypeOK
      <4>4. receivers' \in [Chans -> Seq(Gids)]
        BY Zenon, <2>2, <4>1 DEF TypeOK
      <4> QED
        BY Zenon, <4>2, <4>3, <4>4
    <3>2. CASE refs[c] # {g}
      BY Zenon, <1>11, <3>2 DEF DropRef, LastRef, TypeOK
    <3> QED
      BY Zenon, <3>1, <3>2
  <2> QED
    BY Zenon, <1>11, <2>3, <2>4 DEF DropRef, LastRef, taskVars, TypeOK
<1>12. ASSUME NEW g \in Gids, NEW c \in Chans, Close(g, c) PROVE TypeOK'
  <2>1. runq' \in [Gids -> Nat]
    BY Zenon, <1>12, WakeType DEF Close, TypeOK
  <2>2. buf' \in [Chans -> Seq(Words)]
    BY <1>12, RestOfSeq DEF Close, TypeOK
  <2>3. released' \subseteq Words
    BY <1>12 DEF Close, Owned, Elems, TypeOK, Suspension
  <2>4. slot' \in [Gids -> Suspension]
    <3> DEFINE nth(x) == CHOOSE i \in 1..Len(receivers[c]) : receivers[c][i] = x
    <3>1. ASSUME NEW x \in Elems(receivers[c]) PROVE nth(x) \in 1..Len(receivers[c])
      BY Zenon, <3>1 DEF Elems
    <3> HIDE DEF nth
    <3>0. buf[c] \in Seq(Words) /\ receivers[c] \in Seq(Gids)
      BY Zenon DEF TypeOK
    <3>2. ASSUME NEW x \in Elems(receivers[c]), nth(x) <= Len(buf[c])
          PROVE  buf[c][nth(x)] \in Words
      BY <3>0, <3>1, <3>2
    <3>3. \A x \in Gids : /\ ReceivedNothing(slot[x]) \in Suspension
                          /\ SendDone(slot[x]) \in Suspension
                          /\ \A v \in Words : Received(slot[x], c, v) \in Suspension
      BY Zenon, <1>0, StateTypes DEF TypeOK
    <3> QED
      BY Zenon, <1>12, <3>2, <3>3 DEF Close, TypeOK, nth
  <2>5. /\ closed' \subseteq Chans
        /\ senders' \in [Chans -> Seq(Gids)] /\ receivers' \in [Chans -> Seq(Gids)]
    BY <1>12 DEF Close, TypeOK
  <2> QED
    BY Zenon, <1>12, <2>1, <2>2, <2>3, <2>4, <2>5 DEF Close, TypeOK
<1>13. ASSUME NEW g \in Gids, DropGoroutine(g) PROVE TypeOK'
  <2>1. released' \subseteq Words
    BY <1>13 DEF DropGoroutine, TypeOK, Suspension
  <2>2. \A c \in Chans : /\ Without(senders[c], g) \in Seq(Gids)
                         /\ Without(receivers[c], g) \in Seq(Gids)
    BY Zenon, WithoutType DEF TypeOK
  <2> QED
    BY Zenon, <1>13, <2>1, <2>2 DEF DropGoroutine, TypeOK
<1>14. ASSUME NEW g \in Gids, NEW c \in Chans, NEW op, Flushing(g, op, c),
              slot' \in [Gids -> Suspension], buf' \in [Chans -> Seq(Words)],
              senders' \in [Chans -> Seq(Gids)], receivers' \in [Chans -> Seq(Gids)],
              runq' = runq \/ (\E S \in SUBSET Gids : WakeAll(S)), released' \subseteq Words
       PROVE  TypeOK'
  <2>1. runq' \in [Gids -> Nat]
    BY Zenon, <1>14, WakeType DEF TypeOK
  <2> QED
    BY Zenon, <1>0, <1>14, <2>1 DEF Flushing, EndPoll, TypeOK
<1>15. ASSUME NEW g \in Gids, NEW c \in Chans PROVE
         /\ tls[g] \in Suspension /\ tls[g].send \in Words
         /\ \A v \in Words : Received(tls[g], c, v) \in Suspension
         /\ SendDone(tls[g]) \in Suspension
         /\ SendParked(tls[g], c) \in Suspension
         /\ ReceivedNothing(tls[g]) \in Suspension
         /\ \A r \in Gids : /\ slot[r].send \in Words
                            /\ SendDone(slot[r]) \in Suspension
                            /\ \A v \in Words : Received(slot[r], c, v) \in Suspension
  <2>1. \A r \in Gids : /\ tls[r] \in Suspension /\ tls[r].send \in Words
                        /\ slot[r] \in Suspension /\ slot[r].send \in Words
    BY Zenon DEF TypeOK, Suspension
  <2> QED
    BY Zenon, <1>0, <2>1, StateTypes
<1>16. ASSUME NEW c \in Chans PROVE
         /\ receivers[c] # <<>> => Head(receivers[c]) \in Gids /\ Tail(receivers[c]) \in Seq(Gids)
         /\ senders[c] # <<>> => Head(senders[c]) \in Gids /\ Tail(senders[c]) \in Seq(Gids)
         /\ buf[c] # <<>> => /\ Head(buf[c]) \in Words /\ Tail(buf[c]) \in Seq(Words)
                             /\ \A v \in Words : Append(Tail(buf[c]), v) \in Seq(Words)
         /\ \A v \in Words : Append(buf[c], v) \in Seq(Words)
         /\ \A x \in Gids : /\ Append(senders[c], x) \in Seq(Gids)
                            /\ Append(receivers[c], x) \in Seq(Gids)
  BY DEF TypeOK
<1>17. ASSUME NEW g \in Gids, NEW c \in Chans, SendGone(g, c) PROVE TypeOK'
  BY Zenon, <1>14, <1>15, <1>17 DEF SendGone, TypeOK
<1>18. ASSUME NEW g \in Gids, NEW c \in Chans, SendClosed(g, c) PROVE TypeOK'
  BY Zenon, <1>14, <1>15, <1>18 DEF SendClosed, Owned, TypeOK
<1>19. ASSUME NEW g \in Gids, NEW c \in Chans, SendHandoff(g, c) PROVE TypeOK'
  BY Zenon, <1>14, <1>15, <1>16, <1>19 DEF SendHandoff, TypeOK
<1>20. ASSUME NEW g \in Gids, NEW c \in Chans, SendBuffered(g, c) PROVE TypeOK'
  BY Zenon, <1>14, <1>15, <1>16, <1>20 DEF SendBuffered, TypeOK
<1>21. ASSUME NEW g \in Gids, NEW c \in Chans, SendParks(g, c) PROVE TypeOK'
  BY Zenon, <1>14, <1>15, <1>16, <1>21 DEF SendParks, TypeOK
<1>22. ASSUME NEW g \in Gids, NEW c \in Chans, RecvNothing(g, c) PROVE TypeOK'
  BY Zenon, <1>14, <1>15, <1>22 DEF RecvNothing, TypeOK
<1>23. ASSUME NEW g \in Gids, NEW c \in Chans, RecvBuffered(g, c) PROVE TypeOK'
  <2>1. slot' \in [Gids -> Suspension]
    BY Zenon, <1>15, <1>16, <1>23 DEF RecvBuffered, TypeOK
  <2>2. buf' \in [Chans -> Seq(Words)]
    BY Zenon, <1>16, <1>23 DEF RecvBuffered, TypeOK
  <2> QED
    BY Zenon, <1>14, <1>23, <2>1, <2>2 DEF RecvBuffered, TypeOK
<1>26. ASSUME NEW g \in Gids, NEW c \in Chans, RecvRefills(g, c) PROVE TypeOK'
  <2>1. slot' \in [Gids -> Suspension]
    BY Zenon, <1>15, <1>16, <1>26 DEF RecvRefills, TypeOK
  <2>2. buf' \in [Chans -> Seq(Words)]
    BY Zenon, <1>15, <1>16, <1>26 DEF RecvRefills, TypeOK
  <2>3. senders' \in [Chans -> Seq(Gids)]
    BY Zenon, <1>16, <1>26 DEF RecvRefills, TypeOK
  <2>4. \E S \in SUBSET Gids : WakeAll(S)
    BY Zenon, <1>16, <1>26 DEF RecvRefills
  <2> QED
    BY Zenon, <1>14, <1>26, <2>1, <2>2, <2>3, <2>4 DEF RecvRefills, TypeOK
<1>24. ASSUME NEW g \in Gids, NEW c \in Chans, RecvRendezvous(g, c) PROVE TypeOK'
  BY Zenon, <1>14, <1>15, <1>16, <1>24 DEF RecvRendezvous, TypeOK
<1>25. ASSUME NEW g \in Gids, NEW c \in Chans, RecvParks(g, c) PROVE TypeOK'
  BY Zenon, <1>14, <1>15, <1>16, <1>25 DEF RecvParks, TypeOK
<1> QED
  BY Zenon, <1>1, <1>2, <1>3, <1>4, <1>5, <1>6, <1>8, <1>9, <1>10, <1>11, <1>12, <1>13, <1>17, <1>18,
     <1>19, <1>20, <1>21, <1>22, <1>23, <1>24, <1>25, <1>26 DEF Next, ChanStep

\* Type correctness of the channel operations, of drive and of shutdown's
\* prelude: TypeOK holds in every reachable state.
THEOREM Types == Spec => []TypeOK
<1>1. Init => TypeOK
  BY Zenon, InitType
<1>2. TypeOK /\ [Next]_vars => TypeOK'
  BY Zenon, NextType
<1> QED
  BY <1>1, <1>2, PTL DEF Spec

-----------------------------------------------------------------------------
(* No wake-up is lost.  Each step changes the queues of one channel, except *)
(* for the drop of a goroutine, which only shortens queues.                 *)

Met(c) ==
    /\ Len(buf[c]) <= Cap[c]
    /\ receivers[c] # <<>> => buf[c] = <<>> /\ senders[c] = <<>>
    /\ senders[c] # <<>> => Len(buf[c]) = Cap[c]
    /\ c \in closed => receivers[c] = <<>> /\ senders[c] = <<>>

\* Every step keeps buffers and wait queues matched.
LEMMA NextMet ==
    ASSUME TypeOK, NoMissedPartner, [Next]_vars
    PROVE  NoMissedPartner'
<1> USE ChannelsAssumption
<1> SUFFICES ASSUME NEW d \in Chans PROVE Met(d)'
  BY Zenon DEF NoMissedPartner, Met
<1>0. /\ Met(d) /\ Cap[d] \in Nat /\ Len(buf[d]) \in Nat
      /\ buf[d] \in Seq(Words) /\ senders[d] \in Seq(Gids) /\ receivers[d] \in Seq(Gids)
  BY DEF TypeOK, NoMissedPartner, Met
<1>1. ASSUME UNCHANGED <<buf, senders, receivers, closed>> PROVE Met(d)'
  BY Zenon, <1>0, <1>1 DEF Met
<1>2. ASSUME NEW g \in Gids, NEW c \in Chans, DropRef(g, c) PROVE Met(d)'
  <2>1. CASE refs[c] = {g} /\ c = d
    BY <1>0, <1>2, <2>1 DEF DropRef, LastRef, Met, TypeOK
  <2>2. CASE ~(refs[c] = {g} /\ c = d)
    BY Zenon, <1>0, <1>2, <2>2 DEF DropRef, LastRef, Met, TypeOK
  <2> QED
    BY Zenon, <2>1, <2>2
<1>3. ASSUME NEW g \in Gids, NEW c \in Chans, Close(g, c) PROVE Met(d)'
  <2>1. /\ d # c => UNCHANGED <<buf[d], senders[d], receivers[d]>>
        /\ c = d => senders'[d] = <<>> /\ receivers'[d] = <<>>
        /\ c = d => Len(buf'[d]) <= Len(buf[d]) /\ Len(buf'[d]) \in Nat
        /\ closed' = closed \cup {c}
    BY <1>0, <1>3, RestOfSeq DEF Close, TypeOK
  <2> QED
    BY <1>0, <2>1 DEF Met
<1>4. ASSUME NEW g \in Gids, DropGoroutine(g) PROVE Met(d)'
  <2>1. /\ senders'[d] = Without(senders[d], g)
        /\ receivers'[d] = Without(receivers[d], g)
        /\ UNCHANGED <<buf, closed>>
    BY Zenon, <1>4 DEF DropGoroutine
  <2>2. senders[d] = <<>> => senders'[d] = <<>>
    BY <1>0, <2>1, WithoutType DEF Without
  <2>3. receivers[d] = <<>> => receivers'[d] = <<>>
    BY <1>0, <2>1, WithoutType DEF Without
  <2> QED
    BY Zenon, <1>0, <2>1, <2>2, <2>3 DEF Met
<1>5. ASSUME NEW g \in Gids, NEW c \in Chans, SendHandoff(g, c) PROVE Met(d)'
  BY Zenon, <1>0, <1>5 DEF SendHandoff, Flushing, Met, TypeOK
<1>6. ASSUME NEW g \in Gids, NEW c \in Chans, SendBuffered(g, c) PROVE Met(d)'
  BY <1>0, <1>6 DEF SendBuffered, Flushing, Met, TypeOK
<1>7. ASSUME NEW g \in Gids, NEW c \in Chans, SendParks(g, c) PROVE Met(d)'
  BY <1>0, <1>7 DEF SendParks, Flushing, Met, TypeOK
<1>8. ASSUME NEW g \in Gids, NEW c \in Chans, RecvBuffered(g, c) PROVE Met(d)'
  BY SMTT(40), Z3T(40), <1>0, <1>8 DEF RecvBuffered, Flushing, Met, TypeOK
<1>9. ASSUME NEW g \in Gids, NEW c \in Chans, RecvRefills(g, c) PROVE Met(d)'
  <2> DEFINE v == slot[Head(senders[c])].send
  <2>1. /\ buf' = [buf EXCEPT ![c] = Append(Tail(@), v)]
        /\ senders' = [senders EXCEPT ![c] = Tail(@)]
        /\ buf[c] # <<>> /\ senders[c] # <<>>
        /\ UNCHANGED <<receivers, closed>>
    BY Zenon, <1>9 DEF RecvRefills, Flushing
  <2>2. buf[c] \in Seq(Words) /\ v \in Words /\ senders[c] \in Seq(Gids)
    BY <2>1 DEF TypeOK, Suspension
  <2> HIDE DEF v
  <2>3. Len(Append(Tail(buf[c]), v)) = Len(buf[c])
    BY <2>1, <2>2
  <2>4. CASE c = d
    BY Zenon, <1>0, <2>1, <2>3, <2>4 DEF Met, TypeOK
  <2>5. CASE c # d
    <3>1. UNCHANGED <<buf[d], senders[d], receivers[d], closed>>
      BY Zenon, <2>1, <2>5 DEF TypeOK
    <3> QED
      BY Zenon, <1>0, <3>1 DEF Met
  <2> QED
    BY Zenon, <2>4, <2>5
<1>10. ASSUME NEW g \in Gids, NEW c \in Chans, RecvRendezvous(g, c) PROVE Met(d)'
  <2>1. /\ senders'[d] = IF d = c THEN Tail(senders[d]) ELSE senders[d]
        /\ UNCHANGED <<buf, receivers, closed>> /\ senders[c] # <<>>
    BY Zenon, <1>10 DEF RecvRendezvous, Flushing, TypeOK
  <2> QED
    BY Zenon, <1>0, <2>1 DEF Met
<1>11. ASSUME NEW g \in Gids, NEW c \in Chans, RecvParks(g, c) PROVE Met(d)'
  BY Zenon, <1>0, <1>11 DEF RecvParks, Flushing, Met, TypeOK
<1>12. CASE UNCHANGED vars
  BY Zenon, <1>1, <1>12 DEF vars, chanVars
<1>13. ASSUME NEW g \in Gids,
              \/ Drive(g) \/ TakeResult(g) \/ FlushDropped(g) \/ FlushYield(g) \/ FlushDone(g)
              \/ \E v \in Handles : ReleaseHeld(g, v)
       PROVE  Met(d)'
  BY Zenon, <1>1, <1>13 DEF Drive, TakeResult, FlushDropped, FlushYield, FlushDone, ReleaseHeld, chanVars
<1>14. ASSUME NEW g \in Gids, NEW c \in Chans,
              \/ \E v \in Values : ParkSend(g, c, v)
              \/ ParkRecv(g, c) \/ SendGone(g, c) \/ SendClosed(g, c) \/ RecvNothing(g, c)
       PROVE  Met(d)'
  BY Zenon, <1>1, <1>14 DEF ParkSend, ParkRecv, SendGone, SendClosed, RecvNothing, Flushing, chanVars
<1> QED
  BY Zenon, <1>2, <1>3, <1>4, <1>5, <1>6, <1>7, <1>8, <1>9, <1>10, <1>11, <1>12, <1>13, <1>14
  DEF Next, ChanStep

\* For any number of goroutines, channels and workers: a goroutine is parked
\* on a channel only while nobody could serve it (chan_send, chan_recv, chan_close).
THEOREM NoWakeupLost == Spec => []NoMissedPartner
<1>1. Init => NoMissedPartner
  BY ChannelsAssumption DEF Init, NoMissedPartner
<1>2. TypeOK /\ NoMissedPartner /\ [Next]_vars => NoMissedPartner'
  BY Zenon, NextMet
<1> QED
  BY <1>1, <1>2, Types, PTL DEF Spec

-----------------------------------------------------------------------------
(* A goroutine is in one place. *)

\* Every step leaves a goroutine in one place.
LEMMA NextPlace ==
    ASSUME TypeOK, OnePlace, [Next]_vars
    PROVE  OnePlace'
<1> USE ChannelsAssumption
<1>0. \A c \in Chans : senders[c] \in Seq(Gids) /\ receivers[c] \in Seq(Gids)
  BY Zenon DEF TypeOK
\* Shorter wait queues keep apart.
<1>1. ASSUME \A c \in Chans : /\ Elems(senders'[c]) \subseteq Elems(senders[c])
                              /\ Elems(receivers'[c]) \subseteq Elems(receivers[c])
                              /\ NoDuplicates(senders'[c]) /\ NoDuplicates(receivers'[c]),
             done' \subseteq table' \ on',
             \A h \in Gids : runq'[h] <= IF h \in on' \cup done' THEN 0 ELSE 1,
             \A c \in Chans : \A h \in Waiters(c)' : h \in table' \ (done' \cup on') /\ runq'[h] = 0
      PROVE  OnePlace'
  <2>1. \A c \in Chans : Waiters(c)' \subseteq Waiters(c)
    BY Zenon, <1>1 DEF Waiters
  <2>2. \A c \in Chans : Elems(senders'[c]) \cap Elems(receivers'[c]) = {}
    BY Zenon, <1>1 DEF OnePlace
  <2>3. \A c, d \in Chans : c # d => Waiters(c)' \cap Waiters(d)' = {}
    BY Zenon, <2>1 DEF OnePlace
  <2> QED
    BY Zenon, <1>1, <2>2, <2>3 DEF OnePlace
\* A step that leaves the wait queues alone.
<1>2. ASSUME UNCHANGED <<senders, receivers>>,
             done' \subseteq table' \ on',
             \A h \in Gids : runq'[h] <= IF h \in on' \cup done' THEN 0 ELSE 1,
             \A h \in table \ (done \cup on) :
                runq[h] = 0 => (h \in table' \ (done' \cup on') /\ runq'[h] = 0)
      PROVE  OnePlace'
  <2>1. \A c \in Chans : Waiters(c)' = Waiters(c)
    BY Zenon, <1>2 DEF Waiters
  <2> QED
    BY Zenon, <1>1, <1>2, <2>1 DEF OnePlace
<1>3. ASSUME NEW g \in Gids, Drive(g) PROVE OnePlace'
  <2>1. runq[g] = 1 /\ g \notin on \cup done
    BY <1>3 DEF Drive, OnePlace, TypeOK
  <2> QED
    BY SMTT(30), Z3T(30), <1>2, <1>3, <2>1 DEF Drive, OnePlace, TypeOK, chanVars
<1>4. ASSUME UNCHANGED <<table, done, on, runq, senders, receivers>> PROVE OnePlace'
  BY Zenon, <1>2, <1>4 DEF OnePlace
\* The end of a poll that requeues the goroutine at once.
<1>5. ASSUME NEW g \in on \cap table, on' = on \ {g}, WakeAll({g}),
             UNCHANGED <<table, done, senders, receivers>>
      PROVE  OnePlace'
  BY <1>2, <1>5 DEF WakeAll, OnePlace, TypeOK
<1>6. ASSUME NEW g \in Gids, FlushDropped(g) PROVE OnePlace'
  BY <1>2, <1>6 DEF FlushDropped, EndPoll, chanVars, OnePlace, TypeOK
<1>7. ASSUME NEW g \in Gids, FlushDone(g) PROVE OnePlace'
  BY SMTT(40), Z3T(40), <1>2, <1>7 DEF FlushDone, EndPoll, CanAct, chanVars, OnePlace, TypeOK
<1>8. ASSUME NEW g \in Gids, NEW c \in Chans, DropRef(g, c) PROVE OnePlace'
  <2>1. \A d \in Chans : \/ senders'[d] = senders[d] /\ receivers'[d] = receivers[d]
                         \/ senders'[d] = <<>> /\ receivers'[d] = <<>>
    BY Zenon, <1>8 DEF DropRef, LastRef, TypeOK
  <2>2. \A d \in Chans : /\ Elems(senders'[d]) \subseteq Elems(senders[d])
                         /\ Elems(receivers'[d]) \subseteq Elems(receivers[d])
                         /\ NoDuplicates(senders'[d]) /\ NoDuplicates(receivers'[d])
    BY <1>0, <2>1, QueueSets DEF OnePlace
  <2>3. \A d \in Chans : Waiters(d)' \subseteq Waiters(d)
    BY Zenon, <2>2 DEF Waiters
  <2>4. UNCHANGED <<table, done, on, runq>>
    BY Zenon, <1>8 DEF DropRef, LastRef, taskVars
  <2> QED
    BY Zenon, <1>1, <2>2, <2>3, <2>4 DEF OnePlace
<1>9. ASSUME NEW g \in Gids, NEW c \in Chans, Close(g, c) PROVE OnePlace'
  <2>1. \A d \in Chans : IF d = c THEN senders'[d] = <<>> /\ receivers'[d] = <<>>
                         ELSE senders'[d] = senders[d] /\ receivers'[d] = receivers[d]
    BY Zenon, <1>9 DEF Close, TypeOK
  <2>2. \A d \in Chans : /\ Elems(senders'[d]) \subseteq Elems(senders[d])
                         /\ Elems(receivers'[d]) \subseteq Elems(receivers[d])
                         /\ NoDuplicates(senders'[d]) /\ NoDuplicates(receivers'[d])
    BY <1>0, <2>1, QueueSets DEF OnePlace
  <2>3. \A d \in Chans : Waiters(d)' = IF d = c THEN {} ELSE Waiters(d)
    BY <1>0, <2>1, QueueSets DEF Waiters
  <2>4. UNCHANGED <<table, done, on>> /\ WakeAll(Waiters(c))
    BY Zenon, <1>9 DEF Close, Waiters
  <2>5. \A h \in Gids : runq'[h] <= IF h \in on' \cup done' THEN 0 ELSE 1
    BY <2>4 DEF WakeAll, OnePlace, TypeOK
  <2>6. \A d \in Chans : \A h \in Waiters(d)' : h \in table' \ (done' \cup on') /\ runq'[h] = 0
    <3> SUFFICES ASSUME NEW d \in Chans, NEW h \in Waiters(d)'
                 PROVE  h \in table' \ (done' \cup on') /\ runq'[h] = 0
      BY Zenon
    <3>1. d # c /\ h \in Waiters(d) /\ h \notin Waiters(c)
      BY <2>3 DEF OnePlace
    <3> QED
      BY Zenon, <2>4, <3>1 DEF WakeAll, OnePlace, TypeOK
  <2> QED
    BY Zenon, <1>1, <2>2, <2>4, <2>5, <2>6 DEF OnePlace
<1>10. ASSUME NEW g \in Gids, DropGoroutine(g) PROVE OnePlace'
  <2>1. \A d \in Chans : /\ Elems(senders'[d]) = Elems(senders[d]) \ {g}
                         /\ Elems(receivers'[d]) = Elems(receivers[d]) \ {g}
                         /\ NoDuplicates(senders'[d]) /\ NoDuplicates(receivers'[d])
    BY Zenon, <1>0, <1>10, WithoutSets DEF DropGoroutine, OnePlace
  <2>2. \A d \in Chans : Waiters(d)' = Waiters(d) \ {g}
    BY ZenonT(60), <2>1 DEF Waiters
  <2>3. /\ table' = table \ {g} /\ done' = done \ {g} /\ UNCHANGED <<on, runq>>
    BY Zenon, <1>10 DEF DropGoroutine
  <2>4. \A h \in Gids : runq'[h] <= IF h \in on' \cup done' THEN 0 ELSE 1
    BY SMTT(40), Z3T(40), <2>3 DEF OnePlace, TypeOK
  <2> QED
    BY SMTT(30), Z3T(30), <1>1, <2>1, <2>2, <2>3, <2>4 DEF OnePlace
\* A parked goroutine is served, and goes on together with the one that came.
<1>11. ASSUME NEW g \in on \cap table, NEW c \in Chans, NEW r \in Waiters(c),
              \A d \in Chans : /\ Elems(senders'[d]) = Elems(senders[d]) \ {r}
                               /\ Elems(receivers'[d]) = Elems(receivers[d]) \ {r}
                               /\ NoDuplicates(senders'[d]) /\ NoDuplicates(receivers'[d]),
              on' = on \ {g}, WakeAll({r, g}), UNCHANGED <<table, done>>
       PROVE  OnePlace'
  <2>1. g # r /\ r \in table \ (done \cup on) /\ runq[r] = 0 /\ runq[g] = 0 /\ g \notin done
    BY SMTT(30), Z3T(30), <1>11 DEF OnePlace, TypeOK
  <2>2. \A h \in Gids : runq'[h] = IF h \in {r, g} THEN 1 ELSE runq[h]
    BY <1>11, <2>1 DEF WakeAll
  <2>3. \A h \in Gids : runq'[h] <= IF h \in on' \cup done' THEN 0 ELSE 1
    <3>1. \A h \in Gids : runq[h] <= IF h \in on \cup done THEN 0 ELSE 1
      BY Zenon DEF OnePlace
    <3>2. on' = on \ {g} /\ done' = done
      BY Zenon, <1>11
    <3> QED
      BY <2>1, <2>2, <3>1, <3>2
  <2>4. \A d \in Chans : \A h \in Waiters(d)' : h \in table' \ (done' \cup on') /\ runq'[h] = 0
    <3> SUFFICES ASSUME NEW d \in Chans, NEW h \in Waiters(d)'
                 PROVE  h \in table' \ (done' \cup on') /\ runq'[h] = 0
      BY Zenon
    <3>1. h \in Waiters(d) /\ h # r
      BY <1>11 DEF Waiters
    <3>2. h \in table \ (done \cup on) /\ runq[h] = 0 /\ h # g
      BY Zenon, <3>1 DEF OnePlace
    <3> QED
      BY Zenon, <1>11, <2>2, <3>1, <3>2 DEF TypeOK
  <2>5. done' \subseteq table' \ on'
    BY Zenon, <1>11 DEF OnePlace
  <2> QED
    BY SMTT(30), Z3T(30), <1>1, <1>11, <2>3, <2>4, <2>5
<1>12. ASSUME NEW c \in Chans, senders[c] # <<>>, senders' = [senders EXCEPT ![c] = Tail(@)],
              UNCHANGED receivers
       PROVE  /\ Head(senders[c]) \in Waiters(c)
              /\ \A d \in Chans : /\ Elems(senders'[d]) = Elems(senders[d]) \ {Head(senders[c])}
                                  /\ Elems(receivers'[d]) = Elems(receivers[d]) \ {Head(senders[c])}
                                  /\ NoDuplicates(senders'[d]) /\ NoDuplicates(receivers'[d])
  <2>1. /\ Head(senders[c]) \in Elems(senders[c])
        /\ Elems(Tail(senders[c])) = Elems(senders[c]) \ {Head(senders[c])}
        /\ NoDuplicates(Tail(senders[c]))
    BY Zenon, <1>0, <1>12, QueueSets DEF OnePlace
  <2>2. Head(senders[c]) \notin Elems(receivers[c])
    BY Zenon, <2>1 DEF OnePlace
  <2>3. \A d \in Chans \ {c} : Head(senders[c]) \notin Elems(senders[d]) \cup Elems(receivers[d])
    BY Zenon, <2>1 DEF OnePlace, Waiters
  <2>4. \A d \in Chans : senders'[d] = IF d = c THEN Tail(senders[c]) ELSE senders[d]
    BY Zenon, <1>12 DEF TypeOK
  <2> QED
    BY <1>12, <2>1, <2>2, <2>3, <2>4 DEF OnePlace, Waiters
<1>13. ASSUME NEW c \in Chans, receivers[c] # <<>>, receivers' = [receivers EXCEPT ![c] = Tail(@)],
              UNCHANGED senders
       PROVE  /\ Head(receivers[c]) \in Waiters(c)
              /\ \A d \in Chans : /\ Elems(senders'[d]) = Elems(senders[d]) \ {Head(receivers[c])}
                                  /\ Elems(receivers'[d]) = Elems(receivers[d]) \ {Head(receivers[c])}
                                  /\ NoDuplicates(senders'[d]) /\ NoDuplicates(receivers'[d])
  <2>1. /\ Head(receivers[c]) \in Elems(receivers[c])
        /\ Elems(Tail(receivers[c])) = Elems(receivers[c]) \ {Head(receivers[c])}
        /\ NoDuplicates(Tail(receivers[c]))
    BY Zenon, <1>0, <1>13, QueueSets DEF OnePlace
  <2>2. Head(receivers[c]) \notin Elems(senders[c])
    BY Zenon, <2>1 DEF OnePlace
  <2>3. \A d \in Chans \ {c} : Head(receivers[c]) \notin Elems(senders[d]) \cup Elems(receivers[d])
    BY Zenon, <2>1 DEF OnePlace, Waiters
  <2>4. \A d \in Chans : receivers'[d] = IF d = c THEN Tail(receivers[c]) ELSE receivers[d]
    BY Zenon, <1>13 DEF TypeOK
  <2> QED
    BY <1>13, <2>1, <2>2, <2>3, <2>4 DEF OnePlace, Waiters
<1>14. ASSUME NEW g \in Gids, NEW c \in Chans, SendHandoff(g, c) PROVE OnePlace'
  BY Zenon, <1>11, <1>13, <1>14 DEF SendHandoff, Flushing, EndPoll
<1>15. ASSUME NEW g \in Gids, NEW c \in Chans, RecvRefills(g, c) PROVE OnePlace'
  BY Zenon, <1>11, <1>12, <1>15 DEF RecvRefills, Flushing, EndPoll
<1>16. ASSUME NEW g \in Gids, NEW c \in Chans, RecvRendezvous(g, c) PROVE OnePlace'
  BY Zenon, <1>11, <1>12, <1>16 DEF RecvRendezvous, Flushing, EndPoll
\* The goroutine that was polled joins one wait queue.
<1>17. ASSUME NEW g \in on \cap table, NEW c \in Chans,
              \/ /\ senders' = [senders EXCEPT ![c] = Append(@, g)] /\ UNCHANGED receivers
              \/ /\ receivers' = [receivers EXCEPT ![c] = Append(@, g)] /\ UNCHANGED senders,
              on' = on \ {g}, UNCHANGED <<table, done, runq>>
       PROVE  OnePlace'
  <2>1. g \in Gids /\ g \notin done /\ runq[g] = 0 /\ \A d \in Chans : g \notin Waiters(d)
    BY <1>17 DEF OnePlace, TypeOK
  <2>2. \A d \in Chans : /\ Waiters(d)' = IF d = c THEN Waiters(c) \cup {g} ELSE Waiters(d)
                         /\ NoDuplicates(senders'[d]) /\ NoDuplicates(receivers'[d])
                         /\ Elems(senders'[d]) \cap Elems(receivers'[d]) = {}
    <3> SUFFICES ASSUME NEW d \in Chans
                 PROVE  /\ Waiters(d)' = IF d = c THEN Waiters(c) \cup {g} ELSE Waiters(d)
                        /\ NoDuplicates(senders'[d]) /\ NoDuplicates(receivers'[d])
                        /\ Elems(senders'[d]) \cap Elems(receivers'[d]) = {}
      BY Zenon
    <3>0. /\ g \notin Elems(senders[d]) /\ g \notin Elems(receivers[d])
          /\ NoDuplicates(senders[d]) /\ NoDuplicates(receivers[d])
          /\ Elems(senders[d]) \cap Elems(receivers[d]) = {}
      BY Zenon, <2>1 DEF Waiters, OnePlace
    <3>1. CASE d # c
      <4>1. senders'[d] = senders[d] /\ receivers'[d] = receivers[d]
        BY Zenon, <1>17, <3>1 DEF TypeOK
      <4> QED
        BY Zenon, <3>0, <3>1, <4>1 DEF Waiters
    <3>2. CASE d = c
      <4>1. /\ Elems(Append(senders[c], g)) = Elems(senders[c]) \cup {g}
            /\ Elems(Append(receivers[c], g)) = Elems(receivers[c]) \cup {g}
            /\ NoDuplicates(Append(senders[c], g)) /\ NoDuplicates(Append(receivers[c], g))
        BY <1>0, <2>1, <3>0, <3>2, QueueSets
      <4>2. \/ senders'[c] = Append(senders[c], g) /\ receivers'[c] = receivers[c]
            \/ senders'[c] = senders[c] /\ receivers'[c] = Append(receivers[c], g)
        BY Zenon, <1>17 DEF TypeOK
      <4> QED
        BY Zenon, <3>0, <3>2, <4>1, <4>2 DEF Waiters
    <3> QED
      BY Zenon, <3>1, <3>2
  <2>3. \A d \in Chans : \A h \in Waiters(d)' : h \in table' \ (done' \cup on') /\ runq'[h] = 0
    BY <1>17, <2>1, <2>2 DEF OnePlace
  <2>4. \A d, e \in Chans : d # e => Waiters(d)' \cap Waiters(e)' = {}
    BY <2>1, <2>2 DEF OnePlace
  <2>5. done' \subseteq table' \ on' /\ \A h \in Gids : runq'[h] <= IF h \in on' \cup done' THEN 0 ELSE 1
    BY <1>17, <2>1 DEF OnePlace, TypeOK
  <2> QED
    BY Zenon, <2>2, <2>3, <2>4, <2>5 DEF OnePlace
<1>18. ASSUME NEW g \in Gids, NEW c \in Chans, SendParks(g, c) \/ RecvParks(g, c) PROVE OnePlace'
  BY Zenon, <1>17, <1>18 DEF SendParks, RecvParks, Flushing, EndPoll
<1>19. ASSUME NEW g \in Gids,
              TakeResult(g) \/ UNCHANGED vars \/ \E v \in Handles : ReleaseHeld(g, v)
       PROVE  OnePlace'
  BY Zenon, <1>4, <1>19 DEF TakeResult, ReleaseHeld, vars, taskVars, chanVars
<1>20. ASSUME NEW g \in Gids, NEW c \in Chans,
              ParkRecv(g, c) \/ \E v \in Values : ParkSend(g, c, v)
       PROVE  OnePlace'
  BY Zenon, <1>4, <1>20 DEF ParkSend, ParkRecv, chanVars
<1>21. ASSUME NEW g \in Gids, FlushYield(g) PROVE OnePlace'
  BY Zenon, <1>5, <1>21 DEF FlushYield, CanAct, EndPoll, chanVars
<1>22. ASSUME NEW g \in Gids, NEW c \in Chans,
              \/ SendGone(g, c) \/ SendClosed(g, c) \/ SendBuffered(g, c)
              \/ RecvNothing(g, c) \/ RecvBuffered(g, c)
       PROVE  OnePlace'
  BY Zenon, <1>5, <1>22 DEF SendGone, SendClosed, SendBuffered, RecvNothing, RecvBuffered, Flushing, EndPoll
<1>23. CASE UNCHANGED vars
  BY Zenon, <1>4, <1>23 DEF vars, taskVars, chanVars
<1> QED
  BY Zenon, <1>3, <1>6, <1>7, <1>8, <1>9, <1>10, <1>14, <1>15, <1>16, <1>18, <1>19, <1>20, <1>21,
     <1>22, <1>23 DEF Next, ChanStep

\* For any number of goroutines, channels and workers: no goroutine is queued
\* twice, polled while it is queued or parked, or parked in two places, even
\* when goroutines are dropped while they are polled.
THEOREM OnePlaceOnly == Spec => []OnePlace
<1>1. Init => OnePlace
  <2>1. Init => \A c \in Chans : Waiters(c) = {} /\ NoDuplicates(senders[c]) /\ NoDuplicates(receivers[c])
    BY QueueSets DEF Init, Waiters, Elems, NoDuplicates
  <2> QED
    BY <2>1 DEF Init, OnePlace, Waiters
<1>2. TypeOK /\ OnePlace /\ [Next]_vars => OnePlace'
  BY NextPlace
<1> QED
  BY <1>1, <1>2, Types, PTL DEF Spec

-----------------------------------------------------------------------------
(* Nobody is forgotten, when every goroutine retains the channels it uses. *)

\* Every step keeps the channel of a goroutine that waits on it.
LEMMA NextKeep ==
    ASSUME TypeOK, OnePlace, WaitersKeepChannel, Borrowers = {}, [Next]_vars
    PROVE  WaitersKeepChannel'
<1> USE ChannelsAssumption
<1>0. \A c \in Chans : senders[c] \in Seq(Gids) /\ receivers[c] \in Seq(Gids)
  BY Zenon DEF TypeOK
\* A step that moves no reference and lets nobody new wait.
<1>1. ASSUME \A c \in Chans : Waiters(c)' \subseteq Waiters(c),
             UNCHANGED <<refs, chans>>, cleaning' \cap table' = {}, table' \subseteq table,
             \A g \in Gids : park'[g].op # "none" => g \in on' /\ park'[g] = park[g]
      PROVE  WaitersKeepChannel'
  BY Zenon, <1>1 DEF WaitersKeepChannel
<1>2. ASSUME UNCHANGED <<senders, receivers>>
      PROVE  \A c \in Chans : Waiters(c)' \subseteq Waiters(c)
  BY Zenon, <1>2 DEF Waiters
<1>3. ASSUME NEW g \in Gids, EndPoll(g)
      PROVE  \A h \in Gids : park'[h].op # "none" => h \in on' /\ park'[h] = park[h]
  BY Zenon, <1>3 DEF EndPoll, NoPark, WaitersKeepChannel, TypeOK
<1>4. ASSUME UNCHANGED <<table, cleaning, refs, chans, senders, receivers, park>>, on \subseteq on'
      PROVE  WaitersKeepChannel'
  BY Zenon, <1>1, <1>2, <1>4 DEF WaitersKeepChannel
<1>5. ASSUME NEW g \in Gids, Drive(g) \/ TakeResult(g) \/ \E v \in Handles : ReleaseHeld(g, v)
      PROVE  WaitersKeepChannel'
  BY Zenon, <1>4, <1>5 DEF Drive, TakeResult, ReleaseHeld, taskVars, chanVars
<1>6. ASSUME NEW g \in Gids, NEW c \in Chans, NEW op, UNCHANGED <<table, on, cleaning, chanVars>>,
             CanUse(g, c), park' = [park EXCEPT ![g] = [op |-> op, chan |-> c]]
      PROVE  WaitersKeepChannel'
  <2>1. g \in refs[c] /\ g \in on
    BY Zenon, <1>6 DEF CanUse, CanAct
  <2>2. \A h \in Gids : park'[h] = IF h = g THEN [op |-> op, chan |-> c] ELSE park[h]
    BY Zenon, <1>6 DEF TypeOK
  <2>3. \A d \in Chans : Waiters(d)' = Waiters(d)
    BY Zenon, <1>6 DEF Waiters, chanVars
  <2> QED
    BY <1>6, <2>1, <2>2, <2>3 DEF WaitersKeepChannel, chanVars
<1>7. ASSUME NEW g \in Gids, NEW c \in Chans, ParkRecv(g, c) \/ \E v \in Values : ParkSend(g, c, v)
      PROVE  WaitersKeepChannel'
  BY Zenon, <1>6, <1>7 DEF ParkRecv, ParkSend, chanVars
<1>8. ASSUME NEW g \in Gids, NEW c \in Chans, DropRef(g, c) PROVE WaitersKeepChannel'
  <2>1. g \notin Waiters(c) /\ (g \in table => park[g].op = "none")
    BY <1>8 DEF DropRef, LastRef, CanAct, NoPark, OnePlace, WaitersKeepChannel
  <2>2. \A d \in Chans : refs'[d] = IF d = c THEN refs[c] \ {g} ELSE refs[d]
    BY Zenon, <1>8 DEF DropRef, LastRef, TypeOK
  <2>3. \A d \in Chans : \/ senders'[d] = senders[d] /\ receivers'[d] = receivers[d]
                         \/ senders'[d] = <<>> /\ receivers'[d] = <<>>
    BY Zenon, <1>8 DEF DropRef, LastRef, TypeOK
  <2>4. \A d \in Chans : Waiters(d)' \subseteq Waiters(d)
    BY Zenon, <1>0, <2>3, QueueSets DEF Waiters
  <2>5. \A d \in Chans : Waiters(d)' \subseteq refs'[d]
    BY Zenon, <2>1, <2>2, <2>4 DEF WaitersKeepChannel
  <2>6. chans' = IF refs[c] = {g} THEN chans \ {c} ELSE chans
    BY Zenon, <1>8 DEF DropRef, LastRef
  <2>7. \A d \in Chans : refs'[d] # {} => d \in chans'
    BY Zenon, <2>2, <2>6 DEF WaitersKeepChannel, TypeOK
  <2>8. UNCHANGED <<table, on, park, cleaning>>
    BY Zenon, <1>8 DEF DropRef, LastRef, taskVars
  <2>9. \A h \in Gids : park[h].op # "none" =>
           h \in on /\ park[h].chan \in Chans /\ (h \in table => h \in refs'[park[h].chan])
    BY Zenon, <2>1, <2>2 DEF WaitersKeepChannel
  <2> QED
    BY ZenonT(60), <2>5, <2>7, <2>8, <2>9 DEF WaitersKeepChannel
<1>9. ASSUME NEW g \in Gids, NEW c \in Chans, Close(g, c) PROVE WaitersKeepChannel'
  <2>1. \A d \in Chans : \/ senders'[d] = senders[d] /\ receivers'[d] = receivers[d]
                         \/ senders'[d] = <<>> /\ receivers'[d] = <<>>
    BY Zenon, <1>9 DEF Close, TypeOK
  <2>2. \A d \in Chans : Waiters(d)' \subseteq Waiters(d)
    BY <1>0, <2>1, QueueSets DEF Waiters
  <2> QED
    BY Zenon, <1>1, <1>9, <2>2 DEF Close, WaitersKeepChannel
<1>10. ASSUME NEW g \in Gids, DropGoroutine(g) PROVE WaitersKeepChannel'
  <2>1. \A d \in Chans : Waiters(d)' \subseteq Waiters(d)
    BY SMTT(30), Z3T(30), <1>0, <1>10, WithoutSets DEF DropGoroutine, OnePlace, Waiters
  <2>2. cleaning' \cap table' = {}
    BY Zenon, <1>10 DEF DropGoroutine, WaitersKeepChannel
  <2> QED
    BY Zenon, <1>1, <1>10, <2>1, <2>2 DEF DropGoroutine, WaitersKeepChannel
<1>11. ASSUME NEW g \in Gids, FlushDropped(g) \/ FlushYield(g) \/ FlushDone(g) PROVE WaitersKeepChannel'
  <2>1. cleaning' \cap table' = {} /\ table' \subseteq table
    BY Zenon, <1>11 DEF FlushDropped, FlushYield, FlushDone, WaitersKeepChannel
  <2> QED
    BY Zenon, <1>1, <1>2, <1>3, <1>11, <2>1 DEF FlushDropped, FlushYield, FlushDone, chanVars
<1>12. ASSUME NEW g \in Gids, NEW c \in Chans, NEW op, Flushing(g, op, c),
              \A d \in Chans : Waiters(d)' \subseteq Waiters(d)
       PROVE  WaitersKeepChannel'
  BY Zenon, <1>1, <1>3, <1>12 DEF Flushing, WaitersKeepChannel
<1>13. ASSUME NEW g \in Gids, NEW c \in Chans,
              \/ SendGone(g, c) \/ SendClosed(g, c) \/ SendBuffered(g, c)
              \/ RecvNothing(g, c) \/ RecvBuffered(g, c)
       PROVE  WaitersKeepChannel'
  BY Zenon, <1>2, <1>12, <1>13 DEF SendGone, SendClosed, SendBuffered, RecvNothing, RecvBuffered
<1>14. ASSUME NEW g \in Gids, NEW c \in Chans,
              SendHandoff(g, c) \/ RecvRefills(g, c) \/ RecvRendezvous(g, c)
       PROVE  WaitersKeepChannel'
  <2>1. \/ /\ senders[c] # <<>> /\ senders' = [senders EXCEPT ![c] = Tail(@)]
           /\ UNCHANGED receivers
        \/ /\ receivers[c] # <<>> /\ receivers' = [receivers EXCEPT ![c] = Tail(@)]
           /\ UNCHANGED senders
    BY Zenon, <1>14 DEF SendHandoff, RecvRefills, RecvRendezvous
  <2>2. /\ senders[c] # <<>> => Elems(Tail(senders[c])) \subseteq Elems(senders[c])
        /\ receivers[c] # <<>> => Elems(Tail(receivers[c])) \subseteq Elems(receivers[c])
    BY <1>0, QueueSets DEF OnePlace
  <2>3. \A d \in Chans : Waiters(d)' \subseteq Waiters(d)
    BY Zenon, <2>1, <2>2 DEF Waiters, TypeOK
  <2> QED
    BY Zenon, <1>12, <1>14, <2>3 DEF SendHandoff, RecvRefills, RecvRendezvous
<1>15. ASSUME NEW g \in Gids, NEW c \in Chans, SendParks(g, c) \/ RecvParks(g, c)
       PROVE  WaitersKeepChannel'
  <2>1. g \in refs[c]
    <3>1. g \in table /\ park[g].op # "none" /\ park[g].chan = c
      BY <1>15 DEF SendParks, RecvParks, Flushing
    <3> QED
      BY Zenon, <3>1 DEF WaitersKeepChannel
  <2>2. \A d \in Chans : Waiters(d)' \subseteq Waiters(d) \cup (IF d = c THEN {g} ELSE {})
    <3>1. /\ Elems(Append(senders[c], g)) = Elems(senders[c]) \cup {g}
          /\ Elems(Append(receivers[c], g)) = Elems(receivers[c]) \cup {g}
      BY <1>0, QueueSets
    <3> QED
      BY Zenon, <1>15, <3>1 DEF SendParks, RecvParks, Waiters, TypeOK
  <2>3. UNCHANGED <<table, cleaning, chans, refs>> /\ EndPoll(g)
    BY Zenon, <1>15 DEF SendParks, RecvParks, Flushing
  <2> QED
    BY Zenon, <1>3, <2>1, <2>2, <2>3 DEF WaitersKeepChannel
<1>16. CASE UNCHANGED vars
  BY Zenon, <1>4, <1>16 DEF vars, taskVars, chanVars
<1> QED
  BY Zenon, <1>5, <1>7, <1>8, <1>9, <1>10, <1>11, <1>13, <1>14, <1>15, <1>16 DEF Next, ChanStep

\* A goroutine is queued, polled, or waits on a channel.
Placed(g) == runq[g] > 0 \/ g \in on \/ \E c \in Chans : g \in Waiters(c)

\* Every step leaves an unfinished goroutine somewhere.
LEMMA NextPlaced ==
    ASSUME TypeOK, OnePlace, WaitersKeepChannel, Borrowers = {}, [Next]_vars,
           \A g \in table \ done : Placed(g)
    PROVE  \A g \in table' \ done' : Placed(g)'
<1> USE ChannelsAssumption
<1>0. \A c \in Chans : senders[c] \in Seq(Gids) /\ receivers[c] \in Seq(Gids)
  BY Zenon DEF TypeOK
\* Nobody appears in the table, and whoever leaves a place is made runnable.
<1>1. ASSUME table' \ done' \subseteq table \ done, NEW W, WakeAll(W) \/ (W = {} /\ runq' = runq),
             \A g \in on : g \in on' \/ g \in W \/ g \notin table' \ done',
             \A c \in Chans : \A g \in Waiters(c) :
                 g \in Waiters(c)' \/ g \in W \/ g \notin table' \ done'
      PROVE  \A g \in table' \ done' : Placed(g)'
  <2> SUFFICES ASSUME NEW g \in table' \ done' PROVE Placed(g)'
    BY Zenon
  <2>1. g \in Gids /\ Placed(g) /\ runq[g] \in Nat
    BY Zenon, <1>1 DEF TypeOK
  <2>2. g \in W => runq'[g] > 0
    BY <1>1, <2>1 DEF WakeAll
  <2>3. runq[g] > 0 => runq'[g] > 0
    BY <1>1, <2>1 DEF WakeAll
  <2> QED
    BY Zenon, <1>1, <2>1, <2>2, <2>3 DEF Placed
<1>2. ASSUME NEW g \in Gids, Drive(g) PROVE \A h \in table' \ done' : Placed(h)'
  <2>1. \A c \in Chans : Waiters(c)' = Waiters(c)
    BY Zenon, <1>2 DEF Drive, chanVars, Waiters
  <2>2. \A h \in Gids : h # g => runq'[h] = runq[h]
    BY Zenon, <1>2 DEF Drive, TypeOK
  <2>3. UNCHANGED <<table, done>> /\ on \subseteq on' /\ (g \in table => g \in on')
    BY Zenon, <1>2 DEF Drive
  <2> SUFFICES ASSUME NEW h \in table \ done PROVE Placed(h)'
    BY Zenon, <2>3
  <2>4. CASE h = g
    BY Zenon, <2>3, <2>4 DEF Placed
  <2>5. CASE h # g
    <3>1. Placed(h) /\ runq'[h] = runq[h]
      BY Zenon, <2>2, <2>5 DEF TypeOK
    <3> QED
      BY Zenon, <2>1, <2>3, <3>1 DEF Placed
  <2> QED
    BY Zenon, <2>4, <2>5
<1>3. ASSUME UNCHANGED <<table, done, on, runq, senders, receivers>>
      PROVE  \A h \in table' \ done' : Placed(h)'
  BY Zenon, <1>3 DEF Placed, Waiters
<1>4. ASSUME NEW g \in Gids,
             \/ TakeResult(g) \/ \E v \in Handles : ReleaseHeld(g, v)
             \/ \E c \in Chans : ParkRecv(g, c) \/ \E v \in Values : ParkSend(g, c, v)
      PROVE  \A h \in table' \ done' : Placed(h)'
  BY Zenon, <1>3, <1>4 DEF TakeResult, ReleaseHeld, ParkRecv, ParkSend, taskVars, chanVars
<1>5. ASSUME NEW g \in Gids, NEW c \in Chans, DropRef(g, c)
      PROVE  \A h \in table' \ done' : Placed(h)'
  <2>1. UNCHANGED <<table, done, on, runq>>
    BY Zenon, <1>5 DEF DropRef, LastRef, taskVars
  <2>2. CASE refs[c] # {g}
    BY Zenon, <1>3, <1>5, <2>1, <2>2 DEF DropRef, LastRef
  <2>3. CASE refs[c] = {g}
    <3>1. g \notin Waiters(c)
      BY Zenon, <1>5 DEF DropRef, LastRef, CanAct, OnePlace, WaitersKeepChannel
    <3>2. Waiters(c) = {}
      BY Zenon, <2>3, <3>1 DEF WaitersKeepChannel
    <3>3. \A d \in Chans \ {c} : Waiters(d)' = Waiters(d)
      BY Zenon, <1>5 DEF DropRef, LastRef, Waiters, TypeOK
    <3> QED
      BY <2>1, <3>2, <3>3 DEF Placed
  <2> QED
    BY Zenon, <2>2, <2>3
<1>6. ASSUME NEW g \in Gids, NEW c \in Chans, Close(g, c)
      PROVE  \A h \in table' \ done' : Placed(h)'
  <2>1. UNCHANGED <<table, done, on>> /\ WakeAll(Waiters(c))
    BY Zenon, <1>6 DEF Close, Waiters
  <2>2. \A d \in Chans \ {c} : Waiters(d)' = Waiters(d)
    BY Zenon, <1>6 DEF Close, Waiters, TypeOK
  <2> QED
    BY <1>1, <2>1, <2>2
<1>7. ASSUME NEW g \in Gids, FlushDropped(g) \/ FlushDone(g)
      PROVE  \A h \in table' \ done' : Placed(h)'
  <2>1. \A d \in Chans : Waiters(d)' = Waiters(d)
    BY Zenon, <1>7 DEF FlushDropped, FlushDone, Waiters, chanVars
  <2>2. /\ table' \ done' \subseteq table \ done /\ runq' = runq
        /\ \A h \in on : h \in on' \/ h \notin table' \ done'
    BY ZenonT(60), <1>7 DEF FlushDropped, FlushDone, EndPoll
  <2> QED
    BY Zenon, <1>1, <2>1, <2>2
<1>8. ASSUME NEW g \in Gids, DropGoroutine(g) PROVE \A h \in table' \ done' : Placed(h)'
  <2>1. \A d \in Chans : Waiters(d)' = Waiters(d) \ {g}
    BY SMTT(30), Z3T(30), <1>0, <1>8, WithoutSets DEF DropGoroutine, OnePlace, Waiters
  <2>2. /\ table' = table \ {g} /\ done' = done \ {g} /\ UNCHANGED <<on, runq>>
    BY Zenon, <1>8 DEF DropGoroutine
  <2> SUFFICES ASSUME NEW h \in table \ done, h # g PROVE Placed(h)'
    BY Zenon, <2>2
  <2>3. Placed(h)
    BY Zenon
  <2> QED
    BY Zenon, <2>1, <2>2, <2>3 DEF Placed
\* The end of a poll: the goroutine goes on, or waits on a channel.
<1>9. ASSUME NEW g \in Gids, on' = on \ {g}, UNCHANGED <<table, done, senders, receivers>>, WakeAll({g})
      PROVE  \A h \in table' \ done' : Placed(h)'
  <2>1. \A d \in Chans : Waiters(d)' = Waiters(d)
    BY Zenon, <1>9 DEF Waiters
  <2> QED
    BY Zenon, <1>1, <1>9, <2>1
<1>10. ASSUME NEW g \in Gids,
              \/ FlushYield(g)
              \/ \E c \in Chans : \/ SendGone(g, c) \/ SendClosed(g, c) \/ SendBuffered(g, c)
                                  \/ RecvNothing(g, c) \/ RecvBuffered(g, c)
       PROVE  \A h \in table' \ done' : Placed(h)'
  BY Zenon, <1>9, <1>10 DEF FlushYield, SendGone, SendClosed, SendBuffered, RecvNothing, RecvBuffered,
                     Flushing, EndPoll, chanVars
<1>11. ASSUME NEW g \in Gids, NEW c \in Chans, SendHandoff(g, c)
       PROVE  \A h \in table' \ done' : Placed(h)'
  <2>1. Elems(Tail(receivers[c])) = Elems(receivers[c]) \ {Head(receivers[c])}
    BY Zenon, <1>0, <1>11, QueueSets DEF SendHandoff, OnePlace
  <2>2. \A d \in Chans : Waiters(d) \subseteq Waiters(d)' \cup {Head(receivers[c])}
    BY ZenonT(60), <1>11, <2>1 DEF SendHandoff, Waiters, TypeOK
  <2>3. on' = on \ {g} /\ UNCHANGED <<table, done>> /\ WakeAll({Head(receivers[c]), g})
    BY Zenon, <1>11 DEF SendHandoff, Flushing, EndPoll
  <2> QED
    BY SMTT(30), Z3T(30), <1>1, <2>2, <2>3
<1>12. ASSUME NEW g \in Gids, NEW c \in Chans, RecvRefills(g, c) \/ RecvRendezvous(g, c)
       PROVE  \A h \in table' \ done' : Placed(h)'
  <2>1. Elems(Tail(senders[c])) = Elems(senders[c]) \ {Head(senders[c])}
    BY Zenon, <1>0, <1>12, QueueSets DEF RecvRefills, RecvRendezvous, OnePlace
  <2>2. \A d \in Chans : Waiters(d) \subseteq Waiters(d)' \cup {Head(senders[c])}
    BY Zenon, <1>12, <2>1 DEF RecvRefills, RecvRendezvous, Waiters, TypeOK
  <2>3. on' = on \ {g} /\ UNCHANGED <<table, done>> /\ WakeAll({Head(senders[c]), g})
    BY Zenon, <1>12 DEF RecvRefills, RecvRendezvous, Flushing, EndPoll
  <2> QED
    BY SMTT(30), Z3T(30), <1>1, <2>2, <2>3
<1>13. ASSUME NEW g \in Gids, NEW c \in Chans, SendParks(g, c) \/ RecvParks(g, c)
       PROVE  \A h \in table' \ done' : Placed(h)'
  <2>1. /\ Elems(Append(senders[c], g)) = Elems(senders[c]) \cup {g}
        /\ Elems(Append(receivers[c], g)) = Elems(receivers[c]) \cup {g}
    BY SMTT(30), Z3T(30), <1>0, QueueSets
  <2>2. \A d \in Chans : Waiters(d) \subseteq Waiters(d)' /\ (d = c => g \in Waiters(d)')
    BY Zenon, <1>13, <2>1 DEF SendParks, RecvParks, Waiters, TypeOK
  <2>3. on' = on \ {g} /\ UNCHANGED <<table, done, runq>>
    BY Zenon, <1>13 DEF SendParks, RecvParks, Flushing, EndPoll
  <2> QED
    BY Zenon, <2>2, <2>3 DEF Placed
<1>14. CASE UNCHANGED vars
  BY Zenon, <1>3, <1>14 DEF vars, taskVars, chanVars
<1> QED
  BY Zenon, <1>2, <1>4, <1>5, <1>6, <1>7, <1>8, <1>10, <1>11, <1>12, <1>13, <1>14 DEF Next, ChanStep

\* For any number of goroutines, channels and workers: when every goroutine
\* retains the channels it uses, the last reference to a channel is never
\* dropped under a goroutine that waits on it (registry::chan_drop).
THEOREM ChannelKept == ASSUME Borrowers = {} PROVE Spec => []WaitersKeepChannel
<1>1. Init => WaitersKeepChannel
  <2>1. Init => \A c \in Chans : Waiters(c) = {}
    BY DEF Init, Waiters, Elems
  <2> QED
    BY <2>1 DEF Init, WaitersKeepChannel, NoPark
<1>2. TypeOK /\ OnePlace /\ WaitersKeepChannel /\ [Next]_vars => WaitersKeepChannel'
  BY Zenon, NextKeep
<1> QED
  BY <1>1, <1>2, Types, OnePlaceOnly, PTL DEF Spec

\* For any number of goroutines, channels and workers: under the same
\* assumption every goroutine that is neither done nor dropped is runnable,
\* polled, or waits on a registered channel.
THEOREM NobodyForgotten == ASSUME Borrowers = {} PROVE Spec => []NoneStranded
<1> DEFINE AllPlaced == \A g \in table \ done : Placed(g)
<1>1. Init => AllPlaced
  BY DEF Init, Placed
<1>2. TypeOK /\ OnePlace /\ WaitersKeepChannel /\ AllPlaced /\ [Next]_vars => AllPlaced'
  BY Zenon, NextPlaced
<1>3. WaitersKeepChannel /\ AllPlaced => NoneStranded
  BY Zenon DEF WaitersKeepChannel, Placed, NoneStranded
<1> HIDE DEF AllPlaced
<1> QED
  BY <1>1, <1>2, <1>3, Types, OnePlaceOnly, ChannelKept, PTL DEF Spec
=============================================================================
