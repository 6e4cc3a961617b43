--------------------------- MODULE ChannelsOwners ---------------------------
(***************************************************************************)
(* For any number of goroutines, channels, values and workers: every       *)
(* element that is a handle has one owner, when every goroutine retains    *)
(* the channels it uses and no handle is dropped during its poll.          *)
(***************************************************************************)
EXTENDS ChannelsProof

\* What a channel carries.
Carried(c) == IF c \in Owns THEN Handles ELSE Scalars

\* A slot that was loaded for a poll keeps its copy of the received value,
\* which the poll takes, passes on or releases.
Stale(g) ==
    slot[g].recv \in Handles =>
        \/ slot[g].recv \in released
        \/ g \in on /\ \/ slot[g].recv = tls[g].recv
                       \/ slot[g].recv \in held[g]
                       \/ park[g].op = "send" /\ slot[g].recv = tls[g].send

\* The suspension state of a goroutine says what it holds, and whose it is.
Tagged(g) ==
    /\ held[g] \subseteq Handles
    /\ ~tls[g].sendOwned /\ (tls[g].recvOwned <=> tls[g].recv \in Handles)
    /\ slot[g].recvOwned <=> slot[g].recv \in Handles
    /\ slot[g].sendOwned <=> slot[g].send \in Handles
    /\ park[g].op # "none" => tls[g].recv = Null
    /\ g \in on => IF park[g].op = "send" THEN tls[g].send \in Carried(park[g].chan)
                                          ELSE tls[g].send = Null
    /\ g \in table /\ slot[g].send # Null => \E c \in Chans : g \in Elems(senders[c])
    /\ g \in on \cup done => Stale(g)

\* A channel holds its own kind of elements, a handle once, and a receiver that
\* waits has received nothing yet.
Filled(c) ==
    /\ Elems(buf[c]) \subseteq Carried(c) /\ (c \in Owns => NoDuplicates(buf[c]))
    /\ \A g \in Elems(senders[c]) : slot[g].send \in Carried(c)
    /\ \A g \in Elems(receivers[c]) : slot[g].recv = Null

Tags ==
    /\ on \subseteq table /\ released \subseteq Handles
    /\ (\A g \in Gids : Tagged(g)) /\ (\A c \in Chans : Filled(c))

\* Where a handle v can be: what goroutine x is about to send, has received, is
\* parked with, is resumed with.
InSend(x, v) == x \in on /\ park[x].op = "send" /\ tls[x].send = v
InRecv(x, v) == x \in on /\ tls[x].recv = v
AtSend(x, v) == x \in table \ on /\ slot[x].send = v
AtRecv(x, v) == x \in table \ (on \cup done) /\ slot[x].recv = v
InBuf(x, v) == x \in chans /\ v \in Elems(buf[x])

Kinds == {"fresh", "released", "held", "sending", "received", "parked",
          "resumed", "buffer"}
Spots == Gids \cup Chans \cup {Null}
Spot(v, k, x) ==
    \/ k = "fresh" /\ x = Null /\ v \in fresh
    \/ k = "released" /\ x = Null /\ v \in released
    \/ k = "held" /\ x \in Gids /\ v \in held[x]
    \/ k = "sending" /\ x \in Gids /\ InSend(x, v)
    \/ k = "received" /\ x \in Gids /\ InRecv(x, v)
    \/ k = "parked" /\ x \in Gids /\ AtSend(x, v)
    \/ k = "resumed" /\ x \in Gids /\ AtRecv(x, v)
    \/ k = "buffer" /\ x \in Chans /\ InBuf(x, v)

\* A handle is in one place.
Kept(v) ==
    \E k \in Kinds, x \in Spots : \A j \in Kinds, y \in Spots : Spot(v, j, y) <=> j = k /\ y = x

Possessed == \A v \in Handles : Kept(v)

\* A step leaves what goroutine g has of handle v alone.
Still(g, v) ==
    /\ v \in held'[g] <=> v \in held[g]
    /\ InSend(g, v)' <=> InSend(g, v)
    /\ InRecv(g, v)' <=> InRecv(g, v)
    /\ AtSend(g, v)' <=> AtSend(g, v)
    /\ AtRecv(g, v)' <=> AtRecv(g, v)

\* A step leaves what goroutine g has of handle v alone, but for the places
\* <<k, x>> and <<j, y>>.
Moves(g, v, k, x, j, y) ==
    /\ <<"held", g>> \in {<<k, x>>, <<j, y>>} \/ (v \in held'[g] <=> v \in held[g])
    /\ <<"sending", g>> \in {<<k, x>>, <<j, y>>} \/ (InSend(g, v)' <=> InSend(g, v))
    /\ <<"received", g>> \in {<<k, x>>, <<j, y>>} \/ (InRecv(g, v)' <=> InRecv(g, v))
    /\ <<"parked", g>> \in {<<k, x>>, <<j, y>>} \/ (AtSend(g, v)' <=> AtSend(g, v))
    /\ <<"resumed", g>> \in {<<k, x>>, <<j, y>>} \/ (AtRecv(g, v)' <=> AtRecv(g, v))

\* A step leaves handle v alone, but for the places <<k, x>> and <<j, y>>.
Elsewhere(v, k, x, j, y) ==
    /\ <<"fresh", Null>> \in {<<k, x>>, <<j, y>>} \/ (v \in fresh' <=> v \in fresh)
    /\ <<"released", Null>> \in {<<k, x>>, <<j, y>>} \/ (v \in released' <=> v \in released)
    /\ \A g \in Gids : Moves(g, v, k, x, j, y)
    /\ \A c \in Chans : <<"buffer", c>> \in {<<k, x>>, <<j, y>>} \/ (InBuf(c, v)' <=> InBuf(c, v))

\* Handle v moves from <<k, x>> to <<j, y>>.
LEMMA Hop ==
    ASSUME NEW v, Kept(v), NEW k \in Kinds, NEW j \in Kinds, NEW x \in Spots, NEW y \in Spots,
           Spot(v, k, x), ~Spot(v, k, x)', Spot(v, j, y)', Elsewhere(v, k, x, j, y)
    PROVE  Kept(v)'
<1>1. \A i \in Kinds, z \in Spots : Spot(v, i, z) <=> i = k /\ z = x
  BY Zenon DEF Kept
<1>2. <<k, x>> # <<j, y>>
  BY Zenon
<1>3. ASSUME NEW i \in Kinds, NEW z \in Spots, <<i, z>> \notin {<<k, x>>, <<j, y>>}
      PROVE  Spot(v, i, z)' <=> Spot(v, i, z)
  <2>1. CASE i = "fresh"
    BY Zenon, <1>3, <2>1 DEF Elsewhere, Moves, Spot
  <2>2. CASE i = "released"
    BY Zenon, <1>3, <2>2 DEF Elsewhere, Moves, Spot
  <2>3. CASE i = "held"
    BY Zenon, <1>3, <2>3 DEF Elsewhere, Moves, Spot
  <2>4. CASE i = "sending"
    BY Zenon, <1>3, <2>4 DEF Elsewhere, Moves, Spot
  <2>5. CASE i = "received"
    BY Zenon, <1>3, <2>5 DEF Elsewhere, Moves, Spot
  <2>6. CASE i = "parked"
    BY Zenon, <1>3, <2>6 DEF Elsewhere, Moves, Spot
  <2>7. CASE i = "resumed"
    BY Zenon, <1>3, <2>7 DEF Elsewhere, Moves, Spot
  <2>8. CASE i = "buffer"
    BY Zenon, <1>3, <2>8 DEF Elsewhere, Moves, Spot
  <2> QED
    BY Zenon, <2>1, <2>2, <2>3, <2>4, <2>5, <2>6, <2>7, <2>8 DEF Kinds
<1>4. ASSUME NEW i \in Kinds, NEW z \in Spots PROVE Spot(v, i, z)' <=> i = j /\ z = y
  BY Zenon, <1>1, <1>2, <1>3, <1>4
<1> QED
  BY Zenon, <1>4 DEF Kept

\* A step that leaves handle v alone.
Rest(v) ==
    /\ v \in fresh' <=> v \in fresh
    /\ v \in released' <=> v \in released
    /\ \A g \in Gids : Still(g, v)
    /\ \A c \in Chans : InBuf(c, v)' <=> InBuf(c, v)

LEMMA Resting == ASSUME NEW v, Kept(v), Rest(v) PROVE Kept(v)'
<1>1. ASSUME NEW i \in Kinds, NEW z \in Spots PROVE Spot(v, i, z)' <=> Spot(v, i, z)
  BY Zenon DEF Rest, Still, Spot
<1> QED
  BY Zenon, <1>1 DEF Kept

\* A goroutine that a step does not touch.
Bystander(g) ==
    /\ g \in on' <=> g \in on
    /\ g \in table' <=> g \in table
    /\ g \in done' <=> g \in done
    /\ park'[g] = park[g] /\ tls'[g] = tls[g] /\ slot'[g] = slot[g] /\ held'[g] = held[g]

LEMMA BystanderStill == ASSUME NEW g, Bystander(g), NEW v PROVE Still(g, v)
  BY Zenon DEF Bystander, Still, InSend, InRecv, AtSend, AtRecv

LEMMA BystanderTagged ==
    ASSUME NEW g, Tagged(g), Bystander(g), released \subseteq released',
           \A c \in Chans : g \in Elems(senders[c]) => g \in Elems(senders'[c])
    PROVE  Tagged(g)'
<1>1. g \in on \cup done /\ Stale(g) => Stale(g)'
  BY Zenon DEF Bystander, Stale
<1>2. g \in on' \cup done' => Stale(g)'
  BY Zenon, <1>1 DEF Bystander, Tagged
<1> QED
  BY Zenon, <1>2 DEF Bystander, Tagged, Carried

\* A channel whose buffer and waiters a step does not touch.
LEMMA ChannelFilled ==
    ASSUME NEW c, Filled(c), buf'[c] = buf[c],
           \A g \in Elems(senders'[c]) : g \in Elems(senders[c]) /\ slot'[g] = slot[g],
           \A g \in Elems(receivers'[c]) : g \in Elems(receivers[c]) /\ slot'[g] = slot[g]
    PROVE  Filled(c)'
  BY Zenon DEF Filled, Carried

\* What the steps rely on, and keep.
Owning ==
    /\ TypeOK /\ NoMissedPartner /\ OnePlace /\ WaitersKeepChannel
    /\ Tags /\ Possessed

\* Everybody but goroutine g is a bystander, and no buffer is touched.
Alone(g) ==
    /\ \A h \in Gids : h # g => Bystander(h)
    /\ UNCHANGED <<chans, buf>>
    /\ released \subseteq released'

\* A goroutine that is polled or dropped waits nowhere.
LEMMA NotWaiting ==
    ASSUME OnePlace, NEW g, g \in on \cup done \/ g \notin table \/ runq[g] > 0, NEW c \in Chans
    PROVE  g \notin Elems(senders[c]) /\ g \notin Elems(receivers[c])
<1>1. g \notin Waiters(c)
  BY DEF OnePlace
<1> QED
  BY Zenon, <1>1 DEF Waiters

\* A step of a goroutine that waits nowhere keeps the tags of all the others.
LEMMA AloneTags ==
    ASSUME Tags, NEW g \in Gids, Alone(g), Tagged(g)', on' \subseteq table', released' \subseteq Handles,
           \A c \in Chans : g \notin Elems(senders[c]) /\ g \notin Elems(receivers[c]),
           UNCHANGED <<senders, receivers>>, TypeOK
    PROVE  Tags'
<1>1. \A h \in Gids : Tagged(h)'
  BY Zenon, BystanderTagged DEF Alone, Tags
<1>2. ASSUME NEW c \in Chans PROVE Filled(c)'
  <2>1. Elems(senders[c]) \subseteq Gids /\ Elems(receivers[c]) \subseteq Gids
    BY Zenon, QueueSets DEF TypeOK
  <2>2. \A h \in Gids : h # g => slot'[h] = slot[h]
    BY Zenon DEF Alone, Bystander
  <2>3. Filled(c) /\ buf'[c] = buf[c] /\ senders'[c] = senders[c] /\ receivers'[c] = receivers[c]
    BY Zenon DEF Tags, Alone
  <2> QED
    BY Zenon, <2>1, <2>2, <2>3, ChannelFilled
<1> QED
  BY Zenon, <1>1, <1>2 DEF Tags

\* A step in which goroutine g moves no handle.
LEMMA AloneRest ==
    ASSUME NEW g \in Gids, Alone(g), NEW v, Still(g, v), Kept(v),
           v \in fresh' <=> v \in fresh, v \in released' <=> v \in released
    PROVE  Kept(v)'
<1>1. \A h \in Gids : Still(h, v)
  BY Zenon, BystanderStill DEF Alone
<1>2. \A c \in Chans : InBuf(c, v)' <=> InBuf(c, v)
  BY Zenon DEF Alone, InBuf
<1> QED
  BY Zenon, <1>1, <1>2, Resting DEF Rest

\* Goroutine g moves handle v from <<k, x>> to <<j, y>>.
Nearby(v, g, k, x, j, y) ==
    /\ <<"fresh", Null>> \in {<<k, x>>, <<j, y>>} \/ (v \in fresh' <=> v \in fresh)
    /\ <<"released", Null>> \in {<<k, x>>, <<j, y>>} \/ (v \in released' <=> v \in released)
    /\ Moves(g, v, k, x, j, y)

LEMMA AloneHop ==
    ASSUME NEW g \in Gids, Alone(g), NEW v, Kept(v), NEW k \in Kinds, NEW j \in Kinds,
           NEW x \in Spots, NEW y \in Spots, Spot(v, k, x), ~Spot(v, k, x)', Spot(v, j, y)',
           Nearby(v, g, k, x, j, y)
    PROVE  Kept(v)'
<1>1. \A h \in Gids : h # g => Still(h, v)
  BY Zenon, BystanderStill DEF Alone
<1>2. \A c \in Chans : InBuf(c, v)' <=> InBuf(c, v)
  BY Zenon DEF Alone, InBuf
<1>3. Elsewhere(v, k, x, j, y)
  <2>1. ASSUME NEW h \in Gids, h # g PROVE Moves(h, v, k, x, j, y)
    BY Zenon, <1>1, <2>1 DEF Still, Moves
  <2> QED
    BY Zenon, <1>2, <2>1 DEF Elsewhere, Nearby
<1> QED
  BY Zenon, <1>3, Hop

\* drive loads the suspension state: a received value moves to the worker.
LEMMA DriveOwning ==
    ASSUME Owning, NEW g \in Gids, Drive(g) PROVE Tags' /\ Possessed'
<1> USE ChannelsAssumption
<1>1. /\ UNCHANGED <<table, done, park, slot, chans, buf, senders, receivers, fresh, held, released>>
      /\ runq[g] > 0
  BY Zenon DEF Drive, chanVars, valueVars
<1>2. CASE g \notin table
  <2>1. Alone(g) /\ Bystander(g)
    BY Zenon, <1>1, <1>2 DEF Drive, Alone, Bystander
  <2>2. Tagged(g)'
    BY Zenon, <1>1, <2>1, BystanderTagged DEF Owning, Tags
  <2>3. Tags'
    BY Zenon, <1>1, <1>2, <2>1, <2>2, AloneTags, NotWaiting DEF Drive, Owning, Tags
  <2>4. Possessed'
    BY Zenon, <1>1, <2>1, AloneRest, BystanderStill DEF Owning, Possessed
  <2> QED
    BY Zenon, <2>3, <2>4
<1>3. CASE g \in table
  <2>1. on' = on \cup {g} /\ tls' = [tls EXCEPT ![g] = slot[g]]
    BY Zenon, <1>3 DEF Drive
  <2>2. g \notin on \cup done /\ park[g].op = "none"
    <3>1. g \notin on \cup done
      BY <1>1 DEF Owning, OnePlace, TypeOK
    <3> QED
      BY Zenon, <3>1 DEF Owning, WaitersKeepChannel
  <2>3. \A c \in Chans : g \notin Elems(senders[c]) /\ g \notin Elems(receivers[c])
    BY Zenon, <1>1, NotWaiting DEF Owning
  <2>4. tls'[g] = slot[g] /\ slot[g].send = Null /\ Tagged(g)
    BY Zenon, <1>3, <2>1, <2>3 DEF Owning, Tags, Tagged, TypeOK
  <2>5. Alone(g)
    BY Zenon, <1>1, <2>1 DEF Alone, Bystander, Owning, TypeOK
  <2>6. Tagged(g)'
    <3>1. Stale(g)'
      BY Zenon, <1>1, <2>1, <2>4 DEF Stale
    <3>2. ~tls'[g].sendOwned /\ (tls'[g].recvOwned <=> tls'[g].recv \in Handles)
      BY <2>4 DEF Tagged
    <3> QED
      BY Zenon, <1>1, <2>1, <2>2, <2>4, <3>1, <3>2 DEF Tagged
  <2>7. Tags'
    BY Zenon, <1>1, <1>3, <2>1, <2>3, <2>5, <2>6, AloneTags DEF Owning, Tags
  <2>8. ASSUME NEW v \in Handles PROVE Kept(v)'
    <3>1. /\ ~InSend(g, v) /\ ~InSend(g, v)' /\ ~InRecv(g, v) /\ (InRecv(g, v)' <=> slot[g].recv = v)
          /\ ~AtSend(g, v) /\ ~AtSend(g, v)' /\ ~AtRecv(g, v)' /\ (AtRecv(g, v) <=> slot[g].recv = v)
      BY Zenon, <1>1, <1>3, <2>1, <2>2, <2>4 DEF InSend, InRecv, AtSend, AtRecv
    <3>2. CASE slot[g].recv = v
      <4>1. Spot(v, "resumed", g) /\ ~Spot(v, "resumed", g)' /\ Spot(v, "received", g)'
        BY Zenon, <3>1, <3>2 DEF Spot
      <4>2. Nearby(v, g, "resumed", g, "received", g)
        BY Zenon, <1>1, <3>1 DEF Nearby, Moves
      <4> QED
        BY Zenon, <2>5, <4>1, <4>2, AloneHop DEF Kinds, Spots, Owning, Possessed
    <3>3. CASE slot[g].recv # v
      BY Zenon, <1>1, <2>5, <3>1, <3>3, AloneRest DEF Still, Owning, Possessed
    <3> QED
      BY Zenon, <3>2, <3>3
  <2> QED
    BY Zenon, <2>7, <2>8 DEF Possessed
<1> QED
  BY Zenon, <1>2, <1>3

\* recv_result: the value moves from the worker's state into the future.
LEMMA TakeResultOwning ==
    ASSUME Owning, NEW g \in Gids, TakeResult(g) PROVE Tags' /\ Possessed'
<1>1. /\ UNCHANGED <<table, done, on, park, slot, chans, buf, senders, receivers, fresh, released>>
      /\ g \in on /\ tls[g].recv # Null
  BY Zenon DEF TakeResult, chanVars
<1>2. Tagged(g) /\ park[g].op = "none" /\ tls[g].send = Null
  BY Zenon, <1>1 DEF Owning, Tags, Tagged, TypeOK, Parks
<1>3. /\ tls'[g].send = tls[g].send /\ tls'[g].recv = Null /\ ~tls'[g].recvOwned
      /\ (tls'[g].sendOwned <=> tls[g].sendOwned)
      /\ \A h \in Gids : h # g => tls'[h] = tls[h]
  BY DEF TakeResult, Taken, State, Owning, TypeOK
<1>4. /\ held'[g] = held[g] \cup (IF tls[g].recvOwned THEN {tls[g].recv} ELSE {})
      /\ \A h \in Gids : h # g => held'[h] = held[h]
  BY Zenon DEF TakeResult, Owning, TypeOK
<1>5. held'[g] = held[g] \cup ({tls[g].recv} \cap Handles)
  BY <1>2, <1>4 DEF Tagged
<1>6. Alone(g)
  BY Zenon, <1>1, <1>3, <1>4 DEF Alone, Bystander
<1>7. Null \notin Handles
  BY Zenon, ChannelsAssumption
<1>8. Tagged(g)'
  <2>1. Stale(g)'
    BY ZenonT(40), <1>1, <1>2, <1>5 DEF Tagged, Stale
  <2>2. (~tls[g].sendOwned /\ (tls[g].recvOwned <=> tls[g].recv \in Handles))' /\ (slot[g].recvOwned <=> slot[g].recv \in Handles)'
        /\ (slot[g].sendOwned <=> slot[g].send \in Handles)'
    BY <1>1, <1>2, <1>3, <1>7 DEF Tagged
  <2> QED
    BY Zenon, <1>1, <1>2, <1>3, <1>5, <2>1, <2>2 DEF Tagged
<1>9. Tags'
  BY Zenon, <1>1, <1>6, <1>8, AloneTags, NotWaiting DEF Owning, Tags
<1>10. ASSUME NEW v \in Handles PROVE Kept(v)'
  <2>1. /\ ~InSend(g, v) /\ ~InSend(g, v)' /\ ~InRecv(g, v)' /\ (InRecv(g, v) <=> tls[g].recv = v)
        /\ (AtSend(g, v)' <=> AtSend(g, v)) /\ (AtRecv(g, v)' <=> AtRecv(g, v))
    BY Zenon, <1>1, <1>2, <1>3, <1>7 DEF InSend, InRecv, AtSend, AtRecv
  <2>2. CASE tls[g].recv = v
    <3>1. Spot(v, "received", g) /\ ~Spot(v, "received", g)' /\ Spot(v, "held", g)'
      BY Zenon, <1>5, <2>1, <2>2 DEF Spot
    <3>2. Nearby(v, g, "received", g, "held", g)
      BY Zenon, <1>1, <2>1 DEF Nearby, Moves
    <3> QED
      BY Zenon, <1>6, <3>1, <3>2, AloneHop DEF Kinds, Spots, Owning, Possessed
  <2>3. CASE tls[g].recv # v
    BY Zenon, <1>1, <1>5, <1>6, <2>1, <2>3, AloneRest DEF Still, Owning, Possessed
  <2> QED
    BY Zenon, <2>2, <2>3
<1> QED
  BY Zenon, <1>9, <1>10 DEF Possessed

\* park_chan_send: the value moves from the future into the worker's state.
LEMMA ParkSendOwning ==
    ASSUME Owning, NEW g \in Gids, NEW c \in Chans, NEW w \in Values, ParkSend(g, c, w)
    PROVE  Tags' /\ Possessed'
<1>1. /\ UNCHANGED <<table, done, on, slot, chans, buf, senders, receivers, released>>
      /\ g \in on /\ park[g] = NoPark /\ tls[g].recv = Null
      /\ fresh' = fresh \ {w}
  BY Zenon DEF ParkSend, CanUse, CanAct, chanVars
<1>2. Null \notin Handles /\ Scalars \cap Handles = {}
  BY Zenon, ChannelsAssumption
<1>3. /\ tls'[g].send = w /\ tls'[g].recv = Null /\ (tls'[g].recvOwned <=> tls[g].recvOwned)
      /\ ~tls'[g].sendOwned
      /\ \A h \in Gids : h # g => tls'[h] = tls[h]
  BY <1>1 DEF ParkSend, Sending, State, Owning, TypeOK
<1>4. /\ held'[g] = held[g] \ {w} /\ park'[g].op = "send" /\ park'[g].chan = c
      /\ \A h \in Gids : h # g => held'[h] = held[h] /\ park'[h] = park[h]
  BY ZenonT(40) DEF ParkSend, Owning, TypeOK
<1>5. Tagged(g) /\ park[g].op = "none" /\ tls[g].send = Null
  <2>1. Tagged(g) /\ park[g].op = "none"
    BY SMTT(40), Z3T(40), <1>1 DEF Owning, Tags, NoPark
  <2> QED
    BY SMTT(40), Z3T(40), <1>1, <2>1 DEF Tagged
<1>6. Alone(g)
  BY Zenon, <1>1, <1>3, <1>4 DEF Alone, Bystander
<1>7. w \in Carried(c) /\ (w \in Handles => w \in fresh \cup held[g])
  BY Zenon, <1>2, <1>5 DEF ParkSend, Carried, Tagged, Owning, TypeOK
<1>8. Tagged(g)'
  <2>1. Stale(g)'
    BY ZenonT(40), <1>1, <1>2, <1>3, <1>4, <1>5 DEF Tagged, Stale
  <2>2. (~tls[g].sendOwned /\ (tls[g].recvOwned <=> tls[g].recv \in Handles))' /\ (slot[g].recvOwned <=> slot[g].recv \in Handles)'
        /\ (slot[g].sendOwned <=> slot[g].send \in Handles)'
    BY <1>1, <1>2, <1>3, <1>5 DEF Tagged
  <2>3. tls'[g].send \in Carried(park[g].chan)'
    BY Zenon, <1>3, <1>4, <1>7 DEF Carried
  <2> QED
    BY Zenon, <1>1, <1>3, <1>4, <1>5, <2>1, <2>2, <2>3 DEF Tagged
<1>9. Tags'
  BY Zenon, <1>1, <1>6, <1>8, AloneTags, NotWaiting DEF Owning, Tags
<1>10. ASSUME NEW v \in Handles PROVE Kept(v)'
  <2>1. /\ ~InSend(g, v) /\ (InSend(g, v)' <=> w = v) /\ ~InRecv(g, v)' /\ ~InRecv(g, v)
        /\ (AtSend(g, v)' <=> AtSend(g, v)) /\ (AtRecv(g, v)' <=> AtRecv(g, v))
    BY Zenon, <1>1, <1>2, <1>3, <1>4, <1>5 DEF InSend, InRecv, AtSend, AtRecv
  <2>2. CASE w = v /\ v \in fresh
    <3>1. Spot(v, "fresh", Null) /\ ~Spot(v, "fresh", Null)' /\ Spot(v, "sending", g)'
      BY Zenon, <1>1, <2>1, <2>2 DEF Spot
    <3>2. v \notin held[g]
      <4>1. Spot(v, "held", g) => "held" = "fresh"
        BY Zenon, <3>1 DEF Kinds, Spots, Owning, Possessed, Kept
      <4> QED
        BY <4>1 DEF Spot
    <3>3. Nearby(v, g, "fresh", Null, "sending", g)
      BY Zenon, <1>1, <1>4, <2>1, <3>2 DEF Nearby, Moves
    <3> QED
      BY Zenon, <1>6, <3>1, <3>3, AloneHop DEF Kinds, Spots, Owning, Possessed
  <2>3. CASE w = v /\ v \notin fresh
    <3>1. Spot(v, "held", g) /\ ~Spot(v, "held", g)' /\ Spot(v, "sending", g)'
      BY Zenon, <1>4, <1>7, <2>1, <2>3 DEF Spot
    <3>2. Nearby(v, g, "held", g, "sending", g)
      BY Zenon, <1>1, <2>1, <2>3 DEF Nearby, Moves
    <3> QED
      BY Zenon, <1>6, <3>1, <3>2, AloneHop DEF Kinds, Spots, Owning, Possessed
  <2>4. CASE w # v
    BY Zenon, <1>1, <1>4, <1>6, <2>1, <2>4, AloneRest DEF Still, Owning, Possessed
  <2> QED
    BY Zenon, <2>2, <2>3, <2>4
<1> QED
  BY Zenon, <1>9, <1>10 DEF Possessed

\* park_chan_recv moves nothing: the poll has taken its result before.
LEMMA ParkRecvOwning ==
    ASSUME Owning, NEW g \in Gids, NEW c \in Chans, ParkRecv(g, c) PROVE Tags' /\ Possessed'
<1>1. /\ UNCHANGED <<table, done, on, slot, chans, buf, senders, receivers, released, fresh, held>>
      /\ g \in on /\ park[g] = NoPark /\ tls[g].recv = Null
  BY Zenon DEF ParkRecv, CanUse, CanAct, chanVars, valueVars
<1>2. Null \notin Handles
  BY Zenon, ChannelsAssumption
<1>3. /\ tls'[g].send = tls[g].send /\ tls'[g].recv = Null /\ ~tls'[g].recvOwned
      /\ (tls'[g].sendOwned <=> tls[g].sendOwned)
      /\ \A h \in Gids : h # g => tls'[h] = tls[h]
  BY DEF ParkRecv, ReceivedNothing, State, Owning, TypeOK
<1>4. park'[g].op = "recv" /\ \A h \in Gids : h # g => park'[h] = park[h]
  BY Zenon DEF ParkRecv, Owning, TypeOK
<1>5. Tagged(g) /\ park[g].op = "none" /\ tls[g].send = Null
  <2>1. Tagged(g) /\ park[g].op = "none"
    BY <1>1 DEF Owning, Tags, NoPark
  <2> QED
    BY SMTT(40), Z3T(40), <1>1, <2>1 DEF Tagged
<1>6. Alone(g)
  BY Zenon, <1>1, <1>3, <1>4 DEF Alone, Bystander
<1>7. Tagged(g)'
  <2>1. Stale(g)'
    BY Zenon, <1>1, <1>2, <1>5 DEF Tagged, Stale
  <2>2. (~tls[g].sendOwned /\ (tls[g].recvOwned <=> tls[g].recv \in Handles))' /\ (slot[g].recvOwned <=> slot[g].recv \in Handles)'
        /\ (slot[g].sendOwned <=> slot[g].send \in Handles)'
    BY <1>1, <1>2, <1>3, <1>5 DEF Tagged
  <2> QED
    BY Zenon, <1>1, <1>3, <1>4, <1>5, <2>1, <2>2 DEF Tagged
<1>8. Tags'
  BY Zenon, <1>1, <1>6, <1>7, AloneTags, NotWaiting DEF Owning, Tags
<1>9. ASSUME NEW v \in Handles PROVE Kept(v)'
  <2>1. Still(g, v)
    BY Zenon, <1>1, <1>2, <1>3, <1>4, <1>5 DEF Still, InSend, InRecv, AtSend, AtRecv
  <2> QED
    BY Zenon, <1>1, <1>6, <2>1, AloneRest DEF Owning, Possessed
<1> QED
  BY Zenon, <1>8, <1>9 DEF Possessed

\* The future releases a value it holds.
LEMMA ReleaseHeldOwning ==
    ASSUME Owning, NEW g \in Gids, NEW w \in Handles, ReleaseHeld(g, w) PROVE Tags' /\ Possessed'
<1>1. /\ UNCHANGED <<table, done, on, park, tls, slot, chans, buf, senders, receivers, fresh>>
      /\ w \in held[g] /\ released' = released \cup {w} /\ g \in on \cup cleaning
  BY Zenon DEF ReleaseHeld, CanAct, taskVars, chanVars
<1>2. held'[g] = held[g] \ {w} /\ \A h \in Gids : h # g => held'[h] = held[h]
  BY Zenon DEF ReleaseHeld, Owning, TypeOK
<1>3. Alone(g)
  BY Zenon, <1>1, <1>2 DEF Alone, Bystander
<1>4. Tagged(g)'
  <2>1. Stale(g) => Stale(g)'
    BY Zenon, <1>1, <1>2 DEF Stale
  <2> QED
    BY Zenon, <1>1, <1>2, <2>1 DEF Tagged, Owning, Tags, Carried
<1>5. g \in on \cup done \/ g \notin table
  BY Zenon, <1>1 DEF Owning, WaitersKeepChannel
<1>6. Tags'
  BY Zenon, <1>1, <1>3, <1>4, <1>5, AloneTags, NotWaiting DEF Owning, Tags
<1>7. ASSUME NEW v \in Handles PROVE Kept(v)'
  <2>1. /\ (InSend(g, v)' <=> InSend(g, v)) /\ (InRecv(g, v)' <=> InRecv(g, v))
        /\ (AtSend(g, v)' <=> AtSend(g, v)) /\ (AtRecv(g, v)' <=> AtRecv(g, v))
    BY Zenon, <1>1 DEF InSend, InRecv, AtSend, AtRecv
  <2>2. CASE w = v
    <3>1. Spot(v, "held", g) /\ ~Spot(v, "held", g)' /\ Spot(v, "released", Null)'
      BY Zenon, <1>1, <1>2, <2>2 DEF Spot
    <3>2. Nearby(v, g, "held", g, "released", Null)
      BY Zenon, <1>1, <2>1 DEF Nearby, Moves
    <3> QED
      BY Zenon, <1>3, <3>1, <3>2, AloneHop DEF Kinds, Spots, Owning, Possessed
  <2>3. CASE w # v
    BY Zenon, <1>1, <1>2, <1>3, <2>1, <2>3, AloneRest DEF Still, Owning, Possessed
  <2> QED
    BY Zenon, <2>2, <2>3
<1> QED
  BY Zenon, <1>6, <1>7 DEF Possessed

\* The end of a poll that neither sends nor receives moves nothing: what the slot
\* says from now on has been taken, or the goroutine is done.
LEMMA FlushYieldOwning ==
    ASSUME Owning, NEW g \in Gids, FlushYield(g) PROVE Tags' /\ Possessed'
<1>1. /\ UNCHANGED <<table, done, chans, buf, senders, receivers, fresh, held, released>>
      /\ on' = on \ {g} /\ g \in on /\ park[g] = NoPark /\ tls[g].recv = Null
  BY Zenon DEF FlushYield, EndPoll, CanAct, chanVars, valueVars
<1>2. Null \notin Handles
  BY Zenon, ChannelsAssumption
<1>3. /\ tls'[g] = Idle /\ park'[g] = NoPark /\ slot'[g] = tls[g]
      /\ \A h \in Gids : h # g => tls'[h] = tls[h] /\ park'[h] = park[h] /\ slot'[h] = slot[h]
  BY Zenon DEF FlushYield, EndPoll, Owning, TypeOK
<1>4. Tagged(g) /\ park[g].op = "none" /\ tls[g].send = Null
  <2>1. Tagged(g) /\ park[g].op = "none"
    BY <1>1 DEF Owning, Tags, NoPark
  <2> QED
    BY SMTT(40), Z3T(40), <1>1, <2>1 DEF Tagged
<1>5. Alone(g)
  BY Zenon, <1>1, <1>3 DEF Alone, Bystander
<1>6. g \notin on' /\ g \notin done' /\ tls'[g].recv = Null /\ slot'[g].recv = Null /\ slot'[g].send = Null
  BY <1>1, <1>3, <1>4 DEF Idle, State, Owning, OnePlace
<1>7. Tagged(g)'
  <2>1. (~tls[g].sendOwned /\ (tls[g].recvOwned <=> tls[g].recv \in Handles))' /\ (slot[g].recvOwned <=> slot[g].recv \in Handles)'
        /\ (slot[g].sendOwned <=> slot[g].send \in Handles)'
    BY <1>1, <1>2, <1>3, <1>4 DEF Tagged, Idle, State
  <2> QED
    BY Zenon, <1>1, <1>4, <1>6, <2>1 DEF Tagged
<1>8. Tags'
  BY Zenon, <1>1, <1>5, <1>7, AloneTags, NotWaiting DEF Owning, Tags
<1>9. ASSUME NEW v \in Handles PROVE Kept(v)'
  <2>1. Still(g, v)
    BY Zenon, <1>1, <1>2, <1>4, <1>6 DEF Still, InSend, InRecv, AtSend, AtRecv
  <2> QED
    BY Zenon, <1>1, <1>5, <2>1, AloneRest DEF Owning, Possessed
<1> QED
  BY Zenon, <1>8, <1>9 DEF Possessed

LEMMA FlushDoneOwning ==
    ASSUME Owning, NEW g \in Gids, FlushDone(g) PROVE Tags' /\ Possessed'
<1>1. /\ UNCHANGED <<slot, chans, buf, senders, receivers, fresh, held, released>>
      /\ on' = on \ {g} /\ g \in on \cap table /\ park[g] = NoPark /\ tls[g].recv = Null /\ held[g] = {}
  BY Zenon DEF FlushDone, EndPoll, CanAct, chanVars, valueVars
<1>2. Null \notin Handles
  BY Zenon, ChannelsAssumption
<1>3. /\ tls'[g] = Idle /\ park'[g] = NoPark
      /\ \A h \in Gids : h # g => /\ tls'[h] = tls[h] /\ park'[h] = park[h]
                                  /\ (h \in table' <=> h \in table) /\ (h \in done' <=> h \in done)
      /\ g \notin table' \/ g \in done'
  BY Zenon DEF FlushDone, EndPoll, Owning, TypeOK
<1>4. Tagged(g) /\ park[g].op = "none" /\ tls[g].send = Null
  <2>1. Tagged(g) /\ park[g].op = "none"
    BY <1>1 DEF Owning, Tags, NoPark
  <2> QED
    BY SMTT(40), Z3T(40), <1>1, <2>1 DEF Tagged
<1>5. Alone(g)
  BY Zenon, <1>1, <1>3 DEF Alone, Bystander
<1>6. slot[g].send = Null
  BY Zenon, <1>1, <1>4, NotWaiting DEF Tagged, Owning
<1>7. tls'[g].recv = Null /\ ~tls'[g].recvOwned /\ ~tls'[g].sendOwned /\ park'[g].op = "none"
  BY <1>3 DEF Idle, State, NoPark
<1>8. Tagged(g)'
  <2>1. Stale(g)'
    BY Zenon, <1>1, <1>2, <1>4 DEF Stale, Tagged
  <2>2. (~tls[g].sendOwned /\ (tls[g].recvOwned <=> tls[g].recv \in Handles))' /\ (slot[g].recvOwned <=> slot[g].recv \in Handles)'
        /\ (slot[g].sendOwned <=> slot[g].send \in Handles)'
    BY <1>1, <1>2, <1>4, <1>7 DEF Tagged
  <2> QED
    BY Zenon, <1>1, <1>4, <1>6, <1>7, <2>1, <2>2 DEF Tagged
<1>9. on' \subseteq table'
  BY Zenon, <1>1, <1>3 DEF Owning, Tags, TypeOK
<1>10. Tags'
  BY Zenon, <1>1, <1>5, <1>8, <1>9, AloneTags, NotWaiting DEF Owning, Tags
<1>11. ASSUME NEW v \in Handles PROVE Kept(v)'
  <2>1. Still(g, v)
    BY Zenon, <1>1, <1>2, <1>3, <1>4, <1>6 DEF Still, InSend, InRecv, AtSend, AtRecv
  <2> QED
    BY Zenon, <1>1, <1>5, <2>1, AloneRest DEF Owning, Possessed
<1> QED
  BY Zenon, <1>10, <1>11 DEF Possessed

\* What the end of a poll that waits for a channel has in common (drive, chan_op).
Ended(g, op, c) ==
    /\ UNCHANGED <<table, done, chans, fresh, held>>
    /\ on' = on \ {g} /\ g \in on \cap table /\ g \notin done
    /\ tls'[g] = Idle /\ park'[g] = NoPark
    /\ park[g].op = op /\ park[g].chan = c
    /\ \A h \in Gids : h # g => tls'[h] = tls[h] /\ park'[h] = park[h]
    /\ tls[g].recv = Null /\ ~tls[g].recvOwned /\ ~tls[g].sendOwned
    /\ IF op = "send" THEN tls[g].send \in Carried(c) ELSE tls[g].send = Null
    /\ \A d \in Chans : g \notin Elems(senders[d]) /\ g \notin Elems(receivers[d])
    /\ Null \notin Handles /\ Scalars \cap Handles = {}

LEMMA FlushEnds ==
    ASSUME Owning, NEW g \in Gids, NEW c \in Chans, NEW op \in {"send", "recv"}, Flushing(g, op, c)
    PROVE  Ended(g, op, c)
<1>1. /\ UNCHANGED <<table, done, chans, fresh, held>>
      /\ on' = on \ {g} /\ g \in on \cap table /\ park[g] = [op |-> op, chan |-> c]
  BY Zenon DEF Flushing, EndPoll
<1>2. /\ tls'[g] = Idle /\ park'[g] = NoPark
      /\ \A h \in Gids : h # g => tls'[h] = tls[h] /\ park'[h] = park[h]
  BY Zenon DEF Flushing, EndPoll, Owning, TypeOK
<1>3. park[g].op = op /\ park[g].chan = c
  BY <1>1
<1>4. Null \notin Handles /\ Scalars \cap Handles = {}
  BY Zenon, ChannelsAssumption
<1>5. Tagged(g) /\ g \notin done
  BY Zenon, <1>1 DEF Owning, Tags, OnePlace
<1>6. tls[g].recv = Null /\ ~tls[g].recvOwned /\ ~tls[g].sendOwned
  BY <1>3, <1>4, <1>5 DEF Tagged
<1>7. IF op = "send" THEN tls[g].send \in Carried(c) ELSE tls[g].send = Null
  BY Zenon, <1>1, <1>3, <1>5 DEF Tagged
<1>8. \A d \in Chans : g \notin Elems(senders[d]) /\ g \notin Elems(receivers[d])
  BY Zenon, <1>1, NotWaiting DEF Owning
<1> QED
  BY Zenon, <1>1, <1>2, <1>3, <1>4, <1>5, <1>6, <1>7, <1>8 DEF Ended

\* The goroutine whose poll ended is tagged when its slot is.
LEMMA EndedTagged ==
    ASSUME Owning, NEW g \in Gids, NEW op, NEW c, Ended(g, op, c),
           slot'[g].recvOwned <=> slot'[g].recv \in Handles,
           slot'[g].sendOwned <=> slot'[g].send \in Handles,
           slot'[g].send # Null => \E d \in Chans : g \in Elems(senders'[d])
    PROVE  Tagged(g)'
<1>1. tls'[g].recv = Null /\ ~tls'[g].recvOwned /\ ~tls'[g].sendOwned /\ park'[g].op = "none"
  BY DEF Ended, Idle, State, NoPark
<1>2. held'[g] \subseteq Handles /\ g \notin on' /\ g \notin done'
  BY Zenon DEF Ended, Owning, Tags, Tagged
<1>3. (~tls[g].sendOwned /\ (tls[g].recvOwned <=> tls[g].recv \in Handles))'
  BY <1>1 DEF Ended
<1> QED
  BY Zenon, <1>1, <1>2, <1>3 DEF Tagged

\* What it leaves behind at the worker.
Left(g, op, v) ==
    /\ ~InSend(g, v)' /\ (InSend(g, v) <=> op = "send" /\ tls[g].send = v)
    /\ ~InRecv(g, v)' /\ ~InRecv(g, v) /\ ~AtSend(g, v) /\ ~AtRecv(g, v)
    /\ (AtSend(g, v)' <=> slot'[g].send = v)
    /\ (AtRecv(g, v)' <=> slot'[g].recv = v)
    /\ (v \in held'[g] <=> v \in held[g])

LEMMA EndedSpots ==
    ASSUME NEW g \in Gids, NEW op, NEW c, Ended(g, op, c), NEW v \in Handles
    PROVE  Left(g, op, v) /\ v # Null
  BY Zenon DEF Ended, Left, InSend, InRecv, AtSend, AtRecv

\* A poll ends in which nobody but the goroutines M has a slot written.
Touches(M, g, op, c) ==
    /\ Ended(g, op, c) /\ M \subseteq Gids /\ g \in M
    /\ \A h \in Gids \ M : slot'[h] = slot[h]
    /\ released \subseteq released'

\* Only channel c is changed, and the goroutines M wait on no other.
Around(M, c) ==
    \A d \in Chans : d # c =>
        /\ buf'[d] = buf[d] /\ senders'[d] = senders[d] /\ receivers'[d] = receivers[d]
        /\ \A h \in M : h \notin Elems(senders[d]) /\ h \notin Elems(receivers[d])

LEMMA TouchedBystanders ==
    ASSUME NEW M, NEW g \in Gids, NEW op, NEW c, Touches(M, g, op, c), NEW h \in Gids, h \notin M
    PROVE  Bystander(h)
  BY Zenon DEF Touches, Ended, Bystander

LEMMA TouchedTags ==
    ASSUME Owning, NEW M, NEW g \in Gids, NEW op, NEW c \in Chans, Touches(M, g, op, c), Around(M, c),
           \A h \in M : Tagged(h)', Filled(c)', released' \subseteq Handles,
           \A h \in Gids : h \notin M /\ h \in Elems(senders[c]) => h \in Elems(senders'[c])
    PROVE  Tags'
<1>1. ASSUME NEW h \in Gids, h \notin M PROVE Tagged(h)'
  <2>1. Bystander(h)
    BY Zenon, <1>1, TouchedBystanders
  <2>2. \A d \in Chans : h \in Elems(senders[d]) => h \in Elems(senders'[d])
    BY Zenon, <1>1 DEF Around
  <2> QED
    BY Zenon, <2>1, <2>2, BystanderTagged DEF Touches, Owning, Tags
<1>2. ASSUME NEW d \in Chans, d # c PROVE Filled(d)'
  <2>1. Elems(senders[d]) \subseteq Gids /\ Elems(receivers[d]) \subseteq Gids
    BY Zenon, QueueSets DEF Owning, TypeOK
  <2>2. Filled(d)
    BY Zenon DEF Owning, Tags
  <2> QED
    BY Zenon, <1>2, <2>1, <2>2, ChannelFilled DEF Touches, Around
<1>3. on' \subseteq table'
  BY Zenon DEF Touches, Ended, Owning, Tags
<1> QED
  BY Zenon, <1>1, <1>2, <1>3 DEF Tags

LEMMA TouchedHop ==
    ASSUME NEW M, NEW g \in Gids, NEW op, NEW c, Touches(M, g, op, c),
           NEW v, Kept(v), NEW k \in Kinds, NEW j \in Kinds, NEW x \in Spots, NEW y \in Spots,
           Spot(v, k, x), ~Spot(v, k, x)', Spot(v, j, y)', \A h \in M : Moves(h, v, k, x, j, y),
           <<"released", Null>> \in {<<k, x>>, <<j, y>>} \/ (v \in released' <=> v \in released),
           \A d \in Chans : <<"buffer", d>> \in {<<k, x>>, <<j, y>>} \/ (InBuf(d, v)' <=> InBuf(d, v))
    PROVE  Kept(v)'
<1>1. ASSUME NEW h \in Gids, h \notin M PROVE Moves(h, v, k, x, j, y)
  BY Zenon, <1>1, TouchedBystanders, BystanderStill DEF Still, Moves
<1>2. Elsewhere(v, k, x, j, y)
  BY Zenon, <1>1 DEF Elsewhere, Touches, Ended
<1> QED
  BY Zenon, <1>2, Hop

LEMMA TouchedRest ==
    ASSUME NEW M, NEW g \in Gids, NEW op, NEW c, Touches(M, g, op, c), NEW v, Kept(v),
           \A h \in M : Still(h, v), v \in released' <=> v \in released,
           \A d \in Chans : InBuf(d, v)' <=> InBuf(d, v)
    PROVE  Kept(v)'
<1>1. \A h \in Gids : h \notin M => Still(h, v)
  BY Zenon, TouchedBystanders, BystanderStill
<1> QED
  BY Zenon, <1>1, Resting DEF Rest, Touches, Ended

\* The channel is gone or drained: nothing moves.
LEMMA RecvNothingOwning ==
    ASSUME Owning, NEW g \in Gids, NEW c \in Chans, RecvNothing(g, c) PROVE Tags' /\ Possessed'
<1>1. Flushing(g, "recv", c) /\ UNCHANGED <<buf, senders, receivers, released>>
  BY Zenon DEF RecvNothing
<1>2. Ended(g, "recv", c)
  BY Zenon, <1>1, FlushEnds
<1>3. /\ slot'[g].send = Null /\ slot'[g].recv = Null /\ ~slot'[g].sendOwned /\ ~slot'[g].recvOwned
      /\ \A h \in Gids : h # g => slot'[h] = slot[h]
  BY <1>2 DEF RecvNothing, ReceivedNothing, State, Ended, Owning, TypeOK
<1>4. Touches({g}, g, "recv", c) /\ Around({g}, c)
  BY Zenon, <1>1, <1>2, <1>3 DEF Touches, Around, Ended
<1>5. Tagged(g)'
  BY Zenon, <1>2, <1>3, EndedTagged DEF Ended
<1>6. Filled(c)'
  <2>1. Elems(senders[c]) \subseteq Gids /\ Elems(receivers[c]) \subseteq Gids /\ Filled(c)
    BY Zenon, QueueSets DEF Owning, TypeOK, Tags
  <2> QED
    BY Zenon, <1>1, <1>2, <1>3, <2>1, ChannelFilled DEF Ended
<1>7. Tags'
  <2>1. released' \subseteq Handles /\ \A h \in {g} : Tagged(h)'
    BY Zenon, <1>1, <1>5 DEF Owning, Tags
  <2> QED
    BY <1>1, <1>4, <1>6, <2>1, TouchedTags
<1>8. ASSUME NEW v \in Handles PROVE Kept(v)'
  <2>0. Left(g, "recv", v) /\ v # Null
    BY Zenon, <1>2, EndedSpots
  <2>1. Kept(v) /\ \A h \in {g} : Still(h, v)
    BY Zenon, <1>3, <2>0 DEF Still, Left, Owning, Possessed
  <2>2. \A d \in Chans : InBuf(d, v)' <=> InBuf(d, v)
    BY Zenon, <1>1, <1>2 DEF InBuf, Ended
  <2> QED
    BY <1>1, <1>4, <2>1, <2>2, TouchedRest
<1> QED
  BY Zenon, <1>7, <1>8 DEF Possessed

\* The channel is closed: the value sent is released.
LEMMA SendClosedOwning ==
    ASSUME Owning, NEW g \in Gids, NEW c \in Chans, SendClosed(g, c) PROVE Tags' /\ Possessed'
<1>1. /\ Flushing(g, "send", c) /\ UNCHANGED <<buf, senders, receivers>>
      /\ released' = released \cup Owned(c, {tls[g].send})
  BY Zenon DEF SendClosed
<1>2. Ended(g, "send", c)
  BY Zenon, <1>1, FlushEnds
<1>3. /\ slot'[g].send = Null /\ slot'[g].recv = Null /\ ~slot'[g].sendOwned /\ ~slot'[g].recvOwned
      /\ \A h \in Gids : h # g => slot'[h] = slot[h]
  BY <1>2 DEF SendClosed, SendDone, State, Ended, Owning, TypeOK
<1>4. released' = released \cup ({tls[g].send} \cap Handles)
  BY Zenon, <1>1, <1>2 DEF Ended, Carried, Owned
<1>5. Touches({g}, g, "send", c) /\ Around({g}, c)
  BY Zenon, <1>1, <1>2, <1>3 DEF Touches, Around, Ended
<1>6. Tagged(g)'
  BY Zenon, <1>2, <1>3, EndedTagged DEF Ended
<1>7. Filled(c)'
  <2>1. Elems(senders[c]) \subseteq Gids /\ Elems(receivers[c]) \subseteq Gids /\ Filled(c)
    BY Zenon, QueueSets DEF Owning, TypeOK, Tags
  <2> QED
    BY Zenon, <1>1, <1>2, <1>3, <2>1, ChannelFilled DEF Ended
<1>8. Tags'
  <2>1. released' \subseteq Handles /\ \A h \in {g} : Tagged(h)'
    BY Zenon, <1>4, <1>6 DEF Owning, Tags
  <2> QED
    BY <1>1, <1>5, <1>7, <2>1, TouchedTags
<1>9. ASSUME NEW v \in Handles PROVE Kept(v)'
  <2>0. Left(g, "send", v) /\ v # Null
    BY Zenon, <1>2, EndedSpots
  <2>1. Kept(v) /\ \A d \in Chans : InBuf(d, v)' <=> InBuf(d, v)
    BY Zenon, <1>1, <1>2 DEF InBuf, Ended, Owning, Possessed
  <2>2. CASE tls[g].send = v
    <3>1. Spot(v, "sending", g) /\ ~Spot(v, "sending", g)' /\ Spot(v, "released", Null)'
      BY Zenon, <2>0, <1>4, <2>2 DEF Left, Spot
    <3>2. Moves(g, v, "sending", g, "released", Null)
      BY Zenon, <2>0, <1>3 DEF Left, Moves
    <3>3. \A h \in {g} : Moves(h, v, "sending", g, "released", Null)
      BY Zenon, <3>2
    <3>4. "sending" \in Kinds /\ "released" \in Kinds /\ g \in Spots /\ Null \in Spots
      BY Zenon DEF Kinds, Spots
    <3> QED
      BY <1>5, <2>1, <3>1, <3>3, <3>4, TouchedHop
  <2>3. CASE tls[g].send # v
    <3>1. (v \in released' <=> v \in released) /\ \A h \in {g} : Still(h, v)
      BY Zenon, <2>0, <1>3, <1>4, <2>3 DEF Left, Still
    <3> QED
      BY <1>5, <2>1, <3>1, TouchedRest
  <2> QED
    BY Zenon, <2>2, <2>3
<1> QED
  BY Zenon, <1>8, <1>9 DEF Possessed

\* The buffer is full: the sender waits with its value.
LEMMA SendParksOwning ==
    ASSUME Owning, NEW g \in Gids, NEW c \in Chans, SendParks(g, c) PROVE Tags' /\ Possessed'
<1>1. /\ Flushing(g, "send", c) /\ UNCHANGED <<buf, receivers, released>>
      /\ senders' = [senders EXCEPT ![c] = Append(@, g)]
  BY Zenon DEF SendParks
<1>2. Ended(g, "send", c)
  BY Zenon, <1>1, FlushEnds
<1>3. /\ slot'[g].send = tls[g].send /\ slot'[g].recv = Null
      /\ (slot'[g].sendOwned <=> c \in Owns) /\ ~slot'[g].recvOwned
      /\ \A h \in Gids : h # g => slot'[h] = slot[h]
  BY Zenon, <1>2 DEF SendParks, SendParked, State, Ended, Owning, TypeOK
<1>4. Elems(senders'[c]) = Elems(senders[c]) \cup {g} /\ \A d \in Chans : d # c => senders'[d] = senders[d]
  <2>1. senders[c] \in Seq(Gids) /\ senders'[c] = Append(senders[c], g)
        /\ \A d \in Chans : d # c => senders'[d] = senders[d]
    BY Zenon, <1>1 DEF Owning, TypeOK
  <2>2. senders[c] \in Seq(Gids)
    BY Zenon, <2>1
  <2>3. Elems(Append(senders[c], g)) = Elems(senders[c]) \cup {g}
    BY <2>2, PushSets
  <2> QED
    BY Zenon, <2>1, <2>3
<1>5. Touches({g}, g, "send", c) /\ Around({g}, c)
  <2>1. Touches({g}, g, "send", c)
    BY Zenon, <1>1, <1>2, <1>3 DEF Touches, Ended
  <2>2. Around({g}, c)
    BY Zenon, <1>1, <1>2, <1>4 DEF Around, Ended
  <2> QED
    BY Zenon, <2>1, <2>2
<1>6. Tagged(g)'
  <2>1. slot'[g].sendOwned <=> slot'[g].send \in Handles
    <3>1. tls[g].send \in Handles <=> c \in Owns
      BY Zenon, <1>2 DEF Ended, Carried
    <3> QED
      BY <1>3, <3>1
  <2>2. g \in Elems(senders'[c])
    BY Zenon, <1>4
  <2> QED
    BY Zenon, <1>2, <1>3, <2>1, <2>2, EndedTagged DEF Ended
<1>7. Filled(c)'
  <2>1. Elems(senders[c]) \subseteq Gids /\ Elems(receivers[c]) \subseteq Gids /\ Filled(c)
    BY Zenon, QueueSets DEF Owning, TypeOK, Tags
  <2>2. slot'[g].send \in Carried(c) /\ g \notin Elems(receivers[c])
    BY Zenon, <1>2, <1>3 DEF Ended
  <2> QED
    BY Zenon, <1>1, <1>3, <1>4, <2>1, <2>2 DEF Filled, Carried
<1>8. Tags'
  <2>1. released' \subseteq Handles /\ \A h \in {g} : Tagged(h)'
    BY Zenon, <1>1, <1>6 DEF Owning, Tags
  <2>2. \A h \in Gids : h \in Elems(senders[c]) => h \in Elems(senders'[c])
    BY Zenon, <1>4
  <2> QED
    BY <1>1, <1>5, <1>7, <2>1, <2>2, TouchedTags
<1>9. ASSUME NEW v \in Handles PROVE Kept(v)'
  <2>0. Left(g, "send", v) /\ v # Null
    BY Zenon, <1>2, EndedSpots
  <2>1. Kept(v) /\ \A d \in Chans : InBuf(d, v)' <=> InBuf(d, v)
    BY Zenon, <1>1, <1>2 DEF InBuf, Ended, Owning, Possessed
  <2>2. CASE tls[g].send = v
    <3>1. Spot(v, "sending", g) /\ ~Spot(v, "sending", g)' /\ Spot(v, "parked", g)'
      BY Zenon, <2>0, <1>3, <2>2 DEF Left, Spot
    <3>2. Moves(g, v, "sending", g, "parked", g)
      BY Zenon, <2>0, <1>3 DEF Left, Moves
    <3>3. \A h \in {g} : Moves(h, v, "sending", g, "parked", g)
      BY Zenon, <3>2
    <3>4. "sending" \in Kinds /\ "parked" \in Kinds /\ g \in Spots
      BY Zenon DEF Kinds, Spots
    <3> QED
      BY <1>1, <1>5, <2>1, <3>1, <3>3, <3>4, TouchedHop
  <2>3. CASE tls[g].send # v
    <3>1. \A h \in {g} : Still(h, v)
      BY Zenon, <2>0, <1>3, <2>3 DEF Left, Still
    <3> QED
      BY <1>1, <1>5, <2>1, <3>1, TouchedRest
  <2> QED
    BY Zenon, <2>2, <2>3
<1> QED
  BY Zenon, <1>8, <1>9 DEF Possessed

\* Nothing to receive: the receiver waits with an empty slot.
LEMMA RecvParksOwning ==
    ASSUME Owning, NEW g \in Gids, NEW c \in Chans, RecvParks(g, c) PROVE Tags' /\ Possessed'
<1>1. /\ Flushing(g, "recv", c) /\ UNCHANGED <<buf, senders, released>>
      /\ receivers' = [receivers EXCEPT ![c] = Append(@, g)]
  BY Zenon DEF RecvParks
<1>2. Ended(g, "recv", c)
  BY Zenon, <1>1, FlushEnds
<1>3. /\ slot'[g].send = Null /\ slot'[g].recv = Null /\ ~slot'[g].sendOwned /\ ~slot'[g].recvOwned
      /\ \A h \in Gids : h # g => slot'[h] = slot[h]
  <2>1. slot'[g] = tls[g] /\ \A h \in Gids : h # g => slot'[h] = slot[h]
    BY Zenon DEF RecvParks, Owning, TypeOK
  <2> QED
    BY <1>2, <2>1 DEF Ended
<1>4. Elems(receivers'[c]) = Elems(receivers[c]) \cup {g} /\ \A d \in Chans : d # c => receivers'[d] = receivers[d]
  <2>1. receivers[c] \in Seq(Gids) /\ receivers'[c] = Append(receivers[c], g)
        /\ \A d \in Chans : d # c => receivers'[d] = receivers[d]
    BY Zenon, <1>1 DEF Owning, TypeOK
  <2>2. receivers[c] \in Seq(Gids)
    BY Zenon, <2>1
  <2>3. Elems(Append(receivers[c], g)) = Elems(receivers[c]) \cup {g}
    BY <2>2, PushSets
  <2> QED
    BY Zenon, <2>1, <2>3
<1>5. Touches({g}, g, "recv", c) /\ Around({g}, c)
  <2>1. Touches({g}, g, "recv", c)
    BY Zenon, <1>1, <1>2, <1>3 DEF Touches, Ended
  <2>2. Around({g}, c)
    BY Zenon, <1>1, <1>2, <1>4 DEF Around, Ended
  <2> QED
    BY Zenon, <2>1, <2>2
<1>6. Tagged(g)'
  BY Zenon, <1>2, <1>3, EndedTagged DEF Ended
<1>7. Filled(c)'
  <2>1. Elems(senders[c]) \subseteq Gids /\ Elems(receivers[c]) \subseteq Gids /\ Filled(c)
    BY Zenon, QueueSets DEF Owning, TypeOK, Tags
  <2>2. g \notin Elems(senders[c])
    BY Zenon, <1>2 DEF Ended
  <2> QED
    BY Zenon, <1>1, <1>3, <1>4, <2>1, <2>2 DEF Filled, Carried
<1>8. Tags'
  <2>1. released' \subseteq Handles /\ \A h \in {g} : Tagged(h)'
    BY Zenon, <1>1, <1>6 DEF Owning, Tags
  <2> QED
    BY <1>1, <1>5, <1>7, <2>1, TouchedTags
<1>9. ASSUME NEW v \in Handles PROVE Kept(v)'
  <2>0. Left(g, "recv", v) /\ v # Null
    BY Zenon, <1>2, EndedSpots
  <2>1. Kept(v) /\ \A h \in {g} : Still(h, v)
    BY Zenon, <1>3, <2>0 DEF Still, Left, Owning, Possessed
  <2>2. \A d \in Chans : InBuf(d, v)' <=> InBuf(d, v)
    BY Zenon, <1>1, <1>2 DEF InBuf, Ended
  <2> QED
    BY SMTT(30), Z3T(30), <1>1, <1>5, <2>1, <2>2, TouchedRest
<1> QED
  BY Zenon, <1>8, <1>9 DEF Possessed

\* A handle is in one place.
LEMMA OneSpot ==
    ASSUME Owning, NEW v \in Handles, NEW k \in Kinds, NEW j \in Kinds, NEW x \in Spots, NEW y \in Spots,
           Spot(v, k, x), Spot(v, j, y)
    PROVE  k = j /\ x = y
  BY Zenon DEF Owning, Possessed, Kept

\* What is about to be sent is in no buffer.
LEMMA SendingUnbuffered ==
    ASSUME Owning, NEW g \in Gids, NEW c \in Chans, Ended(g, "send", c), NEW d \in Chans, d \in chans,
           tls[g].send \in Handles
    PROVE  tls[g].send \notin Elems(buf[d])
<1>1. PICK w \in Handles : w = tls[g].send
  BY Zenon
<1>2. Spot(w, "sending", g)
  BY Zenon, <1>1 DEF Spot, InSend, Ended
<1>3. "sending" \in Kinds /\ "buffer" \in Kinds /\ d \in Spots /\ g \in Spots /\ "sending" # "buffer"
  BY Zenon DEF Kinds, Spots
<1>4. ~Spot(w, "buffer", d)
  BY Zenon, <1>2, <1>3, OneSpot
<1> QED
  BY Zenon, <1>1, <1>4 DEF Spot, InBuf

\* There is room: the value sent moves into the buffer.
LEMMA SendBufferedOwning ==
    ASSUME Owning, NEW g \in Gids, NEW c \in Chans, SendBuffered(g, c) PROVE Tags' /\ Possessed'
<1>1. /\ Flushing(g, "send", c) /\ UNCHANGED <<senders, receivers, released>> /\ c \in chans
      /\ buf' = [buf EXCEPT ![c] = Append(@, tls[g].send)]
  BY Zenon DEF SendBuffered
<1>2. Ended(g, "send", c)
  BY Zenon, <1>1, FlushEnds
<1>3. /\ slot'[g].send = Null /\ slot'[g].recv = Null /\ ~slot'[g].sendOwned /\ ~slot'[g].recvOwned
      /\ \A h \in Gids : h # g => slot'[h] = slot[h]
  BY <1>2 DEF SendBuffered, SendDone, State, Ended, Owning, TypeOK
<1>4. /\ Elems(buf'[c]) = Elems(buf[c]) \cup {tls[g].send}
      /\ tls[g].send \notin Elems(buf[c]) /\ NoDuplicates(buf[c]) => NoDuplicates(buf'[c])
      /\ \A d \in Chans : d # c => buf'[d] = buf[d]
  <2>1. buf[c] \in Seq(Words) /\ tls[g].send \in Words /\ buf'[c] = Append(buf[c], tls[g].send)
        /\ \A d \in Chans : d # c => buf'[d] = buf[d]
    <3>1. tls[g].send \in Words
      BY DEF Owning, TypeOK, Suspension
    <3> QED
      BY Zenon, <1>1, <3>1 DEF Owning, TypeOK
  <2>2. buf[c] \in Seq(Words) /\ tls[g].send \in Words
    BY Zenon, <2>1
  <2>3. /\ Elems(Append(buf[c], tls[g].send)) = Elems(buf[c]) \cup {tls[g].send}
        /\ tls[g].send \notin Elems(buf[c]) /\ NoDuplicates(buf[c]) => NoDuplicates(Append(buf[c], tls[g].send))
    BY <2>2, PushSets
  <2> QED
    BY Zenon, <2>1, <2>3
<1>5. Touches({g}, g, "send", c) /\ Around({g}, c)
  <2>1. Touches({g}, g, "send", c)
    BY Zenon, <1>1, <1>2, <1>3 DEF Touches, Ended
  <2>2. Around({g}, c)
    BY Zenon, <1>1, <1>2, <1>4 DEF Around, Ended
  <2> QED
    BY Zenon, <2>1, <2>2
<1>6. Tagged(g)'
  BY Zenon, <1>2, <1>3, EndedTagged DEF Ended
<1>7. Filled(c)'
  <2>1. Elems(senders[c]) \subseteq Gids /\ Elems(receivers[c]) \subseteq Gids /\ Filled(c)
    BY Zenon, QueueSets DEF Owning, TypeOK, Tags
  <2>2. g \notin Elems(senders[c]) /\ g \notin Elems(receivers[c]) /\ tls[g].send \in Carried(c)
    BY Zenon, <1>2 DEF Ended
  <2>3. c \in Owns => NoDuplicates(buf'[c])
    BY Zenon, <1>1, <1>2, <1>4, <2>1, <2>2, SendingUnbuffered DEF Filled, Carried
  <2> QED
    BY Zenon, <1>1, <1>3, <1>4, <2>1, <2>2, <2>3 DEF Filled, Carried
<1>8. Tags'
  <2>1. released' \subseteq Handles /\ \A h \in {g} : Tagged(h)'
    BY Zenon, <1>1, <1>6 DEF Owning, Tags
  <2> QED
    BY <1>1, <1>5, <1>7, <2>1, TouchedTags
<1>9. ASSUME NEW v \in Handles PROVE Kept(v)'
  <2>0. Left(g, "send", v) /\ v # Null
    BY Zenon, <1>2, EndedSpots
  <2>1. Kept(v) /\ \A d \in Chans : d # c => (InBuf(d, v)' <=> InBuf(d, v))
    BY Zenon, <1>2, <1>4 DEF InBuf, Ended, Owning, Possessed
  <2>2. CASE tls[g].send = v
    <3>1. Spot(v, "sending", g) /\ ~Spot(v, "sending", g)' /\ Spot(v, "buffer", c)'
      BY Zenon, <1>1, <1>2, <1>4, <2>0, <2>2 DEF Left, Spot, InBuf, Ended
    <3>2. Moves(g, v, "sending", g, "buffer", c)
      BY Zenon, <2>0, <1>3 DEF Left, Moves
    <3>3. \A h \in {g} : Moves(h, v, "sending", g, "buffer", c)
      BY Zenon, <3>2
    <3>4. "sending" \in Kinds /\ "buffer" \in Kinds /\ g \in Spots /\ c \in Spots
      BY Zenon DEF Kinds, Spots
    <3> QED
      BY <1>1, <1>5, <2>1, <3>1, <3>3, <3>4, TouchedHop
  <2>3. CASE tls[g].send # v
    <3>1. \A h \in {g} : Still(h, v)
      BY Zenon, <2>0, <1>3, <2>3 DEF Left, Still
    <3>2. InBuf(c, v)' <=> InBuf(c, v)
      BY Zenon, <1>2, <1>4, <2>3 DEF InBuf, Ended
    <3> QED
      BY <1>1, <1>5, <2>1, <3>1, <3>2, TouchedRest
  <2> QED
    BY Zenon, <2>2, <2>3
<1> QED
  BY Zenon, <1>8, <1>9 DEF Possessed

\* What chan_op leaves in the slots of a receiver and of a sender that go on.
LEMMA ReceivedFields ==
    ASSUME NEW s, NEW c, NEW v
    PROVE  /\ Received(s, c, v).send = s.send /\ Received(s, c, v).recv = v
           /\ (Received(s, c, v).sendOwned <=> s.sendOwned)
           /\ (Received(s, c, v).recvOwned <=> c \in Owns)
  BY Zenon DEF Received, State

LEMMA SendDoneFields ==
    ASSUME NEW s
    PROVE  /\ SendDone(s).send = Null /\ SendDone(s).recv = s.recv /\ ~SendDone(s).sendOwned
           /\ (SendDone(s).recvOwned <=> s.recvOwned)
  BY DEF SendDone, State

LEMMA NothingFields ==
    ASSUME NEW s
    PROVE  /\ ReceivedNothing(s).send = s.send /\ ReceivedNothing(s).recv = Null
           /\ (ReceivedNothing(s).sendOwned <=> s.sendOwned) /\ ~ReceivedNothing(s).recvOwned
  BY Zenon DEF ReceivedNothing, State

\* What receiving the oldest value leaves in the buffer.
LEMMA PopHandles ==
    ASSUME Owning, NEW c \in Chans, buf[c] # <<>>
    PROVE  /\ Tail(buf[c]) \in Seq(Words) /\ Elems(Tail(buf[c])) \subseteq Elems(buf[c])
           /\ Head(buf[c]) \in Carried(c) /\ Head(buf[c]) \in Elems(buf[c])
           /\ c \in Owns => NoDuplicates(Tail(buf[c]))
           /\ \A v \in Handles : v \in Elems(Tail(buf[c])) <=> v \in Elems(buf[c]) /\ v # Head(buf[c])
<1>1. buf[c] \in Seq(Words) /\ Filled(c) /\ Scalars \cap Handles = {}
  BY Zenon, ChannelsAssumption DEF Owning, TypeOK, Tags
<1>2. Tail(buf[c]) \in Seq(Words) /\ Elems(Tail(buf[c])) \subseteq Elems(buf[c]) /\ Head(buf[c]) \in Elems(buf[c])
  BY SMTT(40), Z3T(40), <1>1, PopSets
<1>3. NoDuplicates(buf[c]) => /\ Elems(Tail(buf[c])) = Elems(buf[c]) \ {Head(buf[c])}
                              /\ NoDuplicates(Tail(buf[c]))
  BY <1>1, QueueSets
<1> QED
  BY Zenon, <1>1, <1>2, <1>3 DEF Filled, Carried

\* A buffered value is received: it moves into the receiver's slot.
LEMMA RecvBufferedOwning ==
    ASSUME Owning, NEW g \in Gids, NEW c \in Chans, RecvBuffered(g, c) PROVE Tags' /\ Possessed'
<1>1. /\ Flushing(g, "recv", c) /\ UNCHANGED <<senders, receivers, released>> /\ c \in chans
      /\ buf' = [buf EXCEPT ![c] = Tail(@)] /\ buf[c] # <<>>
  BY Zenon DEF RecvBuffered
<1>2. Ended(g, "recv", c)
  BY Zenon, <1>1, FlushEnds
<1>3. /\ slot'[g].send = Null /\ slot'[g].recv = Head(buf[c])
      /\ ~slot'[g].sendOwned /\ (slot'[g].recvOwned <=> c \in Owns)
      /\ \A h \in Gids : h # g => slot'[h] = slot[h]
  <2>1. slot'[g] = Received(tls[g], c, Head(buf[c])) /\ \A h \in Gids : h # g => slot'[h] = slot[h]
    BY ZenonT(40) DEF RecvBuffered, Owning, TypeOK
  <2>2. tls[g].send = Null /\ ~tls[g].sendOwned
    BY <1>2 DEF Ended
  <2> QED
    BY <2>1, <2>2, ReceivedFields
<1>4. /\ Elems(buf'[c]) \subseteq Elems(buf[c]) /\ (c \in Owns => NoDuplicates(buf'[c]))
      /\ Head(buf[c]) \in Carried(c) /\ Head(buf[c]) \in Elems(buf[c])
      /\ \A v \in Handles : v \in Elems(buf'[c]) <=> v \in Elems(buf[c]) /\ v # Head(buf[c])
      /\ \A d \in Chans : d # c => buf'[d] = buf[d]
  <2>1. buf'[c] = Tail(buf[c]) /\ \A d \in Chans : d # c => buf'[d] = buf[d]
    BY Zenon, <1>1 DEF Owning, TypeOK
  <2> QED
    BY Zenon, <1>1, <2>1, PopHandles
<1>5. Touches({g}, g, "recv", c) /\ Around({g}, c)
  <2>1. Touches({g}, g, "recv", c)
    BY Zenon, <1>1, <1>2, <1>3 DEF Touches, Ended
  <2>2. Around({g}, c)
    BY ZenonT(40), <1>1, <1>2, <1>4 DEF Around, Ended
  <2> QED
    BY Zenon, <2>1, <2>2
<1>6. Tagged(g)'
  <2>1. slot'[g].recvOwned <=> slot'[g].recv \in Handles
    <3>1. Head(buf[c]) \in Handles <=> c \in Owns
      BY Zenon, <1>2, <1>4 DEF Ended, Carried
    <3> QED
      BY <1>3, <3>1
  <2> QED
    BY Zenon, <1>2, <1>3, <2>1, EndedTagged DEF Ended
<1>7. Filled(c)'
  <2>1. Elems(senders[c]) \subseteq Gids /\ Elems(receivers[c]) \subseteq Gids /\ Filled(c)
    BY Zenon, QueueSets DEF Owning, TypeOK, Tags
  <2>2. g \notin Elems(senders[c]) /\ g \notin Elems(receivers[c])
    BY Zenon, <1>2 DEF Ended
  <2> QED
    BY ZenonT(60), <1>1, <1>3, <1>4, <2>1, <2>2 DEF Filled, Carried
<1>8. Tags'
  <2>1. released' \subseteq Handles /\ \A h \in {g} : Tagged(h)'
    BY Zenon, <1>1, <1>6 DEF Owning, Tags
  <2> QED
    BY <1>1, <1>5, <1>7, <2>1, TouchedTags
<1>9. ASSUME NEW v \in Handles PROVE Kept(v)'
  <2>0. Left(g, "recv", v) /\ v # Null
    BY Zenon, <1>2, EndedSpots
  <2>1. Kept(v) /\ \A d \in Chans : d # c => (InBuf(d, v)' <=> InBuf(d, v))
    BY Zenon, <1>2, <1>4 DEF InBuf, Ended, Owning, Possessed
  <2>2. CASE Head(buf[c]) = v
    <3>1. Spot(v, "buffer", c) /\ ~Spot(v, "buffer", c)' /\ Spot(v, "resumed", g)'
      BY Zenon, <1>1, <1>3, <1>4, <2>0, <2>2 DEF Left, Spot, InBuf
    <3>2. Moves(g, v, "buffer", c, "resumed", g)
      BY Zenon, <2>0, <1>3 DEF Left, Moves
    <3>3. \A h \in {g} : Moves(h, v, "buffer", c, "resumed", g)
      BY Zenon, <3>2
    <3>4. "resumed" \in Kinds /\ "buffer" \in Kinds /\ g \in Spots /\ c \in Spots
      BY Zenon DEF Kinds, Spots
    <3> QED
      BY <1>1, <1>5, <2>1, <3>1, <3>3, <3>4, TouchedHop
  <2>3. CASE Head(buf[c]) # v
    <3>1. \A h \in {g} : Still(h, v)
      BY Zenon, <2>0, <1>3, <2>3 DEF Left, Still
    <3>2. InBuf(c, v)' <=> InBuf(c, v)
      BY Zenon, <1>2, <1>4, <2>3 DEF InBuf, Ended
    <3> QED
      BY <1>1, <1>5, <2>1, <3>1, <3>2, TouchedRest
  <2> QED
    BY Zenon, <2>2, <2>3
<1> QED
  BY Zenon, <1>8, <1>9 DEF Possessed

\* A goroutine parked on a channel is parked nowhere else, and nobody polls it.
LEMMA WaiterPlace ==
    ASSUME Owning, NEW c \in Chans, NEW x \in Waiters(c)
    PROVE  /\ x \in Gids /\ x \in table /\ x \notin on /\ x \notin done /\ Tagged(x)
           /\ x \notin Elems(senders[c]) \/ x \notin Elems(receivers[c])
           /\ \A d \in Chans : d # c => x \notin Elems(senders[d]) /\ x \notin Elems(receivers[d])
<1>1. x \in Gids /\ x \in table /\ x \notin on /\ x \notin done
  BY Zenon DEF Owning, OnePlace, TypeOK
<1>2. \A d \in Chans : d # c => x \notin Waiters(d)
  BY Zenon DEF Owning, OnePlace
<1>3. x \notin Elems(senders[c]) \/ x \notin Elems(receivers[c])
  BY Zenon DEF Owning, OnePlace
<1>4. Tagged(x)
  BY Zenon, <1>1 DEF Owning, Tags
<1> QED
  BY Zenon, <1>1, <1>2, <1>3, <1>4 DEF Waiters

\* A goroutine that another one lets go on is tagged when its slot is.
LEMMA WaiterTagged ==
    ASSUME NEW g \in Gids, NEW op, NEW c, Ended(g, op, c), NEW x \in Gids, x # g, Tagged(x),
           x \notin on, x \notin done,
           slot'[x].recvOwned <=> slot'[x].recv \in Handles,
           slot'[x].sendOwned <=> slot'[x].send \in Handles,
           slot'[x].send # Null => \E d \in Chans : x \in Elems(senders'[d])
    PROVE  Tagged(x)'
<1>1. /\ tls'[x] = tls[x] /\ park'[x] = park[x] /\ held'[x] = held[x]
      /\ x \notin on' /\ x \notin done'
  BY Zenon DEF Ended
<1>2. (~tls[x].sendOwned /\ (tls[x].recvOwned <=> tls[x].recv \in Handles))'
  BY <1>1 DEF Tagged
<1> QED
  BY Zenon, <1>1, <1>2 DEF Tagged

\* A goroutine that another one lets go on has its slot written and nothing else.
Woken(x, v) ==
    /\ ~InSend(x, v) /\ ~InSend(x, v)' /\ ~InRecv(x, v) /\ ~InRecv(x, v)'
    /\ (AtSend(x, v) <=> slot[x].send = v) /\ (AtSend(x, v)' <=> slot'[x].send = v)
    /\ (AtRecv(x, v) <=> slot[x].recv = v) /\ (AtRecv(x, v)' <=> slot'[x].recv = v)
    /\ (v \in held'[x] <=> v \in held[x])

LEMMA WaiterSpots ==
    ASSUME NEW g \in Gids, NEW op, NEW c, Ended(g, op, c), NEW x \in Gids, x # g,
           x \in table, x \notin on, x \notin done, NEW v
    PROVE  Woken(x, v)
  BY Zenon DEF Woken, Ended, InSend, InRecv, AtSend, AtRecv

\* The value sent is handed to a parked receiver: it moves into that slot.
LEMMA SendHandoffOwning ==
    ASSUME Owning, NEW g \in Gids, NEW c \in Chans, SendHandoff(g, c) PROVE Tags' /\ Possessed'
<1>1. /\ Flushing(g, "send", c) /\ UNCHANGED <<buf, senders, released>> /\ receivers[c] # <<>>
      /\ receivers' = [receivers EXCEPT ![c] = Tail(@)]
  BY Zenon DEF SendHandoff
<1>2. Ended(g, "send", c)
  BY Zenon, <1>1, FlushEnds
<1>3. PICK r : r = Head(receivers[c])
  BY Zenon
<1>4. /\ r \in Elems(receivers[c]) /\ Elems(receivers'[c]) = Elems(receivers[c]) \ {r}
      /\ \A d \in Chans : d # c => receivers'[d] = receivers[d]
  <2>1. receivers'[c] = Tail(receivers[c]) /\ \A d \in Chans : d # c => receivers'[d] = receivers[d]
    BY Zenon, <1>1 DEF Owning, TypeOK
  <2>2. receivers[c] \in Seq(Gids) /\ NoDuplicates(receivers[c])
    BY Zenon DEF Owning, TypeOK, OnePlace
  <2>3. Head(receivers[c]) \in Elems(receivers[c])
        /\ Elems(Tail(receivers[c])) = Elems(receivers[c]) \ {Head(receivers[c])}
    BY <1>1, <2>2, QueueSets
  <2> QED
    BY Zenon, <1>3, <2>1, <2>3
<1>5. /\ r \in Gids /\ r # g /\ r \in table /\ r \notin on /\ r \notin done /\ Tagged(r)
      /\ r \notin Elems(senders[c])
      /\ \A d \in Chans : d # c => r \notin Elems(senders[d]) /\ r \notin Elems(receivers[d])
  <2>1. r \in Waiters(c)
    BY Zenon, <1>4 DEF Waiters
  <2>2. r # g
    BY ZenonT(40), <1>2, <1>4 DEF Ended
  <2> QED
    BY Zenon, <1>4, <2>1, <2>2, WaiterPlace
<1>6. /\ slot'[g].send = Null /\ slot'[g].recv = Null /\ ~slot'[g].sendOwned /\ ~slot'[g].recvOwned
      /\ slot'[r].send = slot[r].send /\ slot'[r].recv = tls[g].send
      /\ (slot'[r].sendOwned <=> slot[r].sendOwned) /\ (slot'[r].recvOwned <=> c \in Owns)
      /\ \A h \in Gids : h # g /\ h # r => slot'[h] = slot[h]
  <2>1. /\ slot'[g] = SendDone(tls[g]) /\ slot'[r] = Received(slot[r], c, tls[g].send)
        /\ \A h \in Gids : h # g /\ h # r => slot'[h] = slot[h]
    BY ZenonT(40), <1>3, <1>5 DEF SendHandoff, Owning, TypeOK
  <2>2. tls[g].recv = Null /\ ~tls[g].recvOwned
    BY SMTT(40), Z3T(40), <1>2 DEF Ended
  <2>3. slot'[g].send = Null /\ slot'[g].recv = Null /\ ~slot'[g].sendOwned /\ ~slot'[g].recvOwned
    BY <2>1, <2>2, SendDoneFields
  <2> QED
    BY <2>1, <2>3, ReceivedFields
<1>7. Touches({g, r}, g, "send", c) /\ Around({g, r}, c)
  <2>1. Touches({g, r}, g, "send", c)
    BY Zenon, <1>1, <1>2, <1>5, <1>6 DEF Touches
  <2>2. \A d \in Chans : g \notin Elems(senders[d]) /\ g \notin Elems(receivers[d])
    BY Zenon, <1>2 DEF Ended
  <2>3. Around({g, r}, c)
    BY Zenon, <1>1, <1>4, <1>5, <2>2 DEF Around
  <2> QED
    BY Zenon, <2>1, <2>3
<1>8. Tagged(g)' /\ Tagged(r)'
  <2>1. Tagged(g)'
    BY ZenonT(40), <1>2, <1>6, EndedTagged DEF Ended
  <2>2. /\ slot'[r].recvOwned <=> slot'[r].recv \in Handles
        /\ slot'[r].sendOwned <=> slot'[r].send \in Handles
    <3>1. tls[g].send \in Handles <=> c \in Owns
      BY Zenon, <1>2 DEF Ended, Carried
    <3> QED
      BY <1>5, <1>6, <3>1 DEF Tagged
  <2>3. slot'[r].send # Null => \E d \in Chans : r \in Elems(senders'[d])
    BY Zenon, <1>1, <1>5, <1>6 DEF Tagged
  <2>4. Tagged(r)'
    BY Zenon, <1>2, <1>5, <2>2, <2>3, WaiterTagged
  <2> QED
    BY Zenon, <2>1, <2>4
<1>9. Filled(c)'
  <2>1. Elems(senders[c]) \subseteq Gids /\ Elems(receivers[c]) \subseteq Gids /\ Filled(c)
    BY Zenon, QueueSets DEF Owning, TypeOK, Tags
  <2>2. g \notin Elems(senders[c]) /\ g \notin Elems(receivers[c])
    BY Zenon, <1>2 DEF Ended
  <2> QED
    BY Zenon, <1>1, <1>4, <1>5, <1>6, <2>1, <2>2, ChannelFilled
<1>10. Tags'
  <2>1. released' \subseteq Handles /\ \A h \in {g, r} : Tagged(h)'
    BY Zenon, <1>1, <1>8 DEF Owning, Tags
  <2> QED
    BY <1>1, <1>7, <1>9, <2>1, TouchedTags
<1>11. ASSUME NEW v \in Handles PROVE Kept(v)'
  <2>0. Left(g, "send", v) /\ v # Null
    BY Zenon, <1>2, EndedSpots
  <2>1. Kept(v) /\ \A d \in Chans : InBuf(d, v)' <=> InBuf(d, v)
    BY Zenon, <1>1, <1>2 DEF InBuf, Ended, Owning, Possessed
  <2>2. /\ ~InSend(r, v) /\ ~InSend(r, v)' /\ ~InRecv(r, v) /\ ~InRecv(r, v)'
        /\ (AtSend(r, v)' <=> AtSend(r, v)) /\ ~AtRecv(r, v) /\ (AtRecv(r, v)' <=> tls[g].send = v)
        /\ (v \in held'[r] <=> v \in held[r])
    <3>1. slot[r].recv = Null
      BY Zenon, <1>4 DEF Owning, Tags, Filled
    <3>2. Woken(r, v)
      BY Zenon, <1>2, <1>5, WaiterSpots
    <3> QED
      BY Zenon, <1>6, <2>0, <3>1, <3>2 DEF Woken
  <2>3. CASE tls[g].send = v
    <3>1. Spot(v, "sending", g) /\ ~Spot(v, "sending", g)' /\ Spot(v, "resumed", r)'
      BY Zenon, <1>5, <2>0, <2>2, <2>3 DEF Left, Spot
    <3>2. Moves(g, v, "sending", g, "resumed", r)
      BY Zenon, <2>0, <1>6 DEF Left, Moves
    <3>3. Moves(r, v, "sending", g, "resumed", r)
      BY Zenon, <2>2 DEF Moves
    <3>4. \A h \in {g, r} : Moves(h, v, "sending", g, "resumed", r)
      BY Zenon, <3>2, <3>3
    <3>5. "sending" \in Kinds /\ "resumed" \in Kinds /\ g \in Spots /\ r \in Spots
      BY Zenon, <1>5 DEF Kinds, Spots
    <3> QED
      BY <1>1, <1>7, <2>1, <3>1, <3>4, <3>5, TouchedHop
  <2>4. CASE tls[g].send # v
    <3>1. \A h \in {g, r} : Still(h, v)
      BY Zenon, <2>0, <1>6, <2>2, <2>4 DEF Left, Still
    <3> QED
      BY <1>1, <1>7, <2>1, <3>1, TouchedRest
  <2> QED
    BY Zenon, <2>3, <2>4
<1> QED
  BY Zenon, <1>10, <1>11 DEF Possessed

\* The oldest parked sender, which a receive lets go on.
FrontSender(s, g, c) ==
    /\ s \in Gids /\ s # g /\ s \in table /\ s \notin on /\ s \notin done /\ Tagged(s)
    /\ s \in Elems(senders[c]) /\ s \notin Elems(receivers[c]) /\ slot[s].send \in Carried(c)
    /\ \A d \in Chans : d # c => s \notin Elems(senders[d]) /\ s \notin Elems(receivers[d])
    /\ Elems(senders'[c]) = Elems(senders[c]) \ {s}
    /\ \A d \in Chans : d # c => senders'[d] = senders[d]

LEMMA SenderInFront ==
    ASSUME Owning, NEW g \in Gids, NEW c \in Chans, Ended(g, "recv", c), senders[c] # <<>>,
           NEW s, s = Head(senders[c]), senders' = [senders EXCEPT ![c] = Tail(@)]
    PROVE  FrontSender(s, g, c)
<1>1. senders'[c] = Tail(senders[c]) /\ \A d \in Chans : d # c => senders'[d] = senders[d]
  BY Zenon DEF Owning, TypeOK
<1>2. senders[c] \in Seq(Gids) /\ NoDuplicates(senders[c])
  BY Zenon DEF Owning, TypeOK, OnePlace
<1>3. Head(senders[c]) \in Elems(senders[c]) /\ Elems(Tail(senders[c])) = Elems(senders[c]) \ {Head(senders[c])}
  BY <1>2, QueueSets
<1>4. s \in Elems(senders[c]) /\ Elems(senders'[c]) = Elems(senders[c]) \ {s}
  BY Zenon, <1>1, <1>3
<1>5. s \in Waiters(c) /\ slot[s].send \in Carried(c)
  BY Zenon, <1>4 DEF Waiters, Owning, Tags, Filled
<1>6. s # g
  BY Zenon, <1>4 DEF Ended
<1>7. /\ s \in Gids /\ s \in table /\ s \notin on /\ s \notin done /\ Tagged(s) /\ s \notin Elems(receivers[c])
      /\ \A d \in Chans : d # c => s \notin Elems(senders[d]) /\ s \notin Elems(receivers[d])
  BY Zenon, <1>4, <1>5, WaiterPlace
<1> QED
  BY Zenon, <1>1, <1>4, <1>5, <1>6, <1>7 DEF FrontSender

\* A receive in which a parked sender goes on too: what the two are left with.
Resumed(s, g, c, v) ==
    /\ slot'[g].send = Null /\ slot'[g].recv = v /\ ~slot'[g].sendOwned /\ (slot'[g].recvOwned <=> c \in Owns)
    /\ slot'[s].send = Null /\ slot'[s].recv = slot[s].recv
    /\ ~slot'[s].sendOwned /\ (slot'[s].recvOwned <=> slot[s].recvOwned)
    /\ \A h \in Gids : h # g /\ h # s => slot'[h] = slot[h]

LEMMA ReceiverAndSender ==
    ASSUME Owning, NEW g \in Gids, NEW c \in Chans, Ended(g, "recv", c), NEW s \in Gids, s # g, NEW v,
           slot' = [slot EXCEPT ![g] = Received(tls[g], c, v), ![s] = SendDone(@)]
    PROVE  Resumed(s, g, c, v)
<1>1. /\ slot'[g] = Received(tls[g], c, v) /\ slot'[s] = SendDone(slot[s])
      /\ \A h \in Gids : h # g /\ h # s => slot'[h] = slot[h]
  BY Zenon DEF Owning, TypeOK
<1>2. tls[g].send = Null /\ ~tls[g].sendOwned
  BY SMTT(40), Z3T(40) DEF Ended
<1>3. slot'[g].send = Null /\ slot'[g].recv = v /\ ~slot'[g].sendOwned /\ (slot'[g].recvOwned <=> c \in Owns)
  BY SMTT(40), Z3T(40), <1>1, <1>2, ReceivedFields
<1>4. /\ slot'[s].send = Null /\ slot'[s].recv = slot[s].recv
      /\ ~slot'[s].sendOwned /\ (slot'[s].recvOwned <=> slot[s].recvOwned)
  BY SMTT(40), Z3T(40), <1>1, SendDoneFields
<1> QED
  BY Zenon, <1>1, <1>3, <1>4 DEF Resumed

\* The tags after such a step.
LEMMA ResumedTags ==
    ASSUME Owning, NEW g \in Gids, NEW c \in Chans, Ended(g, "recv", c), NEW s, FrontSender(s, g, c),
           NEW v \in Carried(c), Resumed(s, g, c, v), UNCHANGED <<receivers, released>>,
           \A d \in Chans : d # c => buf'[d] = buf[d],
           Elems(buf'[c]) \subseteq Carried(c), c \in Owns => NoDuplicates(buf'[c])
    PROVE  Tags' /\ Touches({g, s}, g, "recv", c)
<1>1. Touches({g, s}, g, "recv", c)
  BY Zenon DEF Touches, FrontSender, Resumed
<1>2. \A d \in Chans : g \notin Elems(senders[d]) /\ g \notin Elems(receivers[d])
  BY Zenon DEF Ended
<1>3. Around({g, s}, c)
  BY Zenon, <1>2 DEF Around, FrontSender
<1>4. Null \notin Handles /\ (v \in Handles <=> c \in Owns)
  BY Zenon DEF Ended, Carried
<1>5. Tagged(g)'
  <2>1. /\ slot'[g].recvOwned <=> slot'[g].recv \in Handles
        /\ slot'[g].sendOwned <=> slot'[g].send \in Handles
    BY <1>4 DEF Resumed
  <2> QED
    BY Zenon, <2>1, EndedTagged DEF Resumed
<1>6. Tagged(s)'
  <2>1. /\ slot'[s].recvOwned <=> slot'[s].recv \in Handles
        /\ slot'[s].sendOwned <=> slot'[s].send \in Handles
    BY ZenonT(40), <1>4 DEF Resumed, FrontSender, Tagged
  <2>2. slot'[s].send = Null
    BY Zenon DEF Resumed
  <2>3. s \in Gids /\ s # g /\ Tagged(s) /\ s \notin on /\ s \notin done
    BY Zenon DEF FrontSender
  <2> QED
    BY ZenonT(40), <2>1, <2>2, <2>3, WaiterTagged
<1>7. Filled(c)'
  <2>1. Elems(senders[c]) \subseteq Gids /\ Elems(receivers[c]) \subseteq Gids /\ Filled(c)
    BY Zenon, QueueSets DEF Owning, TypeOK, Tags
  <2>2. \A h \in Elems(senders'[c]) : h \in Elems(senders[c]) /\ slot'[h] = slot[h]
    BY Zenon, <1>2, <2>1 DEF FrontSender, Resumed
  <2>3. \A h \in Elems(receivers'[c]) : h \in Elems(receivers[c]) /\ slot'[h] = slot[h]
    BY Zenon, <1>2, <2>1 DEF FrontSender, Resumed
  <2> QED
    BY Zenon, <2>1, <2>2, <2>3 DEF Filled, Carried
<1>8. released' \subseteq Handles /\ \A h \in {g, s} : Tagged(h)'
  BY Zenon, <1>5, <1>6 DEF Owning, Tags
<1>9. \A h \in Gids : h \notin {g, s} /\ h \in Elems(senders[c]) => h \in Elems(senders'[c])
  BY Zenon DEF FrontSender
<1> QED
  BY ZenonT(40), <1>1, <1>3, <1>7, <1>8, <1>9, TouchedTags

\* The value of a parked sender is received: it moves from slot to slot.
LEMMA RecvRendezvousOwning ==
    ASSUME Owning, NEW g \in Gids, NEW c \in Chans, RecvRendezvous(g, c) PROVE Tags' /\ Possessed'
<1>1. /\ Flushing(g, "recv", c) /\ UNCHANGED <<buf, receivers, released>> /\ senders[c] # <<>>
      /\ senders' = [senders EXCEPT ![c] = Tail(@)]
  BY Zenon DEF RecvRendezvous
<1>2. Ended(g, "recv", c)
  BY Zenon, <1>1, FlushEnds
<1>3. PICK s : s = Head(senders[c])
  BY Zenon
<1>4. FrontSender(s, g, c)
  BY Zenon, <1>1, <1>2, <1>3, SenderInFront
<1>5. PICK w : w = slot[s].send
  BY Zenon
<1>6. Resumed(s, g, c, w)
  <2>1. slot' = [slot EXCEPT ![g] = Received(tls[g], c, w), ![s] = SendDone(@)]
    BY Zenon, <1>3, <1>5 DEF RecvRendezvous
  <2> QED
    BY Zenon, <1>2, <1>4, <2>1, ReceiverAndSender DEF FrontSender
<1>7. w \in Carried(c)
  BY Zenon, <1>4, <1>5 DEF FrontSender
<1>8. Tags' /\ Touches({g, s}, g, "recv", c)
  <2>1. Elems(buf'[c]) \subseteq Carried(c) /\ (c \in Owns => NoDuplicates(buf'[c]))
    BY Zenon, <1>1 DEF Owning, Tags, Filled
  <2> QED
    BY Zenon, <1>1, <1>2, <1>4, <1>6, <1>7, <2>1, ResumedTags
<1>9. ASSUME NEW v \in Handles PROVE Kept(v)'
  <2>0. Left(g, "recv", v) /\ v # Null
    BY Zenon, <1>2, EndedSpots
  <2>1. Kept(v) /\ \A d \in Chans : InBuf(d, v)' <=> InBuf(d, v)
    BY Zenon, <1>1, <1>2 DEF InBuf, Ended, Owning, Possessed
  <2>2. /\ ~InSend(s, v) /\ ~InSend(s, v)' /\ ~InRecv(s, v) /\ ~InRecv(s, v)'
        /\ (AtRecv(s, v)' <=> AtRecv(s, v)) /\ ~AtSend(s, v)' /\ (AtSend(s, v) <=> w = v)
        /\ (v \in held'[s] <=> v \in held[s])
    <3>1. Woken(s, v)
      BY Zenon, <1>2, <1>4, WaiterSpots DEF FrontSender
    <3> QED
      BY Zenon, <1>5, <1>6, <2>0, <3>1 DEF Woken, Resumed
  <2>3. CASE w = v
    <3>1. Spot(v, "parked", s) /\ ~Spot(v, "parked", s)' /\ Spot(v, "resumed", g)'
      BY Zenon, <1>4, <1>6, <2>0, <2>2, <2>3 DEF Left, Spot, Resumed, FrontSender
    <3>2. Moves(g, v, "parked", s, "resumed", g)
      BY Zenon, <2>0, <1>6 DEF Left, Moves, Resumed
    <3>3. Moves(s, v, "parked", s, "resumed", g)
      BY Zenon, <2>2 DEF Moves
    <3>4. \A h \in {g, s} : Moves(h, v, "parked", s, "resumed", g)
      BY Zenon, <3>2, <3>3
    <3>5. "parked" \in Kinds /\ "resumed" \in Kinds /\ g \in Spots /\ s \in Spots
      BY Zenon, <1>4 DEF Kinds, Spots, FrontSender
    <3> QED
      BY SMTT(30), Z3T(30), <1>1, <1>8, <2>1, <3>1, <3>4, <3>5, TouchedHop
  <2>4. CASE w # v
    <3>1. \A h \in {g, s} : Still(h, v)
      BY Zenon, <2>0, <1>6, <2>2, <2>4 DEF Left, Still, Resumed
    <3> QED
      BY <1>1, <1>8, <2>1, <3>1, TouchedRest
  <2> QED
    BY Zenon, <2>3, <2>4
<1> QED
  BY Zenon, <1>8, <1>9 DEF Possessed

\* A buffered value is received and the oldest parked sender's takes its room.
LEMMA RecvRefillsOwning ==
    ASSUME Owning, NEW g \in Gids, NEW c \in Chans, RecvRefills(g, c) PROVE Tags' /\ Possessed'
<1>1. /\ Flushing(g, "recv", c) /\ UNCHANGED <<receivers, released>> /\ senders[c] # <<>>
      /\ c \in chans /\ buf[c] # <<>> /\ senders' = [senders EXCEPT ![c] = Tail(@)]
  BY Zenon DEF RecvRefills
<1>2. Ended(g, "recv", c)
  BY Zenon, <1>1, FlushEnds
<1>3. PICK s : s = Head(senders[c])
  BY Zenon
<1>4. FrontSender(s, g, c)
  BY Zenon, <1>1, <1>2, <1>3, SenderInFront
<1>5. PICK w : w = slot[s].send
  BY Zenon
<1>6. PICK u : u = Head(buf[c])
  BY Zenon
<1>7. Resumed(s, g, c, u)
  <2>1. slot' = [slot EXCEPT ![g] = Received(tls[g], c, u), ![s] = SendDone(@)]
    BY Zenon, <1>3, <1>6 DEF RecvRefills
  <2> QED
    BY Zenon, <1>2, <1>4, <2>1, ReceiverAndSender DEF FrontSender
<1>8. /\ Tail(buf[c]) \in Seq(Words) /\ Elems(Tail(buf[c])) \subseteq Elems(buf[c])
      /\ u \in Carried(c) /\ u \in Elems(buf[c]) /\ (c \in Owns => NoDuplicates(Tail(buf[c])))
      /\ \A v \in Handles : v \in Elems(Tail(buf[c])) <=> v \in Elems(buf[c]) /\ v # u
  BY Zenon, <1>1, <1>6, PopHandles
<1>9. w \in Carried(c) /\ w \in Words
  BY Zenon, <1>4, <1>5 DEF FrontSender, Carried, Words, Values
<1>10. w \in Handles => w \notin Elems(buf[c])
  <2>1. ASSUME w \in Handles PROVE Spot(w, "parked", s) /\ s \in Spots
    BY Zenon, <1>4, <1>5 DEF Spot, AtSend, FrontSender, Spots
  <2>2. "parked" \in Kinds /\ "buffer" \in Kinds /\ c \in Spots /\ "parked" # "buffer"
    BY Zenon DEF Kinds, Spots
  <2>3. w \in Handles => ~Spot(w, "buffer", c)
    BY Zenon, <2>1, <2>2, OneSpot
  <2> QED
    BY Zenon, <1>1, <2>3 DEF Spot, InBuf
<1>11. /\ Elems(buf'[c]) = Elems(Tail(buf[c])) \cup {w}
       /\ (c \in Owns => NoDuplicates(buf'[c]))
       /\ \A d \in Chans : d # c => buf'[d] = buf[d]
  <2>1. buf'[c] = Append(Tail(buf[c]), w) /\ \A d \in Chans : d # c => buf'[d] = buf[d]
    BY Zenon, <1>3, <1>5 DEF RecvRefills, Owning, TypeOK
  <2>2. Tail(buf[c]) \in Seq(Words) /\ w \in Words
    BY Zenon, <1>8, <1>9
  <2>3. /\ Elems(Append(Tail(buf[c]), w)) = Elems(Tail(buf[c])) \cup {w}
        /\ NoDuplicates(Tail(buf[c])) /\ w \notin Elems(Tail(buf[c])) => NoDuplicates(Append(Tail(buf[c]), w))
    BY Zenon, <2>2, PushSets
  <2>4. c \in Owns => w \notin Elems(Tail(buf[c]))
    BY Zenon, <1>8, <1>9, <1>10 DEF Carried
  <2> QED
    BY Zenon, <1>8, <2>1, <2>3, <2>4
<1>12. Tags' /\ Touches({g, s}, g, "recv", c)
  <2>1. Elems(buf'[c]) \subseteq Carried(c)
    BY Zenon, <1>8, <1>9, <1>11 DEF Owning, Tags, Filled
  <2> QED
    BY Zenon, <1>1, <1>2, <1>4, <1>7, <1>8, <1>11, <2>1, ResumedTags
<1>13. ASSUME NEW v \in Handles PROVE Kept(v)'
  <2>0. Left(g, "recv", v) /\ v # Null
    BY Zenon, <1>2, EndedSpots
  <2>1. Kept(v) /\ \A d \in Chans : d # c => (InBuf(d, v)' <=> InBuf(d, v))
    BY Zenon, <1>2, <1>11 DEF InBuf, Ended, Owning, Possessed
  <2>2. InBuf(c, v)' <=> (InBuf(c, v) /\ v # u) \/ v = w
    BY Zenon, <1>1, <1>2, <1>8, <1>11 DEF InBuf, Ended
  <2>3. /\ ~InSend(s, v) /\ ~InSend(s, v)' /\ ~InRecv(s, v) /\ ~InRecv(s, v)'
        /\ (AtRecv(s, v)' <=> AtRecv(s, v)) /\ ~AtSend(s, v)' /\ (AtSend(s, v) <=> w = v)
        /\ (v \in held'[s] <=> v \in held[s])
    <3>1. Woken(s, v)
      BY Zenon, <1>2, <1>4, WaiterSpots DEF FrontSender
    <3> QED
      BY Zenon, <1>5, <1>7, <2>0, <3>1 DEF Woken, Resumed
  <2>4. g \in Spots /\ s \in Spots /\ c \in Spots /\ {"buffer", "parked", "resumed"} \subseteq Kinds
    BY ZenonT(60), <1>4 DEF Kinds, Spots, FrontSender
  <2>5. CASE w = v
    <3>1. v # u
      BY Zenon, <1>8, <1>10, <2>5
    <3>2. Spot(v, "parked", s) /\ ~Spot(v, "parked", s)' /\ Spot(v, "buffer", c)'
      BY Zenon, <1>4, <2>2, <2>3, <2>5 DEF Spot, FrontSender
    <3>3. Moves(g, v, "parked", s, "buffer", c)
      BY Zenon, <2>0, <1>7, <3>1 DEF Left, Moves, Resumed
    <3>4. Moves(s, v, "parked", s, "buffer", c)
      BY Zenon, <2>3 DEF Moves
    <3>5. \A h \in {g, s} : Moves(h, v, "parked", s, "buffer", c)
      BY ZenonT(60), <3>3, <3>4
    <3> QED
      BY SMTT(40), Z3T(40), <1>1, <1>12, <2>1, <2>4, <3>2, <3>5, TouchedHop
  <2>6. CASE u = v
    <3>1. v # w
      BY Zenon, <1>8, <1>10, <2>6
    <3>2. Spot(v, "buffer", c) /\ ~Spot(v, "buffer", c)' /\ Spot(v, "resumed", g)'
      BY ZenonT(60), <1>1, <1>7, <1>8, <2>0, <2>2, <2>6, <3>1 DEF Left, Spot, InBuf, Resumed
    <3>3. Moves(g, v, "buffer", c, "resumed", g)
      BY Zenon, <2>0, <1>7 DEF Left, Moves, Resumed
    <3>4. Moves(s, v, "buffer", c, "resumed", g)
      BY Zenon, <2>3, <3>1 DEF Moves
    <3>5. \A h \in {g, s} : Moves(h, v, "buffer", c, "resumed", g)
      BY ZenonT(60), <3>3, <3>4
    <3> QED
      BY SMTT(40), Z3T(40), <1>1, <1>12, <2>1, <2>4, <3>2, <3>5, TouchedHop
  <2>7. CASE w # v /\ u # v
    <3>1. \A h \in {g, s} : Still(h, v)
      BY Zenon, <2>0, <1>7, <2>3, <2>7 DEF Left, Still, Resumed
    <3> QED
      BY SMTT(40), Z3T(40), <1>1, <1>12, <2>1, <2>2, <2>7, <3>1, TouchedRest
  <2> QED
    BY Zenon, <2>5, <2>6, <2>7
<1> QED
  BY Zenon, <1>12, <1>13 DEF Possessed

\* chan_drop: the last reference releases what the buffer holds.
LEMMA DropRefOwning ==
    ASSUME Owning, NEW g \in Gids, NEW c \in Chans, DropRef(g, c) PROVE Tags' /\ Possessed'
<1>1. /\ UNCHANGED <<table, done, on, park, tls, slot, fresh, held>>
      /\ g \in on \cup cleaning /\ g \in refs[c]
  BY Zenon DEF DropRef, CanAct, taskVars
<1>2. \A h \in Gids : Bystander(h)
  BY Zenon, <1>1 DEF Bystander
<1>3. CASE ~LastRef(g, c)
  <2>1. UNCHANGED <<chans, buf, senders, receivers, released>>
    BY Zenon, <1>3 DEF DropRef
  <2>2. \A h \in Gids : Tagged(h)'
    BY Zenon, <1>2, <2>1, BystanderTagged DEF Owning, Tags
  <2>3. \A d \in Chans : Filled(d)'
    BY Zenon, <1>1, <2>1, ChannelFilled DEF Owning, Tags
  <2>4. Tags'
    BY Zenon, <1>1, <2>1, <2>2, <2>3 DEF Owning, Tags
  <2>5. ASSUME NEW v \in Handles PROVE Kept(v)'
    BY Zenon, <1>1, <1>2, <2>1, BystanderStill, Resting DEF Rest, InBuf, Owning, Possessed
  <2> QED
    BY Zenon, <2>4, <2>5 DEF Possessed
<1>4. CASE LastRef(g, c)
  <2>1. /\ chans' = chans \ {c} /\ buf' = [buf EXCEPT ![c] = <<>>]
        /\ senders' = [senders EXCEPT ![c] = <<>>] /\ receivers' = [receivers EXCEPT ![c] = <<>>]
        /\ released' = released \cup Owned(c, Elems(buf[c]))
    BY Zenon, <1>4 DEF DropRef
  <2>2. c \in chans /\ Elems(senders[c]) = {}
    <3>1. g \notin Elems(senders[c]) /\ c \in chans
      BY Zenon, <1>1, NotWaiting DEF Owning, WaitersKeepChannel
    <3>2. Waiters(c) \subseteq {g}
      BY Zenon, <1>4 DEF LastRef, Owning, WaitersKeepChannel
    <3> QED
      BY Zenon, <3>1, <3>2 DEF Waiters
  <2>3. /\ buf'[c] = <<>> /\ senders'[c] = <<>> /\ receivers'[c] = <<>>
        /\ \A d \in Chans : d # c => buf'[d] = buf[d] /\ senders'[d] = senders[d] /\ receivers'[d] = receivers[d]
    BY Zenon, <2>1 DEF Owning, TypeOK
  <2>4. Elems(<<>>) = {} /\ NoDuplicates(<<>>) /\ Scalars \cap Handles = {} /\ Filled(c)
    BY ChannelsAssumption DEF Elems, NoDuplicates, Owning, Tags
  <2>5. released' = released \cup (Elems(buf[c]) \cap Handles)
    BY Zenon, <2>1, <2>4 DEF Owned, Filled, Carried
  <2>6. \A h \in Gids : Tagged(h)'
    <3>1. \A h \in Gids, d \in Chans : h \in Elems(senders[d]) => h \in Elems(senders'[d])
      BY Zenon, <2>2, <2>3
    <3> QED
      BY Zenon, <1>2, <2>5, <3>1, BystanderTagged DEF Owning, Tags
  <2>7. \A d \in Chans : Filled(d)'
    <3>1. \A d \in Chans : d # c => Filled(d)'
      BY Zenon, <1>1, <2>3, ChannelFilled DEF Owning, Tags
    <3>2. Filled(c)'
      BY Zenon, <2>3, <2>4 DEF Filled
    <3> QED
      BY Zenon, <3>1, <3>2
  <2>8. Tags'
    BY Zenon, <1>1, <2>5, <2>6, <2>7 DEF Owning, Tags
  <2>9. ASSUME NEW v \in Handles PROVE Kept(v)'
    <3>1. /\ Kept(v) /\ ~InBuf(c, v)' /\ (InBuf(c, v) <=> v \in Elems(buf[c]))
          /\ \A d \in Chans : d # c => (InBuf(d, v)' <=> InBuf(d, v))
      BY Zenon, <2>1, <2>2, <2>3, <2>4 DEF InBuf, Owning, Possessed
    <3>2. \A h \in Gids : Still(h, v)
      BY Zenon, <1>2, BystanderStill
    <3>3. CASE v \in Elems(buf[c])
      <4>1. Spot(v, "buffer", c) /\ ~Spot(v, "buffer", c)' /\ Spot(v, "released", Null)'
        BY Zenon, <2>5, <3>1, <3>3 DEF Spot
      <4>2. Elsewhere(v, "buffer", c, "released", Null)
        BY Zenon, <1>1, <3>1, <3>2 DEF Elsewhere, Moves, Still
      <4>3. "buffer" \in Kinds /\ "released" \in Kinds /\ c \in Spots /\ Null \in Spots
        BY Zenon DEF Kinds, Spots
      <4> QED
        BY Zenon, <3>1, <4>1, <4>2, <4>3, Hop
    <3>4. CASE v \notin Elems(buf[c])
      BY Zenon, <1>1, <2>5, <3>1, <3>2, <3>4, Resting DEF Rest
    <3> QED
      BY Zenon, <3>3, <3>4
  <2> QED
    BY Zenon, <2>8, <2>9 DEF Possessed
<1> QED
  BY Zenon, <1>3, <1>4

\* drop_goroutine: what the slot owns is released.
LEMMA DropGoroutineOwning ==
    ASSUME Owning, ~DropWhilePolled, NEW g \in Gids, DropGoroutine(g) PROVE Tags' /\ Possessed'
<1>1. /\ UNCHANGED <<on, park, tls, slot, chans, buf, fresh, held>>
      /\ g \in table /\ g \notin on /\ table' = table \ {g} /\ done' = done \ {g}
      /\ senders' = [c \in Chans |-> Without(senders[c], g)]
      /\ receivers' = [c \in Chans |-> Without(receivers[c], g)]
  BY Zenon DEF DropGoroutine
<1>2. /\ \A h \in Gids : h # g => Bystander(h)
      /\ g \notin table' /\ g \notin done' /\ g \notin on'
  BY Zenon, <1>1 DEF Bystander
<1>3. \A c \in Chans : /\ Elems(senders'[c]) = Elems(senders[c]) \ {g}
                       /\ Elems(receivers'[c]) = Elems(receivers[c]) \ {g}
  <2>1. ASSUME NEW c \in Chans
        PROVE  /\ Elems(Without(senders[c], g)) = Elems(senders[c]) \ {g}
               /\ Elems(Without(receivers[c], g)) = Elems(receivers[c]) \ {g}
    <3>1. senders[c] \in Seq(Gids) /\ NoDuplicates(senders[c])
      BY Zenon DEF Owning, TypeOK, OnePlace
    <3>2. receivers[c] \in Seq(Gids) /\ NoDuplicates(receivers[c])
      BY Zenon DEF Owning, TypeOK, OnePlace
    <3> QED
      BY <3>1, <3>2, WithoutSets
  <2> QED
    BY Zenon, <1>1, <2>1
<1>4. Tagged(g) /\ Null \notin Handles
  BY ZenonT(40), ChannelsAssumption DEF Owning, Tags
<1>5. released' = released \cup ({slot[g].send, slot[g].recv} \cap Handles)
  BY <1>4 DEF DropGoroutine, Tagged
<1>6. Tagged(g)'
  <2>1. held'[g] \subseteq Handles /\ (park'[g].op # "none" => tls'[g].recv = Null)
    BY Zenon, <1>1, <1>4 DEF Tagged
  <2>2. (~tls[g].sendOwned /\ (tls[g].recvOwned <=> tls[g].recv \in Handles))' /\ (slot[g].recvOwned <=> slot[g].recv \in Handles)'
        /\ (slot[g].sendOwned <=> slot[g].send \in Handles)'
    BY ZenonT(40), <1>1, <1>4 DEF Tagged
  <2> QED
    BY Zenon, <1>2, <2>1, <2>2 DEF Tagged
<1>7. \A h \in Gids : h # g => Tagged(h)'
  BY Zenon, <1>2, <1>3, <1>5, BystanderTagged DEF Owning, Tags
<1>8. \A c \in Chans : Filled(c)'
  BY Zenon, <1>1, <1>3, ChannelFilled DEF Owning, Tags
<1>9. Tags'
  BY Zenon, <1>1, <1>5, <1>6, <1>7, <1>8 DEF Owning, Tags
<1>10. g \in done => slot[g].send = Null /\ (slot[g].recv \in Handles => slot[g].recv \in released)
  BY Zenon, <1>1, <1>4, NotWaiting DEF Tagged, Stale, Owning
<1>11. ASSUME NEW v \in Handles PROVE Kept(v)'
  <2>1. /\ ~InSend(g, v) /\ ~InSend(g, v)' /\ ~InRecv(g, v) /\ ~InRecv(g, v)' /\ (v \in held'[g] <=> v \in held[g])
        /\ ~AtSend(g, v)' /\ (AtSend(g, v) <=> slot[g].send = v)
        /\ ~AtRecv(g, v)' /\ (AtRecv(g, v) <=> g \notin done /\ slot[g].recv = v)
    BY Zenon, <1>1, <1>2 DEF InSend, InRecv, AtSend, AtRecv
  <2>2. Kept(v) /\ (\A c \in Chans : InBuf(c, v)' <=> InBuf(c, v)) /\ \A h \in Gids : h # g => Still(h, v)
    BY Zenon, <1>1, <1>2, BystanderStill DEF InBuf, Owning, Possessed
  <2>3. {"parked", "resumed", "released"} \subseteq Kinds /\ g \in Spots /\ Null \in Spots /\ "parked" # "resumed"
    BY Zenon DEF Kinds, Spots
  <2>4. ~(AtSend(g, v) /\ AtRecv(g, v))
    BY Zenon, <2>3, OneSpot DEF Spot
  <2>5. ASSUME NEW k \in {"parked", "resumed"}, Spot(v, k, g), v \in released',
               AtSend(g, v) => k = "parked", AtRecv(g, v) => k = "resumed"
        PROVE  Kept(v)'
    <3>1. ~Spot(v, k, g)' /\ Spot(v, "released", Null)'
      BY Zenon, <2>1, <2>5 DEF Spot
    <3>2. Moves(g, v, k, g, "released", Null)
      BY Zenon, <2>1, <2>5 DEF Moves
    <3>3. Elsewhere(v, k, g, "released", Null)
      BY Zenon, <1>1, <2>2, <3>2 DEF Elsewhere, Moves, Still
    <3> QED
      BY Zenon, <2>2, <2>3, <2>5, <3>1, <3>3, Hop
  <2>6. CASE AtSend(g, v)
    BY Zenon, <1>5, <2>1, <2>4, <2>5, <2>6 DEF Spot
  <2>7. CASE AtRecv(g, v)
    BY Zenon, <1>5, <2>1, <2>4, <2>5, <2>7 DEF Spot
  <2>8. CASE ~AtSend(g, v) /\ ~AtRecv(g, v)
    <3>1. v \in released' <=> v \in released
      BY Zenon, <1>5, <1>10, <2>1, <2>8
    <3>2. Still(g, v)
      BY Zenon, <2>1, <2>8 DEF Still
    <3> QED
      BY Zenon, <1>1, <2>2, <3>1, <3>2, Resting DEF Rest
  <2> QED
    BY Zenon, <2>6, <2>7, <2>8
<1> QED
  BY Zenon, <1>9, <1>11 DEF Possessed

\* chan_close: a parked receiver goes on with nothing, a parked sender without
\* its value.
Closing(c) ==
    /\ \A h \in Gids :
        /\ slot'[h].recv = slot[h].recv /\ (slot'[h].recvOwned <=> slot[h].recvOwned)
        /\ IF h \in Elems(senders[c]) THEN slot'[h].send = Null /\ ~slot'[h].sendOwned
           ELSE slot'[h].send = slot[h].send /\ (slot'[h].sendOwned <=> slot[h].sendOwned)
        /\ h \notin Waiters(c) => slot'[h] = slot[h]
    /\ released' = released \cup ({slot[h].send : h \in Elems(senders[c])} \cap Handles)
    /\ buf' = buf
    /\ Elems(senders'[c]) = {} /\ Elems(receivers'[c]) = {}
    /\ \A d \in Chans : d # c => senders'[d] = senders[d] /\ receivers'[d] = receivers[d]

LEMMA CloseShape ==
    ASSUME Owning, NEW g \in Gids, NEW c \in Chans, Close(g, c) PROVE Closing(c)
<1>1. /\ receivers[c] # <<>> => buf[c] = <<>> /\ senders[c] = <<>>
      /\ receivers[c] \in Seq(Gids) /\ senders[c] \in Seq(Gids) /\ buf[c] \in Seq(Words)
  BY Zenon DEF Owning, NoMissedPartner, TypeOK
<1>2. /\ Elems(senders[c]) \subseteq Gids /\ Elems(receivers[c]) \subseteq Gids /\ Elems(<<>>) = {}
      /\ Filled(c) /\ Null \notin Handles /\ Scalars \cap Handles = {}
  <2>1. Elems(senders[c]) \subseteq Gids /\ Elems(receivers[c]) \subseteq Gids /\ Elems(<<>>) = {}
    BY <1>1, QueueSets
  <2> QED
    BY ZenonT(40), <2>1, ChannelsAssumption DEF Owning, Tags
<1>3. ASSUME NEW x \in Elems(receivers[c]) PROVE slot'[x] = ReceivedNothing(slot[x]) /\ x \notin Elems(senders[c])
  <2> DEFINE nth == CHOOSE i \in 1..Len(receivers[c]) : receivers[c][i] = x
  <2>1. nth \in 1..Len(receivers[c])
    BY ZenonT(40) DEF Elems
  <2> HIDE DEF nth
  <2>2. receivers[c] # <<>> /\ Len(receivers[c]) \in Nat
    BY SMTT(40), Z3T(40), <1>1, <2>1
  <2>3. ~(nth <= Len(buf[c]))
    BY SMTT(40), Z3T(40), <1>1, <2>1, <2>2
  <2>4. x \in Gids /\ x \notin Elems(senders[c])
    BY Zenon, <1>1, <1>2, <2>2
  <2> QED
    BY Zenon, <2>3, <2>4 DEF Close, nth
<1>4. \A x \in Elems(senders[c]) : slot'[x] = SendDone(slot[x])
  BY Zenon, <1>2, <1>3 DEF Close
<1>5. \A x \in Gids : x \notin Waiters(c) => slot'[x] = slot[x]
  BY Zenon DEF Close, Waiters
<1>6. ASSUME NEW h \in Gids
      PROVE  /\ slot'[h].recv = slot[h].recv /\ (slot'[h].recvOwned <=> slot[h].recvOwned)
             /\ IF h \in Elems(senders[c]) THEN slot'[h].send = Null /\ ~slot'[h].sendOwned
                ELSE slot'[h].send = slot[h].send /\ (slot'[h].sendOwned <=> slot[h].sendOwned)
             /\ h \notin Waiters(c) => slot'[h] = slot[h]
  <2>1. CASE h \in Elems(receivers[c])
    <3>1. slot[h].recv = Null /\ Tagged(h)
      BY ZenonT(40), <1>2, <2>1 DEF Filled, Owning, Tags
    <3>2. ~slot[h].recvOwned
      BY SMTT(40), Z3T(40), <1>2, <3>1 DEF Tagged
    <3>3. slot'[h].send = slot[h].send /\ (slot'[h].sendOwned <=> slot[h].sendOwned)
          /\ slot'[h].recv = Null /\ ~slot'[h].recvOwned
      BY SMTT(40), Z3T(40), <1>3, <2>1, NothingFields
    <3> QED
      BY SMTT(30), Z3T(30), <1>3, <1>5, <2>1, <3>1, <3>2, <3>3
  <2>2. CASE h \in Elems(senders[c])
    <3>1. /\ slot'[h].send = Null /\ slot'[h].recv = slot[h].recv /\ ~slot'[h].sendOwned
          /\ (slot'[h].recvOwned <=> slot[h].recvOwned)
      BY SMTT(40), Z3T(40), <1>4, <2>2, SendDoneFields
    <3> QED
      BY SMTT(40), Z3T(40), <1>5, <2>2, <3>1
  <2>3. CASE h \notin Waiters(c)
    BY SMTT(40), Z3T(40), <1>5, <2>3 DEF Waiters
  <2> QED
    BY ZenonT(40), <2>1, <2>2, <2>3 DEF Waiters
<1>7. released' = released \cup ({slot[h].send : h \in Elems(senders[c])} \cap Handles)
  <2>1. released' = released \cup (Owned(c, {slot[h].send : h \in Elems(senders[c])}) \ {Null})
    BY Zenon DEF Close
  <2> QED
    BY Zenon, <1>2, <2>1 DEF Owned, Filled, Carried
<1>8. buf' = buf
  <2>1. SubSeq(buf[c], Len(receivers[c]) + 1, Len(buf[c])) = buf[c]
    <3>1. CASE receivers[c] = <<>>
      BY SMTT(40), Z3T(40), <1>1, <3>1
    <3>2. CASE receivers[c] # <<>>
      <4>1. buf[c] = <<>> /\ Len(buf[c]) = 0 /\ Len(receivers[c]) \in Nat
        BY SMTT(40), Z3T(40), <1>1, <3>2
      <4> QED
        BY SMTT(40), Z3T(40), <4>1
    <3> QED
      BY Zenon, <3>1, <3>2
  <2>2. buf' = [buf EXCEPT ![c] = SubSeq(@, Len(receivers[c]) + 1, Len(@))] /\ buf \in [Chans -> Seq(Words)]
    BY Zenon DEF Close, Owning, TypeOK
  <2> QED
    BY Zenon, <2>1, <2>2
<1>9. /\ senders'[c] = <<>> /\ receivers'[c] = <<>>
      /\ \A d \in Chans : d # c => senders'[d] = senders[d] /\ receivers'[d] = receivers[d]
  BY Zenon DEF Close, Owning, TypeOK
<1> QED
  BY Zenon, <1>2, <1>6, <1>7, <1>8, <1>9 DEF Closing

LEMMA CloseOwning ==
    ASSUME Owning, NEW g \in Gids, NEW c \in Chans, Close(g, c) PROVE Tags' /\ Possessed'
<1>1. UNCHANGED <<table, done, on, park, tls, chans, fresh, held>>
  BY Zenon DEF Close
<1>2. Closing(c)
  BY Zenon, CloseShape
<1>3. /\ buf' = buf /\ Null \notin Handles /\ released \subseteq released'
      /\ \A h \in Gids : slot'[h].recv = slot[h].recv
      /\ \A h \in Gids : slot'[h].send = IF h \in Elems(senders[c]) THEN Null ELSE slot[h].send
  BY Zenon, <1>2, ChannelsAssumption DEF Closing
<1>4. ASSUME NEW h \in Gids PROVE Tagged(h)'
  <2>1. Tagged(h)
    BY ZenonT(40) DEF Owning, Tags
  <2>2. (~tls[h].sendOwned /\ (tls[h].recvOwned <=> tls[h].recv \in Handles))' /\ (slot[h].recvOwned <=> slot[h].recv \in Handles)'
        /\ (slot[h].sendOwned <=> slot[h].send \in Handles)'
    BY <1>1, <1>2, <1>3, <2>1 DEF Tagged, Closing
  <2>3. Stale(h) => Stale(h)'
    BY Zenon, <1>1, <1>3 DEF Stale
  <2>4. h \in table' /\ slot'[h].send # Null => \E d \in Chans : h \in Elems(senders'[d])
    BY Zenon, <1>1, <1>2, <1>3, <2>1 DEF Tagged, Closing
  <2> QED
    BY Zenon, <1>1, <2>1, <2>2, <2>3, <2>4 DEF Tagged, Carried
<1>5. ASSUME NEW d \in Chans PROVE Filled(d)'
  <2>1. Filled(d) /\ Elems(senders[d]) \subseteq Gids /\ Elems(receivers[d]) \subseteq Gids
    BY Zenon, QueueSets DEF Owning, TypeOK, Tags
  <2>2. CASE d = c
    BY Zenon, <1>2, <1>3, <2>1, <2>2 DEF Filled, Carried, Closing
  <2>3. CASE d # c
    <3>1. \A h \in Waiters(d) : h \notin Waiters(c)
      BY Zenon, <2>3 DEF Owning, OnePlace
    <3>2. \A h \in Elems(senders[d]) \cup Elems(receivers[d]) : slot'[h] = slot[h]
      BY Zenon, <1>2, <2>1, <3>1 DEF Closing, Waiters
    <3> QED
      BY Zenon, <1>2, <1>3, <2>1, <2>3, <3>2, ChannelFilled DEF Closing
  <2> QED
    BY Zenon, <2>2, <2>3
<1>6. Tags'
  <2>1. released' \subseteq Handles /\ on' \subseteq table'
    BY Zenon, <1>1, <1>2 DEF Closing, Owning, Tags
  <2> QED
    BY Zenon, <1>4, <1>5, <2>1 DEF Tags
<1>7. ASSUME NEW v \in Handles PROVE Kept(v)'
  <2>1. Kept(v) /\ (\A d \in Chans : InBuf(d, v)' <=> InBuf(d, v)) /\ v # Null
    BY Zenon, <1>1, <1>3 DEF InBuf, Owning, Possessed
  <2>2. \A h \in Gids :
          /\ (v \in held'[h] <=> v \in held[h]) /\ (InSend(h, v)' <=> InSend(h, v))
          /\ (InRecv(h, v)' <=> InRecv(h, v)) /\ (AtRecv(h, v)' <=> AtRecv(h, v))
          /\ (AtSend(h, v)' <=> AtSend(h, v) /\ h \notin Elems(senders[c]))
    BY Zenon, <1>1, <1>3, <2>1 DEF InSend, InRecv, AtSend, AtRecv
  <2>3. CASE \E x \in Elems(senders[c]) : slot[x].send = v
    <3>1. PICK x \in Elems(senders[c]) : slot[x].send = v
      BY Zenon, <2>3
    <3>2. x \in Gids /\ x \in table /\ x \notin on
      BY Zenon, WaiterPlace DEF Waiters
    <3>3. Spot(v, "parked", x) /\ ~Spot(v, "parked", x)' /\ Spot(v, "released", Null)'
      <4>1. v \in released'
        BY Zenon, <1>2, <3>1 DEF Closing
      <4> QED
        BY Zenon, <2>2, <3>1, <3>2, <4>1 DEF Spot, AtSend
    <3>4. {"parked", "released"} \subseteq Kinds /\ Gids \subseteq Spots /\ Null \in Spots
      BY Zenon DEF Kinds, Spots
    <3>5. \A h \in Gids : AtSend(h, v) => h = x
      BY Zenon, <3>2, <3>3, <3>4, OneSpot DEF Spot
    <3>6. \A h \in Gids : Moves(h, v, "parked", x, "released", Null)
      BY Zenon, <2>2, <3>5 DEF Moves
    <3>7. Elsewhere(v, "parked", x, "released", Null)
      BY Zenon, <1>1, <2>1, <3>6 DEF Elsewhere
    <3> QED
      BY Zenon, <2>1, <3>2, <3>3, <3>4, <3>7, Hop
  <2>4. CASE ~ \E x \in Elems(senders[c]) : slot[x].send = v
    <3>1. v \in released' <=> v \in released
      BY Zenon, <1>2, <2>4 DEF Closing
    <3>2. \A h \in Gids : Still(h, v)
      BY Zenon, <2>2, <2>4 DEF Still, AtSend
    <3> QED
      BY Zenon, <1>1, <2>1, <3>1, <3>2, Resting DEF Rest
  <2> QED
    BY Zenon, <2>3, <2>4
<1> QED
  BY Zenon, <1>6, <1>7 DEF Possessed

LEMMA InitOwning == Init => Tags /\ Possessed
<1> SUFFICES ASSUME Init PROVE Tags /\ Possessed
  OBVIOUS
<1>1. Null \notin Handles /\ Elems(<<>>) = {} /\ NoDuplicates(<<>>)
  BY ChannelsAssumption DEF Elems, NoDuplicates
<1>2. \A g \in Gids : tls[g] = Idle /\ slot[g] = Idle /\ held[g] = {} /\ park[g] = NoPark
  BY Zenon DEF Init
<1>3. /\ Idle.send = Null /\ Idle.recv = Null /\ ~Idle.sendOwned /\ ~Idle.recvOwned
      /\ NoPark.op = "none"
  BY SMTT(40), Z3T(40) DEF Idle, State, NoPark
<1>4. ASSUME NEW g \in Gids PROVE Tagged(g)
  <2>1. g \notin on /\ g \notin done
    BY Zenon DEF Init
  <2> QED
    BY <1>1, <1>2, <1>3, <2>1 DEF Tagged
<1>5. \A c \in Chans : Filled(c)
  BY Zenon, <1>1 DEF Init, Filled
<1>6. Tags
  BY Zenon, <1>4, <1>5 DEF Init, Tags
<1>7. ASSUME NEW v \in Handles PROVE Kept(v)
  <2>1. /\ v \in fresh /\ v \notin released /\ v # Null
        /\ \A g \in Gids : v \notin held[g] /\ ~InSend(g, v) /\ ~InRecv(g, v) /\ ~AtSend(g, v) /\ ~AtRecv(g, v)
        /\ \A c \in Chans : ~InBuf(c, v)
    BY Zenon, <1>1, <1>2, <1>3 DEF Init, InSend, InRecv, AtSend, AtRecv, InBuf
  <2>2. \A j, y : Spot(v, j, y) <=> j = "fresh" /\ y = Null
    BY Zenon, <2>1 DEF Spot
  <2>3. "fresh" \in Kinds /\ Null \in Spots
    BY Zenon DEF Kinds, Spots
  <2> QED
    BY Zenon, <2>2, <2>3 DEF Kept
<1> QED
  BY Zenon, <1>6, <1>7 DEF Possessed

LEMMA NextOwning ==
    ASSUME Owning, ~DropWhilePolled, [Next]_vars PROVE Tags' /\ Possessed'
<1>1. CASE UNCHANGED vars
  <2>1. UNCHANGED <<table, done, on, park, tls, slot, chans, buf, senders, receivers, fresh, released, held>>
    BY Zenon, <1>1 DEF vars, taskVars, chanVars, valueVars
  <2>2. \A g \in Gids : Bystander(g)
    BY Zenon, <2>1 DEF Bystander
  <2>3. \A g \in Gids : Tagged(g)'
    BY Zenon, <2>1, <2>2, BystanderTagged DEF Owning, Tags
  <2>4. \A c \in Chans : Filled(c)'
    BY Zenon, <2>1, ChannelFilled DEF Owning, Tags
  <2>5. Tags'
    BY Zenon, <2>1, <2>3, <2>4 DEF Owning, Tags
  <2>6. ASSUME NEW v \in Handles PROVE Kept(v)'
    BY Zenon, <2>1, <2>2, BystanderStill, Resting DEF Rest, InBuf, Owning, Possessed
  <2> QED
    BY Zenon, <2>5, <2>6 DEF Possessed
<1>2. ASSUME NEW g \in Gids,
             Drive(g) \/ TakeResult(g) \/ FlushYield(g) \/ FlushDone(g) \/ DropGoroutine(g)
             \/ \E v \in Handles : ReleaseHeld(g, v)
      PROVE  Tags' /\ Possessed'
  BY Zenon, <1>2, DriveOwning, TakeResultOwning, FlushYieldOwning, FlushDoneOwning,
     DropGoroutineOwning, ReleaseHeldOwning
<1>3. ASSUME NEW g \in Gids PROVE ~FlushDropped(g)
  BY Zenon DEF FlushDropped, Owning, Tags
<1>4. ASSUME NEW g \in Gids, NEW c \in Chans PROVE ~SendGone(g, c)
  <2>1. ASSUME SendGone(g, c) PROVE g \in refs[c] /\ c \notin chans
    <3>1. park[g] = [op |-> "send", chan |-> c] /\ g \in table /\ c \notin chans
      BY Zenon, <2>1 DEF SendGone, Flushing
    <3>2. park[g].op # "none" /\ park[g].chan = c
      BY <3>1
    <3> QED
      BY Zenon, <3>1, <3>2 DEF Owning, WaitersKeepChannel
  <2> QED
    BY Zenon, <2>1 DEF Owning, WaitersKeepChannel
<1>5. ASSUME NEW g \in Gids, NEW c \in Chans, ChanStep(g, c) PROVE Tags' /\ Possessed'
  BY ZenonT(40), <1>4, <1>5, ParkSendOwning, ParkRecvOwning, DropRefOwning, CloseOwning, SendClosedOwning,
     SendHandoffOwning, SendBufferedOwning, SendParksOwning, RecvNothingOwning, RecvBufferedOwning,
     RecvRefillsOwning, RecvRendezvousOwning, RecvParksOwning DEF ChanStep
<1> QED
  BY Zenon, <1>1, <1>2, <1>3, <1>5 DEF Next

\* Owners(v) lists the places of v other than before its send and after its release.
LEMMA OwnersAreSpots ==
    ASSUME Owning, NEW v \in Handles, NEW o
    PROVE  o \in Owners(v) <=> \E j \in Kinds \ {"fresh", "released"}, y \in Spots :
                                   o = <<j, y>> /\ Spot(v, j, y)
<1>1. on \subseteq Gids /\ table \subseteq Gids /\ chans \subseteq Chans
  BY Zenon DEF Owning, TypeOK
<1>2. /\ "held" \in Kinds \ {"fresh", "released"} /\ "sending" \in Kinds \ {"fresh", "released"}
      /\ "received" \in Kinds \ {"fresh", "released"} /\ "parked" \in Kinds \ {"fresh", "released"}
      /\ "resumed" \in Kinds \ {"fresh", "released"} /\ "buffer" \in Kinds \ {"fresh", "released"}
      /\ Gids \subseteq Spots /\ Chans \subseteq Spots
  BY Zenon DEF Kinds, Spots
<1>3. ASSUME o \in Owners(v)
      PROVE  \E j \in Kinds \ {"fresh", "released"}, y \in Spots : o = <<j, y>> /\ Spot(v, j, y)
  <2>1. ASSUME NEW g \in Gids, o = <<"held", g>>, v \in held[g]
        PROVE  \E j \in Kinds \ {"fresh", "released"}, y \in Spots : o = <<j, y>> /\ Spot(v, j, y)
    BY Zenon, <1>2, <2>1 DEF Spot
  <2>2. ASSUME NEW g \in on, o = <<"sending", g>>, tls[g].send = v /\ park[g].op = "send"
        PROVE  \E j \in Kinds \ {"fresh", "released"}, y \in Spots : o = <<j, y>> /\ Spot(v, j, y)
    BY Zenon, <1>1, <1>2, <2>2 DEF Spot, InSend
  <2>3. ASSUME NEW g \in on, o = <<"received", g>>, tls[g].recv = v
        PROVE  \E j \in Kinds \ {"fresh", "released"}, y \in Spots : o = <<j, y>> /\ Spot(v, j, y)
    BY Zenon, <1>1, <1>2, <2>3 DEF Spot, InRecv
  <2>4. ASSUME NEW g \in table \ on, o = <<"parked", g>>, slot[g].send = v
        PROVE  \E j \in Kinds \ {"fresh", "released"}, y \in Spots : o = <<j, y>> /\ Spot(v, j, y)
    BY Zenon, <1>1, <1>2, <2>4 DEF Spot, AtSend
  <2>5. ASSUME NEW g \in table \ (on \cup done), o = <<"resumed", g>>, slot[g].recv = v
        PROVE  \E j \in Kinds \ {"fresh", "released"}, y \in Spots : o = <<j, y>> /\ Spot(v, j, y)
    BY Zenon, <1>1, <1>2, <2>5 DEF Spot, AtRecv
  <2>6. ASSUME NEW c \in chans, o = <<"buffer", c>>, v \in Elems(buf[c])
        PROVE  \E j \in Kinds \ {"fresh", "released"}, y \in Spots : o = <<j, y>> /\ Spot(v, j, y)
    BY Zenon, <1>1, <1>2, <2>6 DEF Spot, InBuf
  <2> QED
    BY Zenon, <1>3, <2>1, <2>2, <2>3, <2>4, <2>5, <2>6 DEF Owners
<1>4. ASSUME NEW j \in Kinds \ {"fresh", "released"}, NEW y \in Spots, o = <<j, y>>, Spot(v, j, y)
      PROVE  o \in Owners(v)
  BY Zenon, <1>4 DEF Owners, Spot, InSend, InRecv, AtSend, AtRecv, InBuf
<1> QED
  BY Zenon, <1>3, <1>4

LEMMA OwnedOnce == Owning => OneOwner
<1> SUFFICES ASSUME Owning PROVE OneOwner
  OBVIOUS
<1>1. ASSUME NEW v \in Handles
      PROVE  IF v \in fresh \cup released THEN Owners(v) = {}
             ELSE \E o \in Owners(v) : Owners(v) = {o}
  <2>1. PICK k \in Kinds, x \in Spots : \A j \in Kinds, y \in Spots : Spot(v, j, y) <=> j = k /\ y = x
    BY Zenon DEF Owning, Possessed, Kept
  <2>2. /\ v \in fresh <=> k = "fresh" /\ x = Null
        /\ v \in released <=> k = "released" /\ x = Null
    <3>1. "fresh" \in Kinds /\ "released" \in Kinds /\ Null \in Spots
      BY Zenon DEF Kinds, Spots
    <3>2. (Spot(v, "fresh", Null) <=> v \in fresh) /\ (Spot(v, "released", Null) <=> v \in released)
      BY Zenon DEF Spot
    <3> QED
      BY Zenon, <2>1, <3>1, <3>2
  <2>3. \A o : o \in Owners(v) <=> k \notin {"fresh", "released"} /\ o = <<k, x>>
    BY Zenon, <2>1, OwnersAreSpots
  <2>4. k \in {"fresh", "released"} => x = Null
    BY Zenon, <2>1 DEF Spot
  <2>5. CASE k \in {"fresh", "released"}
    BY Zenon, <2>2, <2>3, <2>4, <2>5
  <2>6. CASE k \notin {"fresh", "released"}
    <3>1. v \notin fresh \cup released
      BY Zenon, <2>2, <2>6
    <3>2. <<k, x>> \in Owners(v) /\ Owners(v) = {<<k, x>>}
      BY Zenon, <2>3, <2>6
    <3> QED
      BY Zenon, <3>1, <3>2
  <2> QED
    BY Zenon, <2>5, <2>6
<1> QED
  BY Zenon, <1>1 DEF OneOwner, Owning, Tags

\* An element that is an owned handle has exactly one owner from its send to its
\* release, whatever is sent, received, closed or dropped and by however many
\* goroutines: chan_op hands it on without a copy that somebody else releases, and
\* chan_close, chan_drop and drop_goroutine release what nobody will receive.
\* Goroutines that borrow a channel are left out, as for ChannelKept; so is a drop
\* of a goroutine that a worker is polling, where the code loses a handle.
THEOREM ElementsHaveOneOwner ==
    ASSUME Borrowers = {}, ~DropWhilePolled PROVE Spec => []OneOwner
<1>1. TypeOK /\ NoMissedPartner /\ OnePlace /\ WaitersKeepChannel /\ Tags /\ Possessed => Owning
  BY Zenon DEF Owning
<1>2. Owning /\ [Next]_vars => Tags' /\ Possessed'
  BY Zenon, NextOwning
<1> QED
  BY <1>1, <1>2, InitOwning, OwnedOnce, Types, NoWakeupLost, OnePlaceOnly, ChannelKept, PTL DEF Spec

=============================================================================
