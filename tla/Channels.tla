------------------------------ MODULE Channels ------------------------------
(***************************************************************************)
(* Goroutines that meet on channels: ntask/core.rs and the channel half of *)
(* ntask/scheduler.rs (drive, chan_send, chan_recv, chan_close,            *)
(* drop_goroutine, drop_chan, shutdown), with the reference count of the   *)
(* channel handle (registry::chan_drop).                                   *)
(*                                                                         *)
(* A worker drives a goroutine in three steps: it loads the suspension     *)
(* state into thread-local storage under the global lock, polls without    *)
(* the lock, and flushes the state in a second critical section, where the *)
(* channel operation takes effect.  Other threads run in between.          *)
(*                                                                         *)
(* Where a runnable goroutine waits is RunQueue's business: here `runq`    *)
(* only counts how often it has been made runnable and not yet driven.     *)
(***************************************************************************)
EXTENDS Integers, Sequences, FiniteSets

CONSTANTS Gids,           \* goroutines, all spawned by the time we look
          Detached,       \* those whose handle was discarded (ntask_go_detached)
          Borrowers,      \* those that use channels without retaining them
          Chans, Cap,     \* channels and their capacities
          Owns,           \* channels whose elements are owned handles
          Handles,        \* elements of the channels in Owns: registry ids
          Scalars,        \* elements of the others: plain words
          Null,           \* registry::NULL
          NumWorkers,     \* goroutines polled at the same time
          DropWhilePolled \* may a handle be dropped while its goroutine is polled?

ASSUME ChannelsAssumption ==
    /\ Detached \subseteq Gids /\ Borrowers \subseteq Gids /\ Owns \subseteq Chans
    /\ Cap \in [Chans -> Nat]
    /\ Handles \cap Scalars = {} /\ Null \notin Handles \cup Scalars
    /\ Null \notin Chans
    /\ NumWorkers \in Nat \ {0}
    /\ DropWhilePolled \in BOOLEAN

VARIABLES
    table,      \* Global::goroutines: registered goroutines
    done,       \* those that ran to completion and stay addressable
    runq,       \* how often each goroutine is in a run queue
    on,         \* goroutines being polled
    park,       \* what a polled goroutine has asked to wait for
    tls,        \* suspension state of a polled goroutine (CURRENT_STATE)
    slot,       \* suspension state in the table, stale during a poll
    chans,      \* Global::chans: registered channels
    closed,     \* Chan::closed
    buf, senders, receivers,  \* Chan::buf, Chan::senders, Chan::receivers
    refs,       \* goroutines whose future holds a reference to the channel
    cleaning,   \* dropped goroutines whose future is being torn down
    fresh,      \* handles not created yet
    held,       \* handles in the variables of each future
    released,   \* ids removed from the registry
    stopped     \* shutdown has abandoned the goroutines

taskVars == <<table, done, runq, on, park, tls, slot, cleaning, stopped>>
chanVars == <<chans, closed, buf, senders, receivers, refs>>
valueVars == <<fresh, held, released>>
vars == <<taskVars, chanVars, valueVars>>

\* What a goroutine waits for (Park): nothing, or an operation on a channel.
NoPark == [op |-> "none", chan |-> Null]
Parks == [op : {"none", "send", "recv"}, chan : Chans \cup {Null}]

Values == Handles \cup Scalars
Words == Values \cup {Null}

\* TaskState without the wait target, and the fields of Goroutine it mirrors.
Suspension == [send : Words, sendOwned : BOOLEAN,
               recv : Words, recvOwned : BOOLEAN, ok : BOOLEAN]
State(send, sendOwned, recv, recvOwned, ok) ==
    [send |-> send, sendOwned |-> sendOwned, recv |-> recv, recvOwned |-> recvOwned, ok |-> ok]
Idle == State(Null, FALSE, Null, FALSE, FALSE)

Init ==
    /\ table = Gids /\ done = {} /\ on = {} /\ cleaning = {} /\ stopped = FALSE
    /\ runq = [g \in Gids |-> 1]
    /\ park = [g \in Gids |-> NoPark]
    /\ tls = [g \in Gids |-> Idle] /\ slot = [g \in Gids |-> Idle]
    /\ chans = Chans /\ closed = {}
    /\ buf = [c \in Chans |-> <<>>]
    /\ senders = [c \in Chans |-> <<>>] /\ receivers = [c \in Chans |-> <<>>]
    /\ refs = [c \in Chans |-> Gids \ Borrowers]
    /\ fresh = Handles /\ released = {} /\ held = [g \in Gids |-> {}]

-----------------------------------------------------------------------------

Elems(s) == {s[i] : i \in 1..Len(s)}

\* Mutant: a dropped goroutine stays in its wait queue.
WithoutNothing(s, e) == s

\* Vec::retain(|x| x != e).  An id is queued at most once (see OnePlace).
Without(s, e) ==
    IF \E i \in 1..Len(s) : s[i] = e
    THEN LET k == CHOOSE i \in 1..Len(s) : s[i] = e
         IN [i \in 1..(Len(s) - 1) |-> IF i < k THEN s[i] ELSE s[i + 1]]
    ELSE s

\* Mutant: one goroutine is made runnable where several are to be.
WakeOne(S) ==
    IF S = {} THEN UNCHANGED runq ELSE runq' = [runq EXCEPT ![CHOOSE g \in S : TRUE] = @ + 1]

\* ready.push_back for every goroutine in S.
WakeAll(S) == runq' = [g \in Gids |-> IF g \in S THEN runq[g] + 1 ELSE runq[g]]

\* The elements of S that the channel owns.
Owned(c, S) == IF c \in Owns THEN S ELSE {}

\* Mutant: a value that was sent stays behind.
SendDoneForgotten(s) == s

\* The value to send is set, tagged while it is parked, and cleared.
Sending(s, v) == State(v, FALSE, s.recv, s.recvOwned, s.ok)
SendParked(s, c) == State(s.send, c \in Owns, s.recv, s.recvOwned, s.ok)
SendDone(s) == State(Null, FALSE, s.recv, s.recvOwned, s.ok)
\* The value received is set, tagged with the channel's ownership, or absent.
Received(s, c, v) == State(s.send, s.sendOwned, v, c \in Owns, TRUE)
ReceivedNothing(s) == State(s.send, s.sendOwned, Null, FALSE, FALSE)
Taken(s) == State(s.send, s.sendOwned, Null, FALSE, s.ok)

-----------------------------------------------------------------------------
(* The poll.  A resumed receive stores its result before anything else     *)
(* (emit_chan_resume), so what follows starts from an empty result.        *)

\* drive, first critical section.  The id of a dropped goroutine is ignored.
Drive(g) ==
    /\ runq[g] > 0 /\ ~stopped
    /\ runq' = [runq EXCEPT ![g] = @ - 1]
    /\ \/ /\ g \in table /\ Cardinality(on) < NumWorkers
          /\ on' = on \cup {g}
          /\ tls' = [tls EXCEPT ![g] = slot[g]]
       \/ /\ g \notin table
          /\ UNCHANGED <<on, tls>>
    /\ UNCHANGED <<table, done, park, slot, cleaning, stopped, chanVars, valueVars>>

\* recv_result: the value moves into a variable of the future.
TakeResult(g) ==
    /\ g \in on /\ tls[g].recv # Null
    /\ held' = [held EXCEPT ![g] = @ \cup IF tls[g].recvOwned THEN {tls[g].recv} ELSE {}]
    /\ tls' = [tls EXCEPT ![g] = Taken(@)]
    /\ UNCHANGED <<table, done, runq, on, park, slot, cleaning, stopped, chanVars,
                   fresh, released>>

CanAct(g) == g \in on /\ park[g] = NoPark /\ tls[g].recv = Null

\* The future still has the channel in a variable.
CanUse(g, c) == CanAct(g) /\ c \in chans /\ g \in refs[c] \cup Borrowers

\* park_chan_send: the value leaves the future's variable.
ParkSend(g, c, v) ==
    /\ CanUse(g, c)
    /\ v \in (IF c \in Owns THEN fresh \cup held[g] ELSE Scalars)
    /\ fresh' = fresh \ {v}
    /\ held' = [held EXCEPT ![g] = @ \ {v}]
    /\ tls' = [tls EXCEPT ![g] = Sending(@, v)]
    /\ park' = [park EXCEPT ![g] = [op |-> "send", chan |-> c]]
    /\ UNCHANGED <<table, done, runq, on, slot, cleaning, stopped, chanVars, released>>

\* park_chan_recv
ParkRecv(g, c) ==
    /\ CanUse(g, c)
    /\ tls' = [tls EXCEPT ![g] = ReceivedNothing(@)]
    /\ park' = [park EXCEPT ![g] = [op |-> "recv", chan |-> c]]
    /\ UNCHANGED <<table, done, runq, on, slot, cleaning, stopped, chanVars, valueVars>>

\* The future drops a value it holds, in its poll or when it is torn down.
ReleaseHeld(g, v) ==
    /\ CanAct(g) \/ g \in cleaning
    /\ v \in held[g]
    /\ held' = [held EXCEPT ![g] = @ \ {v}]
    /\ released' = released \cup {v}
    /\ UNCHANGED <<taskVars, chanVars, fresh>>

\* Mutant: every drop of a reference counts as the last.
AnyRef(g, c) == TRUE

LastRef(g, c) == refs[c] = {g}

\* registry::chan_drop: the last reference drops the channel and its buffer.
DropRef(g, c) ==
    /\ CanAct(g) \/ g \in cleaning
    /\ g \in refs[c]
    /\ refs' = [refs EXCEPT ![c] = @ \ {g}]
    /\ IF LastRef(g, c)
       THEN /\ chans' = chans \ {c}
            /\ buf' = [buf EXCEPT ![c] = <<>>]
            /\ senders' = [senders EXCEPT ![c] = <<>>]
            /\ receivers' = [receivers EXCEPT ![c] = <<>>]
            /\ released' = released \cup Owned(c, Elems(buf[c]))
       ELSE UNCHANGED <<chans, buf, senders, receivers, released>>
    /\ UNCHANGED <<taskVars, closed, fresh, held>>

\* chan_close: parked receivers take what is buffered or see the zero value,
\* parked senders are let go and their values abandoned.
Close(g, c) ==
    /\ CanUse(g, c) /\ c \notin closed
    /\ LET waiting == Elems(receivers[c])
           stuck == Elems(senders[c])
           nth(x) == CHOOSE i \in 1..Len(receivers[c]) : receivers[c][i] = x
           drained(x) == IF nth(x) <= Len(buf[c])
                         THEN Received(slot[x], c, buf[c][nth(x)])
                         ELSE ReceivedNothing(slot[x])
       IN /\ slot' = [x \in Gids |-> IF x \in waiting THEN drained(x)
                                     ELSE IF x \in stuck THEN SendDone(slot[x])
                                     ELSE slot[x]]
          /\ released' = released \cup (Owned(c, {slot[x].send : x \in stuck}) \ {Null})
          /\ WakeAll(waiting \cup stuck)
    /\ closed' = closed \cup {c}
    /\ buf' = [buf EXCEPT ![c] = SubSeq(@, Len(receivers[c]) + 1, Len(@))]
    /\ senders' = [senders EXCEPT ![c] = <<>>]
    /\ receivers' = [receivers EXCEPT ![c] = <<>>]
    /\ UNCHANGED <<table, done, on, park, tls, cleaning, stopped, chans, refs, fresh, held>>

-----------------------------------------------------------------------------
(* The end of the poll: drive's last critical section. *)

\* The worker gives its thread-local state back (TaskState::IDLE).
EndPoll(g) ==
    /\ on' = on \ {g}
    /\ tls' = [tls EXCEPT ![g] = Idle]
    /\ park' = [park EXCEPT ![g] = NoPark]

\* A goroutine that was dropped meanwhile is forgotten, its state with it.
FlushDropped(g) ==
    /\ g \in on \ table
    /\ EndPoll(g)
    /\ UNCHANGED <<table, done, runq, slot, cleaning, stopped, chanVars, valueVars>>

\* No wait target: requeue.
FlushYield(g) ==
    /\ CanAct(g) /\ g \in table
    /\ EndPoll(g)
    /\ slot' = [slot EXCEPT ![g] = tls[g]]
    /\ WakeAll({g})
    /\ UNCHANGED <<table, done, cleaning, stopped, chanVars, valueVars>>

\* The last poll: the future has dropped everything it held.  A detached
\* goroutine is reclaimed at once, a joinable one stays until it is dropped.
FlushDone(g) ==
    /\ CanAct(g) /\ g \in table
    /\ held[g] = {} /\ \A c \in Chans : g \notin refs[c]
    /\ EndPoll(g)
    /\ IF g \in Detached THEN table' = table \ {g} /\ UNCHANGED done
                         ELSE done' = done \cup {g} /\ UNCHANGED table
    /\ UNCHANGED <<runq, slot, cleaning, stopped, chanVars, valueVars>>

Flushing(g, op, c) ==
    /\ g \in on \cap table
    /\ park[g] = [op |-> op, chan |-> c]
    /\ EndPoll(g)
    /\ UNCHANGED <<table, done, cleaning, stopped, chans, closed, refs, fresh, held>>

\* chan_send on a channel that is gone: "value released by caller".
SendGone(g, c) ==
    /\ Flushing(g, "send", c) /\ c \notin chans
    /\ slot' = [slot EXCEPT ![g] = SendDone(tls[g])]
    /\ WakeAll({g})
    /\ UNCHANGED <<buf, senders, receivers, released>>

SendClosed(g, c) ==
    /\ Flushing(g, "send", c) /\ c \in chans /\ c \in closed
    /\ slot' = [slot EXCEPT ![g] = SendDone(tls[g])]
    /\ released' = released \cup Owned(c, {tls[g].send})
    /\ WakeAll({g})
    /\ UNCHANGED <<buf, senders, receivers>>

\* A parked receiver is handed the value; both go on.
SendHandoff(g, c) ==
    /\ Flushing(g, "send", c) /\ c \in chans \ closed /\ receivers[c] # <<>>
    /\ LET r == Head(receivers[c])
       IN /\ slot' = [slot EXCEPT ![r] = Received(@, c, tls[g].send),
                                  ![g] = SendDone(tls[g])]
          /\ WakeAll({r, g})
    /\ receivers' = [receivers EXCEPT ![c] = Tail(@)]
    /\ UNCHANGED <<buf, senders, released>>

\* Mutant: the value is buffered without looking at the parked receivers.
SendBufferedBlind(g, c) ==
    /\ Flushing(g, "send", c) /\ c \in chans \ closed /\ Len(buf[c]) < Cap[c]
    /\ buf' = [buf EXCEPT ![c] = Append(@, tls[g].send)]
    /\ slot' = [slot EXCEPT ![g] = SendDone(tls[g])]
    /\ WakeAll({g})
    /\ UNCHANGED <<senders, receivers, released>>

SendBuffered(g, c) ==
    /\ Flushing(g, "send", c) /\ c \in chans \ closed /\ receivers[c] = <<>>
    /\ Len(buf[c]) < Cap[c]
    /\ buf' = [buf EXCEPT ![c] = Append(@, tls[g].send)]
    /\ slot' = [slot EXCEPT ![g] = SendDone(tls[g])]
    /\ WakeAll({g})
    /\ UNCHANGED <<senders, receivers, released>>

SendParks(g, c) ==
    /\ Flushing(g, "send", c) /\ c \in chans \ closed /\ receivers[c] = <<>>
    /\ Len(buf[c]) >= Cap[c]
    /\ slot' = [slot EXCEPT ![g] = SendParked(tls[g], c)]
    /\ senders' = [senders EXCEPT ![c] = Append(@, g)]
    /\ UNCHANGED <<runq, buf, receivers, released>>

\* chan_recv on a channel that is gone, or closed and drained: the zero value.
RecvNothing(g, c) ==
    /\ Flushing(g, "recv", c)
    /\ \/ c \notin chans
       \/ c \in closed /\ buf[c] = <<>> /\ senders[c] = <<>>
    /\ slot' = [slot EXCEPT ![g] = ReceivedNothing(tls[g])]
    /\ WakeAll({g})
    /\ UNCHANGED <<buf, senders, receivers, released>>

\* The oldest buffered value.
RecvBuffered(g, c) ==
    /\ Flushing(g, "recv", c) /\ c \in chans /\ buf[c] # <<>> /\ senders[c] = <<>>
    /\ buf' = [buf EXCEPT ![c] = Tail(@)]
    /\ slot' = [slot EXCEPT ![g] = Received(tls[g], c, Head(buf[c]))]
    /\ WakeAll({g})
    /\ UNCHANGED <<senders, receivers, released>>

\* Mutant: the parked sender's value overtakes the buffer.
RecvOvertakes(g, c) ==
    /\ Flushing(g, "recv", c) /\ c \in chans /\ buf[c] # <<>> /\ senders[c] # <<>>
    /\ LET s == Head(senders[c])
       IN /\ slot' = [slot EXCEPT ![g] = Received(tls[g], c, slot[s].send),
                                  ![s] = SendDone(@)]
          /\ WakeAll({s, g})
    /\ senders' = [senders EXCEPT ![c] = Tail(@)]
    /\ UNCHANGED <<buf, receivers, released>>

\* The oldest parked sender moves into the place this frees.
RecvRefills(g, c) ==
    /\ Flushing(g, "recv", c) /\ c \in chans /\ buf[c] # <<>> /\ senders[c] # <<>>
    /\ LET s == Head(senders[c])
       IN /\ buf' = [buf EXCEPT ![c] = Append(Tail(@), slot[s].send)]
          /\ slot' = [slot EXCEPT ![g] = Received(tls[g], c, Head(buf[c])),
                                  ![s] = SendDone(@)]
          /\ WakeAll({s, g})
    /\ senders' = [senders EXCEPT ![c] = Tail(@)]
    /\ UNCHANGED <<receivers, released>>

\* Unbuffered: the value comes straight from the parked sender.
RecvRendezvous(g, c) ==
    /\ Flushing(g, "recv", c) /\ c \in chans /\ buf[c] = <<>> /\ senders[c] # <<>>
    /\ LET s == Head(senders[c])
       IN /\ slot' = [slot EXCEPT ![g] = Received(tls[g], c, slot[s].send),
                                  ![s] = SendDone(@)]
          /\ WakeAll({s, g})
    /\ senders' = [senders EXCEPT ![c] = Tail(@)]
    /\ UNCHANGED <<buf, receivers, released>>

RecvParks(g, c) ==
    /\ Flushing(g, "recv", c) /\ c \in chans \ closed
    /\ buf[c] = <<>> /\ senders[c] = <<>>
    /\ slot' = [slot EXCEPT ![g] = tls[g]]
    /\ receivers' = [receivers EXCEPT ![c] = Append(@, g)]
    /\ UNCHANGED <<runq, buf, senders, released>>

-----------------------------------------------------------------------------

\* drop_goroutine: forget the goroutine, release what its slot owns, and tear
\* its future down (ReleaseHeld and DropRef) unless it ran to completion.
DropGoroutine(g) ==
    /\ g \in table \ Detached /\ ~stopped
    /\ g \in on => DropWhilePolled
    /\ table' = table \ {g}
    /\ done' = done \ {g}
    /\ released' = released \cup (IF slot[g].sendOwned THEN {slot[g].send} \ {Null} ELSE {})
                            \cup (IF slot[g].recvOwned THEN {slot[g].recv} \ {Null} ELSE {})
    /\ senders' = [c \in Chans |-> Without(senders[c], g)]
    /\ receivers' = [c \in Chans |-> Without(receivers[c], g)]
    /\ cleaning' = IF g \in done THEN cleaning ELSE cleaning \cup {g}
    /\ UNCHANGED <<runq, on, park, tls, slot, stopped, chans, closed, buf, refs, fresh, held>>

\* shutdown, once the workers have been joined: every goroutine is abandoned
\* and its future torn down.  Channels are left to the futures' references.
Shutdown ==
    /\ ~stopped /\ on = {}
    /\ stopped' = TRUE
    /\ table' = {} /\ done' = {}
    /\ cleaning' = cleaning \cup (table \ done)
    /\ runq' = [g \in Gids |-> 0]
    /\ UNCHANGED <<on, park, tls, slot, chanVars, valueVars>>

ChanStep(g, c) ==
    \/ \E v \in Values : ParkSend(g, c, v)
    \/ ParkRecv(g, c) \/ DropRef(g, c) \/ Close(g, c)
    \/ SendGone(g, c) \/ SendClosed(g, c) \/ SendHandoff(g, c)
    \/ SendBuffered(g, c) \/ SendParks(g, c)
    \/ RecvNothing(g, c) \/ RecvBuffered(g, c) \/ RecvRefills(g, c)
    \/ RecvRendezvous(g, c) \/ RecvParks(g, c)

Next ==
    \E g \in Gids :
        \/ Drive(g) \/ TakeResult(g)
        \/ FlushDropped(g) \/ FlushYield(g) \/ FlushDone(g)
        \/ DropGoroutine(g)
        \/ \E v \in Handles : ReleaseHeld(g, v)
        \/ \E c \in Chans : ChanStep(g, c)

Spec == Init /\ [][Next]_vars

\* The life of a program that ends with goroutines still parked.
AbandonSpec == Init /\ [][Next \/ Shutdown]_vars

-----------------------------------------------------------------------------

\* The state is well formed: wait queues hold goroutines, buffers hold
\* words, and suspension slots hold what chan_op leaves there.
TypeOK ==
    /\ table \subseteq Gids /\ done \subseteq Gids /\ on \subseteq Gids
    /\ cleaning \subseteq Gids /\ stopped \in BOOLEAN
    /\ runq \in [Gids -> Nat]
    /\ park \in [Gids -> Parks]
    /\ tls \in [Gids -> Suspension] /\ slot \in [Gids -> Suspension]
    /\ chans \subseteq Chans /\ closed \subseteq Chans
    /\ buf \in [Chans -> Seq(Words)]
    /\ senders \in [Chans -> Seq(Gids)] /\ receivers \in [Chans -> Seq(Gids)]
    /\ refs \in [Chans -> SUBSET Gids]
    /\ fresh \subseteq Handles /\ released \subseteq Words
    /\ held \in [Gids -> SUBSET Values]

\* No wake-up is lost on a channel: a receiver is only parked while there is
\* neither a buffered value nor a parked sender, a sender only while the buffer
\* is full, nobody on a closed channel, and the buffer keeps to its capacity.
NoMissedPartner ==
    \A c \in Chans :
        /\ Len(buf[c]) <= Cap[c]
        /\ receivers[c] # <<>> => buf[c] = <<>> /\ senders[c] = <<>>
        /\ senders[c] # <<>> => Len(buf[c]) = Cap[c]
        /\ c \in closed => receivers[c] = <<>> /\ senders[c] = <<>>

\* The goroutines parked on a channel.
Waiters(c) == Elems(senders[c]) \cup Elems(receivers[c])

NoDuplicates(s) == \A i, j \in 1..Len(s) : s[i] = s[j] => i = j

\* A goroutine is never in two places: it is queued once, or polled by one
\* worker, or done, or in one place of one wait queue.  A second wake-up would
\* have a worker poll it with an empty task stack and declare it done (drive).
OnePlace ==
    /\ done \subseteq table \ on
    /\ \A g \in Gids : runq[g] <= IF g \in on \cup done THEN 0 ELSE 1
    /\ \A c \in Chans :
        /\ \A g \in Waiters(c) : g \in table \ (done \cup on) /\ runq[g] = 0
        /\ NoDuplicates(senders[c]) /\ NoDuplicates(receivers[c])
        /\ Elems(senders[c]) \cap Elems(receivers[c]) = {}
    /\ \A c, d \in Chans : c # d => Waiters(c) \cap Waiters(d) = {}

\* Whoever waits, or is about to wait, on a channel keeps a reference to it,
\* and a channel with a reference is registered: the last chan_drop finds
\* nobody parked on the channel it unregisters.
WaitersKeepChannel ==
    /\ cleaning \cap table = {}
    /\ \A c \in Chans : (refs[c] # {} => c \in chans) /\ Waiters(c) \subseteq refs[c]
    /\ \A g \in Gids : park[g].op # "none" =>
        g \in on /\ park[g].chan \in Chans /\ (g \in table => g \in refs[park[g].chan])

\* A goroutine is never forgotten: until it is done or dropped somebody is
\* going to run it, or it waits on a channel that still exists.
NoneStranded ==
    \A g \in table \ done :
        runq[g] > 0 \/ g \in on \/ \E c \in chans : g \in Waiters(c)

\* Who is responsible for releasing a handle.
Owners(v) ==
    {<<"held", g>> : g \in {h \in Gids : v \in held[h]}}
    \cup {<<"sending", g>> : g \in {h \in on : tls[h].send = v /\ park[h].op = "send"}}
    \cup {<<"received", g>> : g \in {h \in on : tls[h].recv = v}}
    \cup {<<"parked", g>> : g \in {h \in table \ on : slot[h].send = v}}
    \cup {<<"resumed", g>> : g \in {h \in table \ (on \cup done) : slot[h].recv = v}}
    \cup {<<"buffer", c>> : c \in {d \in chans : v \in Elems(buf[d])}}

\* An element that is an owned handle always has exactly one owner, from its
\* send to its release: it is neither leaked nor released under somebody who
\* still has it.  An element that is a plain word is never released.
OneOwner ==
    /\ \A v \in Handles : IF v \in fresh \cup released THEN Owners(v) = {}
                          ELSE \E o \in Owners(v) : Owners(v) = {o}
    /\ released \subseteq Handles

\* internals.md, "Join and abandonment": "Abandoning background goroutines at
\* `main` exit is therefore leak-free".  Once every abandoned future has been
\* torn down no handle is left in the registry.
AbandonLeakFree ==
    (stopped /\ \A g \in cleaning : held[g] = {} /\ \A c \in Chans : g \notin refs[c])
        => Handles = fresh \cup released

\* The values a channel has accepted and not delivered, oldest first.
Undelivered(c) == buf[c] \o [i \in 1..Len(senders[c]) |-> slot[senders[c][i]].send]

Inbox == [g \in Gids |-> IF g \in on THEN tls[g].recv
                         ELSE IF g \in table \ done THEN slot[g].recv ELSE Null]

Queues == [c \in Chans |-> Undelivered(c)]

Fifo == INSTANCE FifoChannel WITH
    Receivers <- Gids, Elements <- Values, queue <- Queues, inbox <- Inbox

\* Values are received in the order in which they were sent and each by one
\* receiver, whether they went through the buffer, from a parked sender
\* (chan_recv) or straight to a parked receiver (chan_send).
ImplementsFifo == Fifo!FifoSpec
=============================================================================
