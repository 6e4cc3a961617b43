---------------------------- MODULE FifoChannel -----------------------------
(***************************************************************************)
(* What channels promise their users: each is one queue of values,         *)
(* received in the order they were sent, each by one receiver.  Buffer,    *)
(* parked senders and parked receivers are shown to implement it (see      *)
(* Channels).                                                              *)
(***************************************************************************)
EXTENDS Naturals, Sequences

CONSTANTS Chans, Receivers, Elements, Null

VARIABLES queue,   \* sent on each channel and not yet received
          inbox    \* what each goroutine has received and not yet looked at

fifoVars == <<queue, inbox>>

FifoInit == queue = [c \in Chans |-> <<>>] /\ inbox = [r \in Receivers |-> Null]

Put(c, v) == queue' = [queue EXCEPT ![c] = Append(@, v)] /\ UNCHANGED inbox

Get(c, r) ==
    /\ queue[c] # <<>> /\ inbox[r] = Null
    /\ inbox' = [inbox EXCEPT ![r] = Head(queue[c])]
    /\ queue' = [queue EXCEPT ![c] = Tail(@)]

\* A value that meets a waiting receiver overtakes nothing.
PutGet(c, r, v) ==
    /\ queue[c] = <<>> /\ inbox[r] = Null
    /\ inbox' = [inbox EXCEPT ![r] = v]
    /\ UNCHANGED queue

Look(r) == inbox' = [inbox EXCEPT ![r] = Null] /\ UNCHANGED queue

\* A sender that has not been served is dropped, and takes its value along.
Withdraw(c, i) ==
    /\ queue' = [queue EXCEPT ![c] = SubSeq(@, 1, i - 1) \o SubSeq(@, i + 1, Len(@))]
    /\ UNCHANGED inbox

\* Closing turns the newest values away, dropping the channel all of them.
Discard(c, n) == queue' = [queue EXCEPT ![c] = SubSeq(@, 1, n)] /\ UNCHANGED inbox

FifoNext ==
    \/ \E r \in Receivers : Look(r)
    \/ \E c \in Chans :
        \/ \E v \in Elements : Put(c, v)
        \/ \E r \in Receivers : Get(c, r) \/ \E v \in Elements : PutGet(c, r, v)
        \/ \E i \in 1..Len(queue[c]) : Withdraw(c, i)
        \/ \E n \in 0..Len(queue[c]) : Discard(c, n)

FifoSpec == FifoInit /\ [][FifoNext]_fifoVars
=============================================================================
