------------------------------- MODULE Tasks -------------------------------
(***************************************************************************)
(* Goroutines as compiled code sees them: spawning (ntask_go), the task    *)
(* stack of sub-futures (ASYNC_TASKS, ASYNC_STACKS of lib.rs), the turns   *)
(* of the scheduler (drive) and the channel operations at the end of a     *)
(* turn (chan_send, chan_recv, chan_close), one worker at a time.          *)
(*                                                                         *)
(* rt is [gs, cur, root, tasks, stacks, depth, wait, closed, ended, cap]:  *)
(* the goroutines, the one being polled (0: none), the one that runs main, *)
(* the thread's task stack and its saved ones, the depth of the stack when *)
(* the poll began, the parked goroutines in the order they parked, the     *)
(* closed channels, the futures that are complete and the capacity of the  *)
(* channels.  A future is a cell whose rc is its state.                    *)
(***************************************************************************)
EXTENDS Heap

\* A task is a poll function and the future to poll.
Task(h, v, poll) == [f |-> (IF h.cells[v].k = "op" THEN "op" ELSE h.cells[v].n) \o poll, v |-> v]

\* spawn_goroutine, spawn_runnable; the runtime polls the root future by itself.
Spawn(h, v, poll) ==
  LET g == [tasks |-> <<Task(h, v, poll)>>, fut |-> v, st |-> "ready", park |-> "",
            chan |-> 0, send |-> 0, got |-> 0, ok |-> FALSE, exc |-> 0]
  IN [h EXCEPT !.rt.gs = Append(@, g), !.rt.root = IF poll = ".poll" THEN Len(h.rt.gs) + 1 ELSE @]

\* ntsc_async_push
PushTask(h, v, poll) == [h EXCEPT !.rt.tasks = Append(@, Task(h, v, poll))]

\* save_async_context and the branches of wait_any and wait_all: the first on the
\* new stack, the second on a saved one; restore_async_context takes one back.
Branches(h, a, b) ==
  [h EXCEPT !.rt.stacks = @ \o <<h.rt.tasks, <<Task(h, b, ".poll")>> >>,
            !.rt.tasks = <<Task(h, a, ".poll")>>]
RestoreContext(h) ==
  IF h.rt.stacks = <<>> THEN h
  ELSE [h EXCEPT !.rt.tasks = Last(h.rt.stacks), !.rt.stacks = Front(@)]

\* The two task stacks of wait_any and wait_all: the active one, and the last
\* one saved.
TasksOf(h, active) ==
  CASE active -> h.rt.tasks
    [] h.rt.stacks = <<>> -> <<>>
    [] OTHER -> Last(h.rt.stacks)
PopTask(h, active) ==
  LET ts == TasksOf(h, active) IN
  CASE ts = <<>> -> h
    [] active -> [h EXCEPT !.rt.tasks = Front(ts)]
    [] OTHER  -> [h EXCEPT !.rt.stacks = Append(Front(@), Front(ts))]

\* Storage and, of a future, the sub-futures that share it.
RECURSIVE KillFuture(_, _)
KillFuture(h, v) ==
  Fold(LAMBDA g, x : IF x > 0 /\ g.cells[x].k = "fut" /\ g.cells[x].live THEN KillFuture(g, x) ELSE g,
       Kill(h, v), h.cells[v].kids)

\* ---- Channels -----------------------------------------------------------
Got(h, g, v, ok) == [h EXCEPT !.rt.gs[g].got = v, !.rt.gs[g].ok = ok, !.rt.gs[g].st = "ready"]
Sent(h, g)       == [h EXCEPT !.rt.gs[g].send = 0, !.rt.gs[g].st = "ready"]
Parked(h, c, op) == SelectSeq(h.rt.wait, LAMBDA g : h.rt.gs[g].chan = c /\ h.rt.gs[g].park = op)
Leave(h, gs)     == [h EXCEPT !.rt.wait = SelectSeq(@, LAMBDA g : g \notin gs)]
Wait(h, g)       == [h EXCEPT !.rt.wait = Append(@, g), !.rt.gs[g].st = "parked"]

\* park_chan_send, park_chan_recv: what the turn is to end with.
Park(h, c, v, op) ==
  LET g == h.rt.cur IN
  CASE ~Live(h, c, "chan") -> Touch(h, c)
    [] op = "send" -> [h EXCEPT !.rt.gs[g].park = op, !.rt.gs[g].chan = c, !.rt.gs[g].send = v]
    [] OTHER -> [h EXCEPT !.rt.gs[g].park = op, !.rt.gs[g].chan = c, !.rt.gs[g].got = 0, !.rt.gs[g].ok = FALSE]

\* chan_send: released when the channel is closed, handed to the first parked
\* receiver, buffered, or parked.
ChanSend(h, g, c) ==
  LET v  == h.rt.gs[g].send
      rs == Parked(h, c, "recv")
  IN CASE ~h.cells[c].live -> Sent(h, g)
       [] c \in h.rt.closed -> Sent(IF h.cells[c].n = "owns" THEN RemoveId(h, v) ELSE h, g)
       [] rs # <<>> -> Sent(Got(Leave(h, {rs[1]}), rs[1], v, TRUE), g)
       [] Len(h.cells[c].kids) < h.rt.cap -> Sent([h EXCEPT !.cells[c].kids = Append(@, v)], g)
       [] OTHER -> Wait(h, g)

\* chan_recv: the first value buffered, whose place the first parked sender
\* takes; that sender's value; the zero value of a closed channel; or parked.
ChanRecv(h, g, c) ==
  LET ks == h.cells[c].kids
      ss == Parked(h, c, "send")
      sv == h.rt.gs[ss[1]].send
      from(x) == Sent(Leave(x, {ss[1]}), ss[1])
  IN CASE ~h.cells[c].live -> Got(h, g, 0, FALSE)
       [] ks # <<>> /\ ss = <<>> -> Got([h EXCEPT !.cells[c].kids = Tail(@)], g, ks[1], TRUE)
       [] ks # <<>> -> Got(from([h EXCEPT !.cells[c].kids = Append(Tail(@), sv)]), g, ks[1], TRUE)
       [] ss # <<>> -> Got(from(h), g, sv, TRUE)
       [] c \in h.rt.closed -> Got(h, g, 0, FALSE)
       [] OTHER -> Wait(h, g)

\* chan_close: parked receivers take what is buffered or the zero value, parked
\* senders are let go and their values released.
ChanClose(h, c) ==
  LET rs == Parked(h, c, "recv")
      ss == Parked(h, c, "send")
      recv(x, g) == IF x.cells[c].kids = <<>> THEN Got(x, g, 0, FALSE)
                    ELSE Got([x EXCEPT !.cells[c].kids = Tail(@)], g, Head(x.cells[c].kids), TRUE)
      send(x, g) == Sent(IF x.cells[c].n = "owns" THEN RemoveId(x, x.rt.gs[g].send) ELSE x, g)
  IN IF c <= 0 \/ c \in h.rt.closed \/ ~h.cells[c].live THEN Touch(h, c)
     ELSE Fold(send, Fold(recv, Leave([h EXCEPT !.rt.closed = @ \cup {c}], Range(rs) \cup Range(ss)), rs), ss)

\* Mutant: only the topmost task is installed.
InstallTop(h, g) ==
  [h EXCEPT !.rt.cur = g, !.rt.tasks = <<Last(h.rt.gs[g].tasks)>>, !.rt.depth = 1, !.rt.gs[g].park = ""]

\* ---- A turn of the scheduler ---------------------------------------------
\* drive: the goroutine's tasks become the thread's, the topmost is polled.
Install(h, g) ==
  LET ts == h.rt.gs[g].tasks
  IN [h EXCEPT !.rt.cur = g, !.rt.tasks = ts, !.rt.depth = Len(ts), !.rt.gs[g].park = ""]

\* poll_async_tasks_once after the poll that returned r, and the rest of drive:
\* a goroutine without tasks is done, one without a park is ready again.
Settle(h, r) ==
  LET g  == h.rt.cur
      ts == h.rt.tasks
      left == IF r = 1 /\ Len(ts) = h.rt.depth THEN Front(ts) ELSE ts
      h1 == [h EXCEPT !.rt.cur = 0, !.rt.tasks = <<>>, !.rt.gs[g].tasks = left]
      x  == h.rt.gs[g]
  IN CASE left = <<>> -> [h1 EXCEPT !.rt.gs[g].st = "done", !.rt.gs[g].exc = h.pend, !.pend = 0]
       [] x.park = "send" -> ChanSend(h1, g, x.chan)
       [] x.park = "recv" -> ChanRecv(h1, g, x.chan)
       [] OTHER -> h1

\* An operation of the runtime at the top of a goroutine's tasks completes: its
\* next poll returns 1.
CompleteOp(h, v) ==
  LET g == New(h, "str", "", <<>>) IN
  IF h.cells[v].n \in {"sleep", "net.accept_async"} THEN h
  ELSE [g EXCEPT !.cells[v].kids = <<Fresh1(g)>>]
=============================================================================
