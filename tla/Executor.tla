------------------------------ MODULE Executor ------------------------------
(***************************************************************************)
(* A compiled program with goroutines, run by one worker: main waits in    *)
(* ntsc_async_run while the goroutines take turns, a turn being one poll   *)
(* of drive; when main has returned, shutdown runs the cleanup of every    *)
(* goroutine that is not done.  The functions of the runtime that call     *)
(* polls are code of the Machine, built with the operators of the emitter. *)
(***************************************************************************)
EXTENDS Machine, EmitStmt

Routine(n) == Blocks([NewContext(<<>>, VoidT, {}, {}) EXCEPT !.slots = <<IntT, IntT, IntT, IntT>>], n)
Load(cx, s) == Get(cx, "load", <<s>>, IntT, "")
\* Poll the topmost task of the first or second branch: done to b, else to c.
PollBranch(cx, s, b, c) ==
  LET d == Get(cx, "callpoll", <<s>>, IntT, "") IN CondBr(d, "one", d.v.r, b, c)
IfNone(cx, s, b, c)  == Term(cx, "notask", <<s>>, <<b, c>>)
IfUnset(cx, s, b, c) == Term(cx, "first", <<s>>, <<b, c>>)

\* ntsc_async_run: ntask_go, then ntask_join, which hands the exception over.
AsyncRun ==
  LET c1 == Load(Routine(2), 1)
      c2 == Br(Do(c1, "spawn", <<c1.v.r>>, VoidT, ".poll"), 2)
      c3 == Term(At(c2, 2), "join", <<>>, <<3>>)
  IN Ret(Put(At(c3, 3), "rearm", <<>>, VoidT), 0)

\* ntsc_async_wait_any: the branches are polled in turn, the first to return 1
\* decides; 0 when a branch has no task.
WaitAny ==
  LET back(cx, s) == LET c == Load(Put(Put(cx, "poptask", <<s>>, VoidT), "restore", <<>>, VoidT), s)
                     IN Ret(c, c.v.r)
      c1 == Br(Put(Routine(7), "branches", <<1, 2>>, VoidT), 2)
      c2 == PollBranch(At(IfNone(At(c1, 2), 1, 8, 3), 3), 1, 4, 5)
      c3 == PollBranch(At(IfNone(At(back(At(c2, 4), 1), 5), 2, 8, 6), 6), 2, 7, 2)
  IN Ret(Put(At(back(At(c3, 7), 2), 8), "restore", <<>>, VoidT), 0)

\* ntsc_async_wait_all: slots 3 and 4 say which branch is done.  A poll that
\* returns 1 has pushed no task.
WaitAll ==
  LET branch(cx, b, s) ==
        LET c1 == IfUnset(At(cx, b), s + 2, b + 1, b + 4)
            c2 == IfNone(At(c1, b + 1), s, b + 3, b + 2)
            c3 == PollBranch(At(c2, b + 2), s, b + 3, b + 4)
        IN Br(Put(Put(At(c3, b + 3), "poptask", <<s>>, VoidT), "inc", <<s + 2>>, IntT), b + 4)
      c1 == Br(Put(Routine(11), "branches", <<1, 2>>, VoidT), 2)
      c2 == branch(branch(c1, 2, 1), 6, 2)
      c3 == IfUnset(At(IfUnset(At(c2, 10), 3, 2, 11), 11), 4, 2, 12)
      c4 == Load(Put(At(c3, 12), "restore", <<>>, VoidT), 2)
  IN Ret(c4, c4.v.r)

\* The poll of an operation of the runtime by wait_any and wait_all: it may have
\* completed or not.
OpPoll ==
  LET c1 == Term(Routine(2), "any", <<>>, <<2, 3>>)
      c2 == Get(Put(At(Ret(At(c1, 2), 0), 3), "complete", <<1>>, VoidT), "one", <<>>, IntT, "")
  IN Ret(c2, c2.v.r)

\* emit_c_main: the program, and shutdown.
CMain ==
  LET c1 == Term(Get(Routine(2), "call", <<>>, IntT, "__ntsc_user_main"), "exit", <<>>, <<2>>)
  IN Ret(At(Term(At(c1, 2), "reap", <<>>, <<3>>), 3), 0)

Runtime == ("ntsc_async_run" :> AsyncRun) @@ ("ntsc_async_wait_any" :> WaitAny)
           @@ ("ntsc_async_wait_all" :> WaitAll) @@ ("op.poll" :> OpPoll) @@ ("main" :> CMain)

\* ---- Turns ---------------------------------------------------------------
Waiting(b, ks) == Running /\ AtEnd(b) /\ b.term.k \in ks

\* drive: a turn begins.  An operation on top is polled when it has completed.
Drive(lib, b) ==
  /\ Waiting(b, {"join", "exit"}) /\ heap.rt.cur = 0
  /\ \E g \in DOMAIN heap.rt.gs :
       LET t == Last(heap.rt.gs[g].tasks)
           h == Install(heap, g)
       IN /\ heap.rt.gs[g].st = "ready"
          /\ \/ /\ t.f # "op.poll"
                /\ stack' = Append(stack, Frame(lib, t.f, <<t.v>>, 1)) /\ heap' = h
             \/ /\ t.f = "op.poll"
                /\ heap' = Settle(CompleteOp(h, t.v), 1) /\ stack' = stack

\* The turn ends.
EndTurn(b) ==
  /\ Waiting(b, {"join", "exit"}) /\ heap.rt.cur # 0
  /\ heap' = Settle(heap, Top.regs[1]) /\ stack' = stack

\* shutdown: the exceptions nobody took, and the futures of goroutines that are
\* not done.  What such a goroutine had to send or was handed is not released.
Reap(lib, b) ==
  /\ Waiting(b, {"reap"})
  /\ \E g \in DOMAIN heap.rt.gs :
       LET x == heap.rt.gs[g]
           h == [RemoveId(heap, x.exc) EXCEPT !.rt.gs[g].st = "gone"]
       IN /\ x.st # "gone"
          /\ heap' = h
          /\ stack' = IF x.st = "done" THEN stack
                      ELSE Append(stack, Frame(lib, heap.cells[x.fut].n \o ".go_cleanup", <<x.fut>>, 1))

Turn(lib, b) == (Drive(lib, b) \/ EndTurn(b) \/ Reap(lib, b)) /\ UNCHANGED code
=============================================================================
