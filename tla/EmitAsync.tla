----------------------------- MODULE EmitAsync -----------------------------
(***************************************************************************)
(* Async functions as state machines (emit/async_sm.rs, with the pre-pass  *)
(* of emit/module.rs).  The body is cut at its suspensions into segments,  *)
(* the cases of a switch on the future's state in one poll function.       *)
(*                                                                         *)
(* Slot 1 of a function of a future is the future's address; "loadfut" and *)
(* "savefut" stand for the accesses to its fields, slot k + 1 for field k. *)
(* A poll returns 1 when the future is complete, 0 when it is not.         *)
(***************************************************************************)
EXTENDS EmitExpr

\* A context whose slots are the fields of fl.
FutureContext(env, fl) ==
  [NewContext(env, VoidT, {}, {}) EXCEPT !.slots = <<FutT(fl.n)>> \o fl.tys,
     !.poll = TRUE, !.checks = FALSE, !.fields = fl.fields, !.blocks = fl.names]

SetState(cx, k)  == Put(cx, "state", <<k>>, IntT)
PollRet(cx, k)   == LET c == Put(cx, "savefut", <<>>, VoidT) IN
                    IF k = 0 THEN Ret(c, 0) ELSE LET d == Get(c, "one", <<>>, IntT, "") IN Ret(d, d.v.r)
Suspend(cx, k)   == PollRet(SetState(cx, k), 0)

\* emit_async_return: into the result, and to the state past the last segment.
AsyncReturn(cx, fl) ==
  PollRet(SetState(IF fl.ret = VoidT THEN cx ELSE StoreTo(cx, fl.res), Len(fl.susp) + 1), 1)

\* Argument i of a future: a channel is retained; a variable moved is cleared.
SetArg(cx, fut, i, v, e) == SetField1(RetainChan([cx EXCEPT !.v = v], e), fut, i, v.r)
MoveIf(moves, cx, e, ty) ==
  IF moves THEN Put(cx, "moved", <<cx.vars[e.n].slot>>, ty) ELSE cx

\* ---- Await --------------------------------------------------------------
\* emit_await_suspend: an operation of the runtime is started, or the future of
\* the callee made, with the arguments as they are; it is polled before this
\* future is again.  cx.v is the new future, p the context after the arguments
\* and their values.
StartOp(p, x) == StoreTo(Get(p[1], "newop", [i \in DOMAIN p[2] |-> p[2][i].r], OpT, x.child), x.slot)
StartChild(p, fut, es) ==
  [Fold(LAMBDA c, i : SetArg(c, fut.r, i, p[2][i], es[i]), p[1], [i \in DOMAIN es |-> i])
     EXCEPT !.v = fut]
NewChild(cx, x) ==
  IF x.kind # "await" \/ x.child \in DOMAIN OpTy THEN cx
  ELSE StoreTo(NewFuture(cx, x.child), x.slot)
StartAwaited(cx, x, es, p) ==
  IF x.child \in DOMAIN OpTy THEN StartOp(p, x) ELSE StartChild(p, cx.v, es)
SuspendOn(cx, k) == Suspend(Do(cx, "pushtask", <<cx.v.r>>, VoidT, ".poll"), k)
AwaitSuspend(cx, k, x, es, p) == SuspendOn(StartAwaited(cx, x, es, p), k)

\* What becomes of the value awaited.  Only a string of the runtime's is
\* dropped when no one wants it.
Deliver(cx, fl, s, op) ==
  LET v  == cx.v
      ty == IF s.ty = NoTy THEN v.ty ELSE s.ty
      a  == Alloca(cx, s.n, ty)
      d  == Coerce(DefineVar(a, s.n, NewSlot(a), ty), ty)
  IN CASE s.k = "Expression" -> IF op THEN DropValue(cx, v) ELSE cx
       [] s.k = "Var"        -> StoreTo(d, NewSlot(a))
       [] OTHER              -> AsyncReturn(Coerce(cx, fl.ret), fl)

\* emit_await_resume: the result of an operation is taken before it is dropped,
\* that of a child follows the child's parameters.
ResumeOp(cx, fl, x, s) ==
  LET c == Get(cx, "load", <<x.slot>>, IntT, "")
      done(d) == StoreNull(Put(d, "dropop", <<c.v.r>>, OpT), x.slot)
  IN CASE x.child # "sleep"    -> Deliver(done(Get(c, "opres", <<c.v.r>>, x.ty, "")), fl, s, TRUE)
       [] s.k = "Expression" -> done(c)
       [] OTHER -> Bad(cx, "sleep has no value")
ResumeChild(cx, fl, x, s) ==
  LET c == Get(cx, "load", <<x.slot>>, IntT, "")
  IN Deliver(TakeResult(c, c.v.r, cx.env.fut[x.child].res - 1, x.ty), fl, s, FALSE)
AwaitResume(cx, fl, x, s) ==
  IF x.child \in DOMAIN OpTy THEN ResumeOp(cx, fl, x, s) ELSE ResumeChild(cx, fl, x, s)

\* ---- Channels -----------------------------------------------------------
\* emit_chan_suspend: the operation is registered with the scheduler, which
\* performs it once the poll has returned.  A variable sent is cleared.  p has
\* the channel and the value sent, if any.
Cleared(cx, e) ==
  MoveIf(IsVar(e) /\ OwnedHandle(cx.v.ty) /\ e.n \in DOMAIN cx.vars, cx, e, cx.v.ty)
ChanSuspend(k, es, p) ==
  LET ch == p[2][1] IN
  Suspend(IF Len(es) = 1 THEN Do(p[1], "park", <<ch.r>>, ch.ty, "recv")
          ELSE Do(Cleared(p[1], es[2]), "park", <<ch.r, p[2][2].r>>, ch.ty, "send"), k)

\* emit_chan_resume: a receiver takes its value over from the last one; the
\* loop over a channel suspends in the same state after each pass.
TakeReceived(cx, ty) == StoreTo(DropReplaced(cx, NewSlot(cx), ty, cx.v), NewSlot(cx))
TakeInto(cx, x, ty)  == TakeReceived(Coerce(DefineVar(cx, x, NewSlot(cx), ty), ty), ty)
Received(cx, x, ty)  == TakeInto(Alloca(Get(cx, "recvres", <<>>, ty, ""), x, ty), x, ty)
\* ---- The poll function ---------------------------------------------------
\* A return at the top level of the body: cx.v is the value.
SegmentReturn(cx, fl, e) ==
  AsyncReturn(IF IsNone(e) THEN Val(cx, 0, VoidT) ELSE Cleared(Coerce(cx, fl.ret), e), fl)
AfterStmt(cx, fl, s) == IF s.k = "Return" THEN SegmentReturn(cx, fl, s.c[1]) ELSE cx
\* Every field of a native type but the result is a variable of a segment.
Entered(cx, fl) ==
  [cx EXCEPT !.vars = [x \in DOMAIN fl.fields \ {"result"} |->
                         [slot |-> fl.fields[x], ty |-> fl.tys[fl.fields[x] - 1]]],
             !.owned = {}, !.shadowed = <<>>, !.loops = <<>>, !.handlers = <<>>, !.excRet = 0,
             !.named = TRUE]
\* The statements of segment k, and what the suspension after them evaluates.
Between(fl, k) == SubSeq(fl.body, IF k = 0 THEN 1 ELSE fl.susp[k].at + 1,
                         IF k = Len(fl.susp) THEN Len(fl.body) ELSE fl.susp[k + 1].at - 1)
Operands(x, s) ==
  CASE x.kind = "await" -> Tail(AwaitOf(s).c)
    [] x.kind = "send"  -> <<ChanExpr(s), s.c[1].c[2]>>
    [] OTHER            -> <<ChanExpr(s)>>
SuspendWith(cx, x, k, es, p) ==
  IF x.kind = "await" THEN AwaitSuspend(cx, k, x, es, p) ELSE ChanSuspend(k, es, p)
EndSegment(cx, finish) == IF cx.excRet = 0 THEN cx ELSE Br(At(cx, cx.excRet), finish)

\* The entry of a poll, and its end: a body that falls off has the default
\* result.
Dispatch(cx, n) ==
  Term(Blocks(Put(cx, "loadfut", <<>>, VoidT), n + 3), "switch", <<>>,
       [k \in 1..(n + 1) |-> k + 3] \o <<2, 3>>)
Finish(cx, fl)  ==
  PollRet(At(PollRet(IF fl.ret = VoidT THEN cx ELSE StoreNull(cx, fl.res), 1), 3), 1)

\* emit_async_drop: parameters and locals, not the result; then operations and
\* children, whether they have been awaited or not.
EmitFutureDrop(env, fl) ==
  LET one(c, i) ==
        LET t == fl.tys[i]
            l == Get(c, "load", <<i + 1>>, t, "")
        IN CASE t.k = "op"  -> StoreNull(Put(l, "dropop", <<l.v.r>>, OpT), i + 1)
             [] t.k = "fut" -> Do(l, "call", <<l.v.r>>, VoidT, t.n \o ".drop")
             [] i + 1 = fl.res \/ ~OwnedHandle(t) -> c
             [] OTHER -> StoreNull(DropSlot(c, i + 1, t), i + 1)
      c0 == Put([FutureContext(env, fl) EXCEPT !.named = FALSE], "loadfut", <<>>, VoidT)
  IN Ret(Put(Fold(one, c0, [i \in DOMAIN fl.tys |-> i]), "savefut", <<>>, VoidT), 0)

\* ---- Goroutines -----------------------------------------------------------
\* emit_goroutine_trampoline: the goroutine's future goes with its last poll.
EmitTrampoline(env, f) ==
  LET c0 == [NewContext(env, VoidT, {}, {}) EXCEPT !.slots = <<FutT(f)>>]
      c1 == Get(c0, "load", <<1>>, IntT, "")
      c2 == Get(c1, "call", <<c1.v.r>>, IntT, f \o ".poll")
      c3 == At(CondBr(Blocks(c2, 2), "one", c2.v.r, 2, 3), 2)
      c4 == Br(Do(c3, "call", <<c1.v.r>>, VoidT, f \o ".go_cleanup"), 3)
  IN Ret(At(c4, 3), c2.v.r)

\* get_or_create_goroutine_cleanup
EmitCleanup(env, f) ==
  LET c0 == [NewContext(env, VoidT, {}, {}) EXCEPT !.slots = <<FutT(f)>>]
      c1 == Get(c0, "load", <<1>>, IntT, "")
      c2 == At(CondBr(Blocks(c1, 2), "null", c1.v.r, 3, 2), 2)
      c3 == Do(c2, "call", <<c1.v.r>>, VoidT, f \o ".drop")
  IN Ret(At(Br(Put(c3, "free", <<c1.v.r>>, VoidT), 3), 3), 0)

\* emit_async_main_wrapper: the root future lives in the wrapper's frame.
EmitMainWrapper(env, fl) ==
  LET c0 == StackFuture(NewContext(env, VoidT, {}, {}), "main")
      f  == c0.v.r
      c1 == Do(c0, "call", <<f>>, VoidT, "ntsc_async_run")
      c2 == IF fl.ret = VoidT THEN Val(c1, 0, VoidT) ELSE TakeResult(c1, f, fl.res - 1, fl.ret)
  IN Ret(Do(c2, "call", <<f>>, VoidT, "main.drop"), c2.v.r)

\* collect_go_statements: not within a go block.
RECURSIVE GoStmts(_)
GoStmts(s) == CASE s.k = "Go" -> <<s>>
                [] s.k = "Retry" -> GoStmts(s.c[2])
                [] s.k \in StmtKinds -> FlattenSeq([i \in DOMAIN s.c |-> GoStmts(s.c[i])])
                [] OTHER -> <<>>

\* ty_to_annotation: the captured types a goroutine's future can own.
RECURSIVE Captured(_)
Captured(t) == CASE t.k \in {"int", "float", "bool", "str"} -> t
                 [] t.k \in {"array", "chan"} -> Of(t.k, Captured(Inner(t)))
                 [] OTHER -> AnyT

\* The pre-pass: the callee or, as a function of what it captures, the block
\* (emit_go_block_future) of a go statement, with its trampoline.
AddGoroutine(go, m, f) ==
  IF ~go THEN m
  ELSE [m EXCEPT !.code = (f \o ".go_poll" :> EmitTrampoline(m.env, f))
                          @@ (f \o ".go_cleanup" :> EmitCleanup(m.env, f)) @@ @]
GoCallee(env, s) ==
  LET call == IsNone(s.c[2])
      f    == s.c[1].c[1].n
      param(i) == [s.c[i] EXCEPT !.ty = Captured(@)]
      block == Node("AsyncFunction", s.n, NoTy, [i \in 1..(Len(s.c) - 2) |-> param(i + 2)] \o <<s.c[2]>>)
  IN CASE ~call -> <<block>> [] call /\ f \in DOMAIN env.async -> <<env.async[f]>> [] OTHER -> <<>>

\* emit_module with async functions: the callees of go statements, then the
\* statements in source order.
GoCallees(env, prog) ==
  LET go == FlattenSeq([i \in DOMAIN prog |-> GoStmts(prog[i])])
      fs == FlattenSeq([i \in DOMAIN go |-> GoCallee(env, go[i])])
  IN [i \in DOMAIN fs |-> [fs[i] EXCEPT !.k = "GoCallee"]]
=============================================================================
