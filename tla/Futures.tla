------------------------------ MODULE Futures ------------------------------
(***************************************************************************)
(* The future of an async function (emit/async_sm.rs): which names of its  *)
(* body become fields, where it suspends, and what is awaited there.       *)
(*                                                                         *)
(* env.async gives the async functions of the program, env.fut the layouts *)
(* of the futures declared so far.                                         *)
(***************************************************************************)
EXTENDS DropRules

RetTy(f)  == IF f.ty = NoTy THEN VoidT ELSE f.ty
Params(f) == Front(f.c)
Body(f)   == Last(f.c).c

\* expr_to_literal_ty
Literals     == {"Str", "Num", "Bool", "ArrayLiteral"}
LiteralTy(e) == CASE e.k = "Str" -> StrT [] e.k = "Num" -> IntT [] e.k = "Bool" -> BoolT
                  [] e.k = "ArrayLiteral" -> ArrT(AnyT) [] OTHER -> AnyT

\* RuntimeFutureKind: what the runtime completes by itself, and its result.
OpTy == ("sleep" :> VoidT) @@ ("net.accept_async" :> IntT) @@ ("net.recv_line_async" :> StrT)
        @@ ("http.get_async" :> StrT)

\* await_stmt_parts, chan_target_ty: the suspension a statement is, if any.
AwaitOf(s) == IF s.k \in {"Expression", "Var", "Return"} /\ s.c[1].k = "Await" THEN s.c[1] ELSE None
ChanOp(s)  == CASE s.k = "Expression" /\ s.c[1].k = "ChanSend" -> "send"
                [] s.k = "Expression" /\ s.c[1].k = "ChanRecv" -> "recv"
                [] s.k = "ChanRecvFor" -> "loop"
                [] OTHER -> ""
Suspends(s) == ~IsNone(AwaitOf(s)) \/ ChanOp(s) # ""

\* chan_stmt_channel and chan_stmt_receiver; the node of a receive carries the
\* element type the type checker recorded for it.
ChanExpr(s) == IF s.k = "ChanRecvFor" THEN s.c[1] ELSE s.c[1].c[1]
Receiver(s) == IF s.k = "ChanRecvFor" THEN s ELSE s.c[1]

\* await_callee_info, the callees with a name: modules but `async' are part of
\* it.
CalleeName(e) ==
  LET f == e.c[1] IN
  CASE IsVar(f) -> f.n
    [] f.k = "Member" -> IF f.c[1].n = "async" THEN f.n ELSE f.c[1].n \o "." \o f.n
    [] OTHER -> ""

\* async_local_ty: the slot of a variable without annotation.  The network's
\* operations are not among the initializers it knows.
LocalTy(env, s) ==
  LET e == s.c[1]
      f == IF e.k = "Await" THEN CalleeName(e) ELSE ""
  IN CASE s.ty # NoTy         -> s.ty
       [] e.k \in Literals    -> LiteralTy(e)
       [] e.k = "Await" /\ e.c[1].k = "AsyncBlock" -> RetTy(e.c[1])
       [] f \in DOMAIN env.async -> RetTy(env.async[f])
       [] f = "http.get_async" -> StrT
       [] OTHER -> VoidT

\* collect_async_locals: names and types, in order, at any depth.
RECURSIVE Locals(_, _)
Locals(env, s) ==
  LET each(ss) == FlattenSeq([i \in DOMAIN ss |-> Locals(env, ss[i])])
      any(x)   == <<[n |-> x, ty |-> AnyT]>>
  IN CASE s.k = "Var"         -> <<[n |-> s.n, ty |-> LocalTy(env, s)]>>
       [] s.k = "Destructure" -> [i \in 1..(Len(s.c) - 1) |-> [n |-> s.c[i + 1].n, ty |-> AnyT]]
       [] s.k \in {"ForIn", "ForAwait", "ChanRecvFor"} -> any(s.n) \o Locals(env, s.c[2])
       [] ChanOp(s) = "recv"  -> any(s.c[1].n)
       [] s.k = "Retry"       -> Locals(env, s.c[2])
       [] s.k \in {"Block", "If", "While", "DoWhile", "For", "Match", "Try", "Unsafe", "Quiet"} ->
            each(s.c)
       [] OTHER -> <<>>

\* flatten_top_level_blocks
RECURSIVE TopLevel(_)
TopLevel(ss) == FlattenSeq([i \in DOMAIN ss |->
                  IF ss[i].k = "Block" THEN TopLevel(ss[i].c) ELSE <<ss[i]>>])

\* collect_standalone_async_blocks, collect_expr_async_blocks: blocks as
\* values, as branches of wait_any and wait_all, and, once more, what is
\* awaited; not in an elif.
Waits == {"wait_any", "wait_all"}
RECURSIVE Standalone(_)
Standalone(s) ==
  LET all(c) == FlattenSeq([i \in DOMAIN c |-> Standalone(c[i])])
  IN CASE s.k = "AsyncBlock" -> <<s>>
       [] s.k = "Call" -> IF s.c[1].n \in Waits THEN all(Tail(s.c)) ELSE <<>>
       [] s.k = "If"   -> all(<<s.c[1], s.c[2], Last(s.c)>>)
       [] s.k \in {"ForIn", "ForAwait"} -> Standalone(s.c[2])
       [] s.k \in {"Await", "Expression", "Var", "Return", "Block", "While", "For", "Try"} -> all(s.c)
       [] OTHER -> <<>>

\* build_async_layout.  Field k of the future is slot k + 1 of its code, after
\* the state; the anonymous blocks are numbered per function.
AnonName(k) == "__anon_async_" \o ToString(k)
OpT         == T("op")
FutT(f)     == Ty("fut", f, <<>>)

\* The fields with a name: parameters, result, locals; the first type counts.
NamedFields(env, f, body) ==
  LET add(fs, x) == IF \E i \in DOMAIN fs : fs[i].n = x.n THEN fs ELSE Append(fs, x)
      params == [i \in DOMAIN Params(f) |-> [n |-> Params(f)[i].n, ty |-> Params(f)[i].ty]]
  IN Fold(add, Append(params, [n |-> "result", ty |-> RetTy(f)]),
          FlattenSeq([i \in DOMAIN body |-> Locals(env, body[i])]))

\* The suspensions in statement order: [at, kind, child, ty, slot].
Suspensions(env, body, base) ==
  LET at    == SelectSeq([i \in DOMAIN body |-> i], LAMBDA i : Suspends(body[i]))
      aw(i) == AwaitOf(body[at[i]])
      nth(i, P(_)) == Cardinality({j \in 1..i : P(aw(j))})
      block(e) == ~IsNone(e) /\ e.c[1].k = "AsyncBlock"
      child(i) == IF block(aw(i)) THEN AnonName(nth(i, block)) ELSE CalleeName(aw(i))
      ty(i)    == CASE block(aw(i))                 -> RetTy(aw(i).c[1])
                    [] child(i) \in DOMAIN OpTy      -> OpTy[child(i)]
                    [] child(i) \in DOMAIN env.async -> RetTy(env.async[child(i)])
                    [] OTHER -> NoTy
  IN [i \in DOMAIN at |->
        IF IsNone(aw(i))
        THEN [at |-> at[i], kind |-> ChanOp(body[at[i]]), child |-> "", slot |-> 0,
              ty |-> Receiver(body[at[i]]).ty]
        ELSE [at |-> at[i], kind |-> "await", child |-> child(i), ty |-> ty(i),
              slot |-> base + 1 + nth(i, LAMBDA e : ~IsNone(e))]]

AwaitedBlocks(body, awaits) ==
  SelectSeq([i \in DOMAIN awaits |-> AwaitOf(body[awaits[i].at]).c[1]], LAMBDA b : b.k = "AsyncBlock")
\* A receiver's slot takes the element type of its channel.
FieldTy(x, recv) == IF recv = {} THEN x.ty ELSE (CHOOSE r \in recv : TRUE).ty
Receives(susp, body, x) ==
  {r \in Range(susp) : r.kind \in {"recv", "loop"} /\ Receiver(body[r.at]).n = x.n}
SubTy(x) == IF x.child \in DOMAIN OpTy THEN OpT ELSE FutT(x.child)
LayoutWith(f, body, named, susp, awaits, blocks) ==
  [n |-> f.n, ret |-> RetTy(f), body |-> body, susp |-> susp, res |-> Len(Params(f)) + 2,
   named  |-> named,
   fields |-> [x \in {named[i].n : i \in DOMAIN named} |->
                 1 + CHOOSE i \in DOMAIN named : named[i].n = x],
   tys    |-> [i \in DOMAIN named |-> FieldTy(named[i], Receives(susp, body, named[i]))]
              \o [i \in DOMAIN awaits |-> SubTy(awaits[i])],
   blocks |-> [k \in DOMAIN blocks |->
                 Node("AsyncFunction", AnonName(k), blocks[k].ty, <<Block(blocks[k].c)>>)],
   names  |-> [b \in {blocks[k].n : k \in DOMAIN blocks} |->
                 AnonName(CHOOSE k \in DOMAIN blocks :
                            /\ blocks[k].n = b
                            /\ \A j \in DOMAIN blocks : blocks[j].n = b => j <= k)]]
LayoutOf(f, body, named, susp, awaits) ==
  LayoutWith(f, body, named, susp, awaits,
             AwaitedBlocks(body, awaits) \o FlattenSeq([i \in DOMAIN body |-> Standalone(body[i])]))
Suspending(f, body, named, susp) ==
  LayoutOf(f, body, named, susp, SelectSeq(susp, LAMBDA x : x.kind = "await"))
Fielded(env, f, body, named) == Suspending(f, body, named, Suspensions(env, body, Len(named)))
Flattened(env, f, body)      == Fielded(env, f, body, NamedFields(env, f, body))
FutureLayout(env, f)         == Flattened(env, f, TopLevel(Body(f)))

\* ---- Futures in emitted code -------------------------------------------
\* A future that is all zeroes, on the heap or in a stack slot; its result, and
\* clearing it.
NewFuture(cx, f)   == Get(cx, "newfut", <<>>, Ty("fut", f, cx.env.fut[f].tys), "")
StackFuture(cx, f) ==
  LET c == Alloca(cx, "", FutT(f)) IN Get(c, "newfut", <<NewSlot(c)>>, Ty("fut", f, cx.env.fut[f].tys), "")
SetField1(cx, fut, k, r) == Put(cx, "setfut", <<fut, k, r>>, NilT)
ResultOf(cx, fut, k, ty) == Get(cx, "futres", <<fut, k>>, ty, "")
TakeResult(cx, fut, k, ty) ==
  LET c == ResultOf(cx, fut, k, ty)
  IN IF OwnedHandle(ty) THEN SetField1(c, fut, k, 0) ELSE c

\* An async block as a value: a handle to a future nobody polls.
BlockValue(cx, b) ==
  IF b.n \notin DOMAIN cx.blocks THEN Bad(cx, "async block without a name")
  ELSE Typed(StackFuture(cx, cx.blocks[b.n]), IntT)

\* wait_any, wait_all: two blocks as futures of the calling frame; the result
\* is read from the future the runtime names, as one of the first block.
EmitWait(cx, f, es) ==
  LET a == StackFuture(cx, cx.blocks[es[1].n])
      b == StackFuture(a, cx.blocks[es[2].n])
      w == Get(b, "call", <<a.v.r, b.v.r>>, IntT, "ntsc_async_" \o f)
      c == [PendingCheck([w EXCEPT !.checks = TRUE]) EXCEPT !.checks = cx.checks]
  IN CASE Len(es) # 2 -> Bad(cx, "exactly 2 arguments")
       [] \E i \in 1..2 : es[i].k # "AsyncBlock" -> Bad(cx, "not an inline async block")
       [] \E i \in 1..2 : es[i].n \notin DOMAIN cx.blocks -> Bad(cx, "async block without a name")
       [] RetTy(es[1]) = VoidT -> Val(c, 0, VoidT)
       [] OTHER -> ResultOf(c, w.v.r, 1, RetTy(es[1]))
=============================================================================
