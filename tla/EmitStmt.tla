------------------------------ MODULE EmitStmt ------------------------------
(***************************************************************************)
(* Statements, functions, classes and the module (emit/stmt.rs,            *)
(* control.rs, exception.rs, assign.rs, function.rs, class.rs, module.rs). *)
(***************************************************************************)
EXTENDS EmitAsync

\* EmitNode(cx, n) appends the code of n, a statement or an expression, to the
\* context cx, or adds the top-level statement n wraps to the module cx.
RECURSIVE EmitNode(_, _)

EmitSeq(cx, ss) == Fold(EmitNode, cx, ss)

\* A slot that backs a binding on every pass: the last pass's value goes.
Vacated(cx, ty) == IF cx.poll THEN cx ELSE DropSlot(cx, NewSlot(cx), ty)
Rebound(cx, x, ty, r) ==
  MarkOwned(DefineVar(Put(cx, "store", <<NewSlot(cx), r>>, ty), x, NewSlot(cx), ty), x, ty)
Bind(cx, x, ty) == Rebound(Vacated(Alloca(cx, x, ty), ty), x, ty, cx.v.r)

\* A name for the value at hand, in a slot of its own.
StoreLocal(cx, x) == DefineVar(StoreTo(cx, NewSlot(cx)), x, NewSlot(cx), cx.v.ty)
NewLocal(cx, x)   == StoreLocal(Alloca(cx, x, cx.v.ty), x)

\* A local: what it is declared as decides how the value is taken over.  Its
\* slot is the context's newest.
DefineLocal(cx, x, ty, owns) ==
  DefineVar(IF (owns \/ x \in cx.drops) /\ ~cx.poll THEN MarkOwned(cx, x, ty) ELSE cx,
            x, NewSlot(cx), ty)
VarTy(s, ty) ==
  CASE s.k = "Var"  -> IF s.ty # NoTy THEN s.ty ELSE ty
    [] s.ty # NoTy  -> ViewT(s.ty)
    [] OTHER        -> ViewT(IF ty.k \in {"view", "shared"} THEN Inner(ty) ELSE ty)
DropPrevious(cx, x, e, ty) ==
  CASE ty.k \in {"array", "str", "object", "shared", "option", "dyn"} /\ ~cx.poll ->
         DropReplaced(cx, NewSlot(cx), ty, cx.v)
    [] ty.k = "class" /\ (x \in cx.drops \/ Fresh(cx, e, cx.v.ty)) -> DropSlot(cx, NewSlot(cx), ty)
    [] OTHER -> cx
TakeOver(cx, e, ty) == StoreOwned(FixEmpty(Coerce(cx, ty), e, ty), NewSlot(cx), ty, e)
Taken(cx, x, ty)    == DefineLocal(cx, x, ty, cx.owns)
BindVar(cx, s, ty)  ==
  IF s.k = "Var" THEN Taken(TakeOver(DropPrevious(cx, s.n, s.c[1], ty), s.c[1], ty), s.n, ty)
  ELSE DefineLocal(StoreTo(DerefShared(cx), NewSlot(cx)), s.n, ty, FALSE)
InitVar(cx, s)      == BindVar(Alloca(cx, s.n, VarTy(s, cx.v.ty)), s, VarTy(s, cx.v.ty))
\* The escape analysis put the instance on the stack.
Homed(cx)           == [cx EXCEPT !.home = NewSlot(cx)]
BindInstance(cx, x) == MarkOwned(NewLocal(cx, x), x, cx.v.ty)
EmitVar(cx, s) ==
  LET e == s.c[1] IN
  CASE IsNone(e) -> DefineLocal(Alloca(cx, s.n, s.ty), s.n, s.ty, FALSE)
    [] /\ s.k = "Var" /\ s.ty = NoTy /\ s.n \in cx.stack
       /\ e.k = "Call" /\ Len(e.c) = 1 /\ IsVar(e.c[1]) /\ e.c[1].n \in DOMAIN cx.env.cls ->
         BindInstance(EmitNode(Homed(Alloca(cx, "", ClassT(e.c[1].n))), e), s.n)
    [] OTHER ->
         InitVar([EmitNode([cx EXCEPT !.want = IF s.k = "Var" THEN s.ty ELSE NoTy], e)
                    EXCEPT !.want = NoTy], s)

\* return: what is handed to the caller must not be dropped with the locals.
EmitReturn(cx, e) ==
  LET c   == EmitNode(cx, e)
      v   == c.v
      dyn == IsDyn(c.ret) /\ ~IsDyn(v.ty)
      c1  == IF dyn THEN Coerce(c, c.ret) ELSE CloneIfLit(c, e, c.ret)
      c2  == IF c.ret.k = "shared" /\ v.ty.k # "shared" THEN BoxShared(c1, c.ret, e) ELSE c1
      c3  == IF c.ret.k \in {"array", "str"} /\ ~IsStrLit(e) /\ ~IsVar(e) /\ ~Fresh(c, e, c2.v.ty)
             THEN CopyOwned(c2) ELSE c2
      c4  == DropAllOwned(NullIfVar(c3, e))
      void == IF Owned(c, e, v.ty) THEN DropValue(c, v) ELSE c
  IN CASE cx.poll           -> Bad(cx, "a poll returns a status")
       [] IsNone(e)         -> Ret(DropAllOwned(cx), 0)
       [] cx.ret.k = "void" -> Ret(DropAllOwned(void), 0)
       [] dyn /\ ~FreshConstruction(c, e) ->
            Bad(c, "only a newly constructed instance can become a trait object")
       [] c.ret.k = "shared" /\ v.ty.k = "shared" -> Bad(c, "a handle taken for a pointer")
       [] OTHER -> Force(<<c, c3>>, Ret(c4, c3.v.r))

\* throw: the message handle is consumed.
EmitThrow(cx, e) ==
  LET c == EmitNode(cx, e)
      m == Stringify(c)
      l == IF IsStrLit(e) THEN CloneStr(m) ELSE m
      t == Put(l, "throw", <<l.v.r>>, StrT)
  IN ThrowTo(IF c.v.ty.k = "str" THEN NullIfVar(t, e) ELSE t)

\* ---- Branches and loops ------------------------------------------------
Cond(cx, e, b1, b2) == CondBr(EmitNode(cx, e), "any", 0, b1, b2)

\* emit_if.  After the first elif the chain goes on as a nested if whose own
\* merge block nothing leaves; the condition of a chain of one elif and an
\* else is looked up in an empty list.
RECURSIVE EmitIf(_, _, _, _, _)
EmitIf(cx, cond, then, elifs, els) ==
  LET c     == EmitNode(cx, cond)
      b     == NextBlock(c)
      merge == b + 1
      has   == elifs # <<>> \/ ~IsNone(els)
      c1    == CondBr(Blocks(c, IF has THEN 3 ELSE 2), "any", 0, b, IF has THEN b + 2 ELSE merge)
      c2    == Fall(EmitNode(At(c1, b), then), merge)
      \* at the else block
      e0    == EmitNode(At(c2, b + 2), elifs[1][1])
      eb    == NextBlock(e0)
      e1    == CondBr(Blocks(e0, 2), "any", 0, eb, eb + 1)
      e2    == At(Fall(EmitNode(At(e1, eb), elifs[1][2]), merge), eb + 1)
      rest  == Tail(elifs)
      e3    == CASE rest # <<>> -> EmitIf(e2, rest[1][1], rest[1][2], Tail(rest), els)
                 [] ~IsNone(els) -> Bad(e2, "index out of bounds")
                 [] OTHER -> Br(e2, merge)
  IN Force(<<c, c2>>,
     CASE ~has         -> At(c2, merge)
       [] elifs = <<>> -> At(Fall(EmitNode(At(c2, b + 2), els), merge), merge)
       [] OTHER        -> Force(<<e0, e2>>, At(e3, merge)))

\* emit_while, emit_do_while: blocks condition, body, merge.
EmitWhile(cx, cond, body, first) ==
  LET b  == NextBlock(cx)
      c1 == Br(PushLoop(Blocks(cx, 3), b + 2, b), IF first THEN b ELSE b + 1)
      c2 == IF first THEN Cond(At(c1, b), cond, b + 1, b + 2) ELSE c1
      c3 == Fall(EmitNode(At(c2, b + 1), body), b)
      c4 == IF first THEN c3 ELSE Cond(At(c3, b), cond, b + 1, b + 2)
  IN Force(<<c1, c2, c3>>, PopLoop(At(c4, b + 2)))

\* emit_for: condition, body, update, merge; the initializer's names live in
\* the enclosing scope.
EmitFor(cx, init, cond, update, body) ==
  LET c0 == IF IsNone(init) THEN cx ELSE EmitNode(cx, init)
      b  == NextBlock(c0)
      c1 == At(Br(PushLoop(Blocks(c0, 4), b + 3, b + 2), b), b)
      c2 == IF IsNone(cond) THEN Br(c1, b + 1) ELSE Cond(c1, cond, b + 1, b + 3)
      c3 == At(Fall(EmitNode(At(c2, b + 1), body), b + 2), b + 2)
      c4 == IF IsNone(update) THEN c3 ELSE EmitNode(c3, update)
  IN Force(<<c0, c2, c3>>, PopLoop(At(Br(c4, b), b + 3)))

\* emit_for_in: condition, body, increment, merge.  The loop variable borrows
\* the element; a class is read through length() and get(i).
Discard(cx, e)   == DropFresh(cx, e, cx.v)
Indexed(cx)      == Put(cx, "store", <<NewSlot(cx), 0>>, IntT)
LengthOf(cx, it, t) ==
  IF t.k = "class" THEN Get(cx, "call", <<it>>, IntT, t.n \o ".length")
  ELSE Get(cx, "len", <<it>>, IntT, "")
MoreOf(cx, t, i, b) ==
  IF t.k = "class" THEN Term(At(cx, b), "any", <<0>>, <<b + 1, b + 3>>)
  ELSE Term(At(cx, b), "each", <<cx.v.r, i>>, <<b + 1, b + 3>>)
ElementOf(cx, it, t, i) ==
  CASE t.k = "class" ->
         Get(cx, "call", <<it, 0>>, cx.env.fns[t.n \o ".get"].ret, t.n \o ".get")
    [] t = ArrT(AnyT) -> Element(cx, <<it, i>>, AnyT)
    [] OTHER -> Get(cx, "elem", <<it, i>>,
                    IF t.k = "array" THEN Inner(t) ELSE T(IF t.k = "str" THEN "str" ELSE "any"), "")
EachTurn(cx, x, it, t, body) ==
  LET i == NewSlot(cx)
      b == NextBlock(cx)
      n == Br(PushLoop(Blocks(cx, 4), b + 3, b + 2), b)
      c == Fall(EmitNode(NewLocal(ElementOf(At(MoreOf(n, t, i, b), b + 1), it, t, i), x), body), b + 2)
  IN PopLoop(At(Br(Put(At(c, b + 2), "inc", <<i>>, IntT), b), b + 3))
IterateOver(cx, x, e, t, body) ==
  IF t.k = "class" /\ ~({t.n \o ".length", t.n \o ".get"} \subseteq DOMAIN cx.env.fns)
  THEN Bad(cx, "not iterable")
  ELSE DropFresh(EachTurn(LengthOf(Indexed(Alloca(cx, "forin_idx", IntT)), cx.v.r, t),
                          x, cx.v.r, t, body), e, cx.v)
Iterate(cx, x, e, body)   == IterateOver(cx, x, e, PeelView(cx.v.ty), body)
EmitForIn(cx, x, e, body) == Iterate(EmitNode(cx, e), x, e, body)

\* emit_for_await: the producer is evaluated before the loop evaluates it again.
EmitForAwait(cx, e) == Discard(EmitNode(cx, e), e)

\* ---- Exceptions --------------------------------------------------------
PushHandler(cx, b) == [cx EXCEPT !.handlers = Append(@, b)]
PopHandler(cx)     == [cx EXCEPT !.handlers = Front(@)]
Clear(cx)          == Put(cx, "clear", <<>>, StrT)

\* The handler's binding: an owned copy of the message, the runtime's freed.
\* That of a try is a slot of the function even in a poll.
CatchInto(cx, x) == Bind(Clear(CloneStr(Get(cx, "getmsg", <<>>, StrT, ""))), x, StrT)

\* The exception still pending is handed to the next handler out.
Rethrow(cx) ==
  LET m == Get(cx, "take", <<>>, StrT, "") IN ThrowTo(Put(m, "throw", <<m.v.r>>, StrT))

\* emit_try_catch.  Blocks: handler, merge, finally, rethrow.  The handler is
\* registered for the body only: what a catch body throws goes outward, past
\* the finally.  A catch without a variable is not run.
EndFinally(cx, re, merge) == IF Terminated(cx) THEN cx ELSE CondBr(cx, "exc", 0, re, merge)
RethrowAt(has, cx, b)     == IF has THEN Rethrow(At(cx, b)) ELSE cx
EmitTry(cx, x, body, catch, finally) ==
  LET hasC  == ~IsNone(catch)
      hasF  == ~IsNone(finally)
      b     == NextBlock(cx)
      merge == b + 1
      fin   == b + 2
      re    == IF hasF THEN b + 3 ELSE b + 2
      hasR  == ~hasC \/ hasF
      after == IF hasF THEN fin ELSE merge
      c0    == Blocks(cx, 2 + (IF hasF THEN 1 ELSE 0) + (IF hasR THEN 1 ELSE 0))
      c1    == PopHandler(EmitNode(PushHandler(c0, b), body))
      c2    == At(IF Terminated(c1) THEN c1 ELSE Br(Clear(c1), after), b)
      bound == [CatchInto([c2 EXCEPT !.named = FALSE], x) EXCEPT !.named = cx.named]
      c3    == CASE hasC /\ x # "" -> Fall(EmitNode(bound, catch), after)
                 [] hasF -> Br(c2, fin)
                 [] hasR -> Br(c2, re)
                 [] OTHER -> Bad(c2, "no rethrow block")
      c4    == IF hasF THEN EndFinally(EmitNode(At(c3, fin), finally), re, merge) ELSE c3
  IN IF ~hasC /\ ~hasF THEN EmitNode(cx, body) ELSE At(RethrowAt(hasR, c4, re), merge)

\* emit_retry.  Blocks: check, body, failure, clear, except, merge, rethrow.
\* Which attempt is the last is left open.
EmitRetry(cx, x, count, body, catch) ==
  LET c0 == Alloca(EmitNode(cx, count), "retry_remaining", IntT)
      b  == NextBlock(c0)
      hasC == ~IsNone(catch)
      c1 == Br(PushLoop(Blocks(c0, IF hasC THEN 6 ELSE 7), b + 5, b), b)
      c2 == At(CondBr(At(c1, b), "any", 0, b + 1, b + 4), b + 1)
      c3 == Fall(PopHandler(EmitNode(PushHandler(c2, b + 2), body)), b + 5)
      c4 == CondBr(At(c3, b + 2), "any", 0, b + 3, b + 4)
      c5 == At(Br(Clear(At(c4, b + 3)), b), b + 4)
      c6 == CASE hasC /\ x # "" -> Fall(EmitNode(CatchInto(c5, x), catch), b + 5)
              [] hasC  -> Bad(c5, "no rethrow block")
              [] OTHER -> Rethrow(At(Br(c5, b + 6), b + 6))
  IN Force(<<c3, c5>>, PopLoop(At(c6, b + 5)))

\* ---- Match -------------------------------------------------------------
Wildcard(e) == IsVar(e) /\ e.n = "_"

\* A case whose value is compared; the guard is evaluated with it.
TestCase(cx, case, b) ==
  LET v == EmitNode(cx, case[1])
      g == IF IsNone(case[2]) THEN v ELSE EmitNode(v, case[2])
  IN CASE Wildcard(case[1]) -> Br(cx, b)
       [] ~IsNone(case[2]) /\ g.v.ty.k # "bool" -> Bad(g, "guard must be bool")
       [] OTHER -> CondBr(IF v.v.ty.k = "str" THEN Put(g, "use", <<v.v.r>>, StrT) ELSE g,
                          "any", 0, b, b + 1)

\* emit_match: merge, then a block and a next block for each case.
EmitMatch(cx, e, cases, default) ==
  LET c0 == EmitNode(cx, e)
      merge == NextBlock(c0)
      one(c, case) ==
        LET b == NextBlock(c)
            t == TestCase(Blocks(c, 2), case, b)
        IN At(Fall(EmitNode(At(t, b), case[3]), merge), b + 1)
      c1 == Fold(one, Blocks(c0, 1), cases)
  IN At(Fall(IF IsNone(default) THEN c1 ELSE EmitNode(c1, default), merge), merge)

\* bind_pattern_payload: what lives on the heap is copied for the binder.
BindPayload(cx, cell, p) ==
  LET ty == cell.ty.of[IF p.n = "Ok" THEN 1 ELSE 2]
      r  == Get(cx, "inner", <<cell.r>>, ty, "")
      deep == {"str", "array", "shared", "class", "option", "result", "object"}
  IN IF p.c = <<>> THEN cx ELSE Bind(IF ty.k \in deep THEN CopyValue(r) ELSE r, p.c[1].n, ty)

\* branch_to_merge_releasing_scrutinee: a scrutinee nobody owns is released on
\* every path that falls into the merge block.
LeaveMatch(cx, cell, fresh, merge) ==
  CASE Terminated(cx) -> cx
    [] fresh -> Br(DropValue(cx, cell), merge)
    [] OTHER -> Br(cx, merge)

\* emit_match_with_patterns
TestTag(cx, cell, p, b) ==
  BindPayload(At(Term(cx, "tag", <<cell.r>>, IF p.n = "Ok" THEN <<b, b + 1>> ELSE <<b + 1, b>>), b),
              cell, p)
Guard(cx, b, gb)       == At(CondBr(Blocks(cx, 1), "any", 0, gb, b + 1), gb)
Guarded(cx, guard, b)  ==
  IF IsNone(guard) THEN cx ELSE LET g == EmitNode(cx, guard) IN Guard(g, b, NextBlock(g))
EnterCase(cx, cell, case, b) ==
  IF case[1].k = "Pattern" THEN Guarded(TestTag(cx, cell, case[1], b), case[2], b)
  ELSE At(TestCase(cx, case, b), b)
PatternCase(cx, cell, case, fresh, merge, b) ==
  At(LeaveMatch(EndScope(EmitNode(EnterCase(Blocks(cx, 2), cell, case, b), case[3]), cx.vars),
                cell, fresh, merge), b + 1)
PatternCases(cx, e, cases, default, merge) ==
  LET fresh == Fresh(cx, e, cx.v.ty)
      c     == Fold(LAMBDA d, case : PatternCase(d, cx.v, case, fresh, merge, NextBlock(d)),
                    Blocks(cx, 1), cases)
  IN IF cx.v.ty.k # "result" \/ cx.poll THEN Bad(cx, "patterns need a result, outside a poll")
     ELSE At(LeaveMatch(IF IsNone(default) THEN c ELSE EmitNode(c, default), cx.v, fresh, merge), merge)
EmitMatchPatterns(cx, e, cases, default) ==
  LET c == EmitNode(cx, e) IN PatternCases(c, e, cases, default, NextBlock(c))

\* emit_destructure: an owned element is copied for its name; a property of
\* an object is a new string already.
Property(cx, src, t) ==
  CASE t.k = "object" -> Get(cx, "str", <<src>>, StrT, "")
    [] t.k = "array" /\ Inner(t) # AnyT -> PendingCheck(Get(cx, "elem", <<src>>, Inner(t), ""))
    [] OTHER -> Element(cx, <<src>>, AnyT)
OwnCopy(cx, t) == IF cx.v.ty.k \in {"array", "str"} /\ t.k # "object" THEN CopyOwned(cx) ELSE cx
BindName(cx, x) ==
  IF cx.v.ty.k \in {"array", "str"} /\ ~cx.poll THEN Bind(cx, x, cx.v.ty) ELSE NewLocal(cx, x)
BindNames(cx, e, t, names) ==
  DropFresh(Fold(LAMBDA c, b : BindName(OwnCopy(Property(c, cx.v.r, t), t), b.n), cx, names), e, cx.v)
Destructured(cx, e, names)    == BindNames(cx, e, PeelView(cx.v.ty), names)
EmitDestructure(cx, e, names) == Destructured(DerefShared(EmitNode(cx, e)), e, names)

\* emit_tuple_destructure: each name takes its element over.
BindPart(cx, x) == LET d == NewLocal(cx, x) IN IF cx.poll THEN d ELSE MarkOwned(d, x, cx.v.ty)
BindParts(cx, names) ==
  IF cx.v.ty.k # "tuple" THEN cx
  ELSE Fold(LAMBDA c, i : BindPart(TuplePart([c EXCEPT !.v = cx.v], i), names[i].n), cx,
            [i \in 1..Min({Len(names), Len(cx.v.ty.of)}) |-> i])
EmitTupleDestructure(cx, e, names) == BindParts(DerefShared(EmitNode(cx, e)), names)


\* emit_go_program_spawn: the arguments, or what the block captures, move into
\* a future of the goroutine's own; a channel is retained for it.
EmitArgs(cx, es) == Fold(LAMBDA p, e : Collect(p, EmitNode(p[1], e)), <<cx, <<>> >>, es)
GoArg(cx, fut, i, v, e) ==
  MoveIf(OwnedHandle(v.ty) /\ v.ty.k # "chan" /\ IsVar(e), SetArg(cx, fut, i, v, e), e, v.ty)
SpawnWith(p, fut, es) ==
  Do(Fold(LAMBDA c, i : GoArg(c, fut, i, p[2][i], es[i]), p[1], [i \in DOMAIN es |-> i]),
     "spawn", <<fut>>, VoidT, ".go_poll")
Spawned(cx, es) == SpawnWith(EmitArgs(cx, es), cx.v.r, es)
EmitGo(cx, s) ==
  LET f  == IF IsNone(s.c[2]) THEN s.c[1].c[1].n ELSE s.n
      es == IF IsNone(s.c[2]) THEN Tail(s.c[1].c)
            ELSE [i \in 1..(Len(s.c) - 2) |-> V(s.c[i + 2].n)]
  IN IF f \notin DOMAIN cx.env.fut THEN Bad(cx, "go callee not declared")
     ELSE Spawned(NewFuture(cx, f), es)

\* emit_say_call
EmitSay(cx, e) ==
  LET c == EmitNode(cx, e)
      m == Stringify(c)
  IN DropFresh(Put(m, "use", <<m.v.r>>, StrT), e, c.v)

\* emit_statement_in_function: nothing is emitted after a terminator.
EmitStmt(cx, s) ==
  LET c == s.c IN
  CASE Terminated(cx)   -> cx
    [] s.k = "Say"      -> EmitSay(cx, c[1])
    [] s.k = "Expression" -> Discard(EmitNode(cx, c[1]), c[1])
    [] s.k = "Return"   -> EmitReturn(cx, c[1])
    [] s.k \in {"Var", "ViewVar", "ViewMutVar"} -> EmitVar(cx, s)
    [] s.k = "Block"    -> EndScope(EmitSeq(cx, c), cx.vars)
    [] s.k = "If"       -> EmitIf(cx, c[1], c[2], Groups(Middle(c, 2, 1), 2), Last(c))
    [] s.k = "While"    -> EmitWhile(cx, c[1], c[2], TRUE)
    [] s.k = "DoWhile"  -> EmitWhile(cx, c[2], c[1], FALSE)
    [] s.k = "For"      -> EmitFor(cx, c[1], c[2], c[3], c[4])
    [] s.k \in {"ForIn", "ForAwait"} ->
         EmitForIn(IF s.k = "ForAwait" THEN EmitForAwait(cx, c[1]) ELSE cx, s.n, c[1], c[2])
    [] s.k = "Break"    -> EmitBreak(cx)
    [] s.k = "Continue" -> EmitContinue(cx)
    [] s.k = "Throw"    -> EmitThrow(cx, c[1])
    [] s.k = "Match"    ->
         LET cases == Groups(Middle(c, 1, 1), 3) IN
         IF \E i \in DOMAIN cases : cases[i][1].k = "Pattern"
         THEN EmitMatchPatterns(cx, c[1], cases, Last(c)) ELSE EmitMatch(cx, c[1], cases, Last(c))
    [] s.k = "Try"      -> EmitTry(cx, s.n, c[1], c[2], c[3])
    [] s.k = "Retry"    -> EmitRetry(cx, s.n, c[1], c[2], c[3])
    [] s.k = "Destructure" -> EmitDestructure(cx, c[1], Tail(c))
    [] s.k = "TupleDestructure" -> EmitTupleDestructure(cx, c[1], Tail(c))
    [] s.k \in {"Unsafe", "Quiet"} -> EmitNode(cx, c[1])
    [] s.k = "Go"       -> EmitGo(cx, s)
    [] s.k = "ChanRecvFor" -> Bad(cx, "not emitted here")
    [] OTHER            -> cx

\* ---- Functions, classes, the module ------------------------------------
\* emit_exception_return: unwinding drops what is owned; a function that
\* returns a result reports the message as its error.
ReturnValue(cx)   == Ret(cx, cx.v.r)
ReturnError(cx)   ==
  LET m == Get(cx, "take", <<>>, StrT, "") IN
  ReturnValue(Rebox(IF cx.ret.of[2].k = "str" THEN m ELSE Stringify(Typed(m, cx.ret.of[2])),
                    cx.ret, "Err"))
Unwind(cx)        == IF cx.ret.k = "result" THEN ReturnError(cx) ELSE Ret(cx, 0)
ExceptionReturn(cx) ==
  IF cx.excRet = 0 THEN cx ELSE At(Unwind(DropAllOwned(At(cx, cx.excRet))), cx.cur)

\* emit_function and the methods of emit_class; the body of emit_test_function
\* is one without parameters.  An argument arrives in slot i.
BindParam(cx, p)  == MarkOwned(DefineVar(cx, p.n, NewSlot(cx), p.ty), p.n, p.ty)
EndBody(cx)   == IF Terminated(cx) THEN cx ELSE Ret(DropAllOwned(cx), 0)
EmitBody(env, ret, params, body, places, drops) ==
  IF body = <<>> THEN Ret(NewContext(env, ret, {}, {}), 0)
  ELSE EndBody(ExceptionReturn(EmitSeq(
         Fold(LAMBDA c, p : BindParam(Alloca(c, p.n, p.ty), p), NewContext(env, ret, places, drops), params),
         body)))

\* The field table of a class: its parent's fields first.
Layout(env, d) ==
  LET own == SelectSeq(d.c, LAMBDA s : s.k = "Var")
      up  == IF d.ty.n \in DOMAIN env.cls THEN env.cls[d.ty.n].fields ELSE <<>>
  IN [parent |-> d.ty.n,
      fields |-> up \o [i \in DOMAIN own |-> [n |-> own[i].n, init |-> own[i].c[1],
                          ty |-> IF own[i].ty # NoTy THEN own[i].ty ELSE LiteralTy(own[i].c[1])]]]

Sig(f) == [params |-> [i \in DOMAIN Params(f) |-> Params(f)[i].ty], ret |-> RetTy(f)]

\* The module under construction: env, and the bodies emitted so far.  Every
\* top-level function is declared before any body is emitted.
Declare(prog, std) ==
  LET of(k)   == {i \in DOMAIN prog : prog[i].k = k}
      at(k, x) == prog[CHOOSE i \in of(k) : prog[i].n = x]
      names(k) == {prog[i].n : i \in of(k)}
      slots    == UNION {Range(prog[i].c) : i \in of("Trait")}
  IN [env |-> [fns |-> [x \in names("Function") |-> Sig(at("Function", x))],
               enums |-> [x \in names("Enum") |-> {m.n : m \in Range(at("Enum", x).c)}],
               dyn |-> [x \in {f.n : f \in slots} |-> Sig(CHOOSE f \in slots : f.n = x)],
               cls |-> <<>>, begun |-> {}, consts |-> <<>>, std |-> std,
               async |-> [x \in names("AsyncFunction") |-> at("AsyncFunction", x)], fut |-> <<>>],
      code |-> <<>>]

\* The functions of the lambdas in a body: each owns its parameters, sees no
\* local of the function around it.
RECURSIVE Lambdas(_)
Lambdas(e) == (IF e.k = "Lambda" THEN {e} ELSE {}) \cup UNION {Lambdas(e.c[i]) : i \in DOMAIN e.c}
EmitLambda(e) == [n |-> e.n, f |-> e, params |-> Params(e), declares |-> TRUE, begins |-> FALSE]

\* emit_class, the methods: each is declared as it is reached and takes its
\* instance first.
EmitMethod(cls, f) ==
  [n |-> cls \o "." \o f.n, f |-> f, declares |-> TRUE, begins |-> FALSE,
   params |-> <<Node("Param", "this", ClassT(cls), <<>>)>> \o Params(f)]
EmitClass(d) ==
  LET fs == SelectSeq(d.c, LAMBDA s : s.k = "Function")
  IN [i \in DOMAIN fs |-> EmitMethod(d.n, fs[i])]

\* emit_function, after the lambdas of its body; the escape analysis is that of
\* functions alone.
Units(f) ==
  LET ls == Listed(Lambdas(Last(f.c)))
  IN Append([i \in DOMAIN ls |-> EmitLambda(ls[i])],
            [n |-> f.n, f |-> f, params |-> Params(f), declares |-> FALSE, begins |-> TRUE])
EnterUnit(env, u) ==
  [env EXCEPT !.fns   = IF u.declares THEN (u.n :> Sig(u.f)) @@ @ ELSE @,
              !.begun = IF u.begins THEN @ \cup {u.n} ELSE @]
UnitCode(env, u) ==
  LET cs == IF u.begins THEN DOMAIN env.cls ELSE {}
  IN EmitBody(env, RetTy(u.f), u.params, Body(u.f),
              StackAllocatable(Body(u.f), cs, {k \in cs : k \o ".init" \in DOMAIN env.fns}),
              IF u.begins THEN ClassDrops(Body(u.f), cs) ELSE {})
AddUnit(m, env, u) == [m EXCEPT !.env = env, !.code = (u.n :> UnitCode(env, u)) @@ @]
EmitFunction(m, u) == AddUnit(m, EnterUnit(m.env, u), u)

\* emit_test_function: `test_<name>', a function of no arguments.
EmitTest(t) == Node("Function", "test_" \o t.n, NoTy, t.c)

\* emit_implicit_init, emit_top_level_var and emit_top_level_go: a top-level
\* expression, variable or go statement becomes a function of its own, which
\* nothing calls.  Without an annotation the variable's slot is not one of an
\* owned handle.
TopTy(x) == IF x.ty = NoTy THEN AnyT ELSE x.ty
KeepOwned(cx, x, ty)   == IF cx.owns THEN MarkOwned(cx, x, ty) ELSE cx
StoreTop(cx, x, slot, ty) == KeepOwned(StoreOwned(cx, slot, ty, x.c[1]), x.n, ty)
EmitTopVar(cx, x, slot) ==
  DefineVar(IF IsNone(x.c[1]) THEN cx
            ELSE StoreTop(cx, x, slot, IF x.ty = NoTy THEN cx.v.ty ELSE x.ty), x.n, slot, TopTy(x))
EndInit(cx, s) == Ret(DropAllOwned(ExceptionReturn(IF s.k = "Var" THEN EmitTopVar(cx, s, 1) ELSE cx)), 0)
EmitInit(m, s) ==
  LET new == NewContext(m.env, VoidT, {}, {})
      cx  == IF s.k = "Var" THEN Alloca(new, s.n, TopTy(s)) ELSE new
      n   == IF s.k = "Var" THEN s.c[1] ELSE s
  IN [m EXCEPT !.code = ((IF s.k = "Go" THEN "__ntsc_init_go" \o s.n ELSE "__ntsc_init") :>
                           EndInit(IF IsNone(n) THEN cx ELSE EmitNode(cx, n), s)) @@ @]

\* emit_static_const: a global with a constant initializer; the type is the
\* annotation's or the literal's.
EmitStaticConst(m, x) ==
  [m EXCEPT !.env.consts = (x.n :> [ty   |-> IF x.ty # NoTy THEN x.ty ELSE LiteralTy(x.c[1]),
                                    init |-> x.c[1]]) @@ @]

\* emit_top_level: what is declared, then the functions of the statement.
TopUnits(s) == CASE s.k = "Function" -> Units(s)
                 [] s.k = "Test"     -> Units(EmitTest(s))
                 [] s.k = "Class"    -> EmitClass(s)
                 [] OTHER            -> <<>>
EmitTop(m, s) ==
  CASE s.k = "Const" -> EmitStaticConst(m, s)
    [] s.k \in {"Expression", "Var", "Go"} -> EmitInit(m, s)
    [] OTHER -> Fold(EmitFunction,
                     IF s.k = "Class" THEN [m EXCEPT !.env.cls = (s.n :> Layout(m.env, s)) @@ @] ELSE m,
                     TopUnits(s))

\* ---- Async functions -----------------------------------------------------
AfterPass(cx, k, s)  ==
  IF Terminated(cx) THEN cx ELSE ChanSuspend(k, <<ChanExpr(s)>>, EmitArgs(cx, <<ChanExpr(s)>>))
LoopPass(cx, k, s, b) ==
  At(AfterPass(EmitNode(At(Term(Blocks(cx, 2), "got", <<>>, <<b, b + 1>>), b), s.c[2]), k, s), b + 1)
PassOf(cx, k, x, s)  == IF x.kind = "recv" THEN cx ELSE LoopPass(cx, k, s, NextBlock(cx))
ChanResume(cx, k, x, s) ==
  IF x.kind = "send" THEN cx ELSE PassOf(Received(cx, Receiver(s).n, x.ty), k, x, s)
SegmentStmt(cx, fl, s) ==
  LET n == IF s.k = "Return" THEN s.c[1] ELSE s
  IN AfterStmt(IF IsNone(n) THEN cx ELSE EmitNode(cx, n), fl, s)

\* emit_async_segment: segment k resumes suspension k and ends with
\* suspension k + 1.
Resume(cx, fl, k) ==
  LET x == fl.susp[k] IN
  CASE k = 0 -> cx
    [] x.kind = "await" -> AwaitResume(cx, fl, x, fl.body[x.at])
    [] OTHER -> ChanResume(cx, k, x, fl.body[x.at])
SuspendIn(cx, x, k, es) == SuspendWith(cx, x, k, es, EmitArgs(cx, es))
SuspendAt(cx, fl, k, finish) ==
  LET x == fl.susp[k + 1] IN
  CASE k = Len(fl.susp) -> IF Terminated(cx) THEN cx ELSE Br(cx, finish)
    [] x.kind = "await" /\ x.child \notin DOMAIN OpTy \cup DOMAIN cx.env.fut ->
         Bad(cx, "child future not declared")
    [] OTHER -> SuspendIn(NewChild(cx, x), x, k + 1, Operands(x, fl.body[x.at]))
Segment(cx, fl, k, finish) ==
  EndSegment(SuspendAt(Fold(LAMBDA c, s : SegmentStmt(c, fl, s), Resume(Entered(cx, fl), fl, k),
                            Between(fl, k)), fl, k, finish), finish)

\* emit_async_poll: the entry is block 1, then finish, fallthrough and the
\* segments.
EmitPoll(env, fl) ==
  LET n == Len(fl.susp)
  IN Finish(At(Fold(LAMBDA c, k : Segment(At(c, k + 4), fl, k, 2), Dispatch(FutureContext(env, fl), n),
                    [i \in 1..(n + 1) |-> i - 1]), 2), fl)

\* emit_async_function: blocks and callees before the function itself.  m.busy
\* are the functions in progress; a name emitted once is not emitted again.
RECURSIVE EmitAsyncFunction(_, _)
EmitCallee(m, fl, x) ==
  CASE x.kind # "await" \/ x.child \in DOMAIN OpTy -> m
    [] \E i \in DOMAIN fl.blocks : fl.blocks[i].n = x.child -> m
    [] x.child \in DOMAIN m.env.async -> EmitAsyncFunction(m, m.env.async[x.child])
    [] OTHER -> [m EXCEPT !.bad = @ \cup {"not an async function"}]
FutureCode(env, f, fl) ==
  (f.n \o ".poll" :> EmitPoll(env, fl)) @@ (f.n \o ".drop" :> EmitFutureDrop(env, fl))
  @@ (IF f.n = "main" THEN "__ntsc_user_main" :> EmitMainWrapper(env, fl) ELSE <<>>)
AddFuture(m, env, f, fl) ==
  [m EXCEPT !.busy = @ \ {f.n}, !.env = env, !.code = FutureCode(env, f, fl) @@ @]
EmitFuture(m, f, fl) == AddFuture(m, [m.env EXCEPT !.fut = (f.n :> fl) @@ @], f, fl)
AfterCallees(m, f, fl) ==
  EmitFuture(Fold(LAMBDA q, x : EmitCallee(q, fl, x), Fold(EmitAsyncFunction, m, fl.blocks), fl.susp),
             f, fl)
EmitAsyncFunction(m, f) ==
  CASE f.n \in DOMAIN m.env.fut -> m
    [] f.n \in m.busy -> [m EXCEPT !.bad = @ \cup {"cyclic await chain"}]
    [] OTHER -> AfterCallees([m EXCEPT !.busy = @ \cup {f.n}], f, FutureLayout(m.env, f))

\* emit_module: the callees of go statements, then the statements in source
\* order.
EmitAsyncTop(m, s) ==
  CASE s.k \in {"AsyncFunction", "GoCallee"} ->
         AddGoroutine(s.k = "GoCallee", EmitAsyncFunction(m, s), s.n)
    [] OTHER -> EmitTop(m, s)
EmitNode(cx, n) == CASE n.k = "Top" -> EmitAsyncTop(cx, n.c[1])
                     [] n.k \in StmtKinds -> EmitStmt(cx, n)
                     [] OTHER -> EmitExpr(cx, n)

Item(s)                 == N("Top", "", <<s>>)
EmitWith(m, prog)       ==
  Fold(LAMBDA q, s : EmitNode(q, Item(s)), m, GoCallees(m.env, prog) \o prog)
NewModule(env)          == [env |-> env, code |-> <<>>, busy |-> {}, bad |-> {}]
EmitModule(prog, std)   == EmitWith(NewModule(Declare(prog, std).env), prog)

\* In test mode the harness stands for main: each test runs in a try of its
\* own, its failure is reported and counted.
Harness(tests) ==
  LET try(t) == N("Try", "err", <<Block(<<Ex(Call("test_" \o t, <<>>)), Say(Lit),
                                          Ex(Set("__pass", N("Binary", "+", <<V("__pass"), Num>>)))>>),
                                  Block(<<Say(N("Binary", "+", <<Lit, V("err")>>)),
                                          Ex(Set("__fail", N("Binary", "+", <<V("__fail"), Num>>)))>>),
                                  None>>)
      sum == N("Binary", "+", <<N("Binary", "+", <<Lit, V("__pass")>>), V("__fail")>>)
      none == N("Return", "", <<Num>>)
  IN Node("Function", "main", IntT,
          <<Block(<<Decl("__pass", NoTy, Num), Decl("__fail", NoTy, Num)>>
                  \o [i \in DOMAIN tests |-> try(tests[i])]
                  \o <<Say(sum), If(N("Bool", "", <<>>), Block(<<none>>), None), none>>)>>)
EmitTests(prog, std) ==
  LET rest  == SelectSeq(prog, LAMBDA s : ~(s.k \in {"Function", "AsyncFunction"} /\ s.n = "main"))
      tests == SelectSeq(prog, LAMBDA s : s.k = "Test")
      main  == Harness([i \in DOMAIN tests |-> tests[i].n])
  IN EmitWith(EmitModule(rest, std), <<main>>)

\* module.verify(): every block of every function ends in one terminator.
IllFormed(c) ==
  c.bad \cup (IF \E b \in DOMAIN c.code : c.code[b].term.k = "none" THEN {"no terminator"} ELSE {})
=============================================================================
