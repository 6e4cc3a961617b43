------------------------------ MODULE EmitExpr ------------------------------
(***************************************************************************)
(* Expressions (emit/expr.rs, binary.rs, call.rs, member.rs, array.rs,     *)
(* result_cell.rs, assign.rs): EmitExpr(cx, e) appends the code of e and   *)
(* leaves its register and type in cx.v.  Scalars are register 0; which    *)
(* way a condition on scalars goes is left open ("any" branches).          *)
(*                                                                         *)
(* cx.env gives the declared functions (fns: name -> params, ret), the     *)
(* classes laid out so far (cls: name -> fields), the functions whose      *)
(* bodies have begun (begun), the constants emitted so far (consts), the   *)
(* enums (enums: name -> members), the methods of the traits (dyn) and the *)
(* result types of the library's functions (std).                          *)
(***************************************************************************)
EXTENDS Futures

FnT(f, params, ret) == Ty("fn", f, Append(params, ret))
ParamsOf(t) == Front(t.of)
RetOf(t)    == Last(t.of)
ResultT(ok, err) == Ty("result", "", <<ok, err>>)

\* Two blocks that join, the value merged by a phi: a slot written by each
\* side and read after them.
Branch(cx, k, r, ty, One(_), Two(_)) ==
  LET s == Alloca(cx, "", ty)
      b == NextBlock(cx)
      join(c) == Br(StoreTo(c, NewSlot(s)), b + 2)
      one     == join(One(At(CondBr(Blocks(s, 3), k, r, b, b + 1), b)))
  IN Get(At(join(Two(At(one, b + 1))), b + 2), "load", <<NewSlot(s)>>, ty, "")

\* emit_string_handle: constant text is interned on first use; every use
\* borrows the one permanent handle.
EmitString(cx) == Get(cx, "lit", <<>>, StrT, "")

\* emit_guard_throw: the arithmetic guards throw an interned literal.
GuardThrow(cx) ==
  LET c    == WithHandler(Blocks(cx, 2))
      b    == NextBlock(cx)
      bad  == EmitString(At(CondBr(c, "any", 0, b, b + 1), b))
  IN At(Br(Put(bad, "throw", <<bad.v.r>>, StrT), Handler(c)), b + 1)

\* emit_copy_value.  What an option, a result or an instance holds is copied
\* by the instruction; a view yields the handle it borrows.
RECURSIVE CopyValue(_)
CopyValue(cx) ==
  LET v == cx.v IN
  CASE v.ty.k \in {"str", "object", "array", "pointer"} -> Get(cx, "clone", <<v.r>>, v.ty, "")
    [] v.ty.k = "slice" -> Get(cx, "clone", <<v.r>>, ArrT(Inner(v.ty)), "")
    [] v.ty.k = "view"  -> Typed(cx, Inner(v.ty))
    [] v.ty.k = "own" /\ Inner(v.ty).k # "class" ->
         Cell(CopyValue(Get(cx, "inner", <<v.r>>, Inner(v.ty), "")), v.ty)
    [] v.ty.k = "shared" -> CopyValue(Get(cx, "inner", <<v.r>>, Inner(v.ty), ""))
    [] v.ty.k \in {"option", "result", "class", "own"} -> Get(cx, "copy", <<v.r>>, v.ty, "")
    [] v.ty.k \in {"dyn", "chan"} -> Bad(cx, "cannot copy")
    [] OTHER -> cx

\* convert_to_string: scalars are rendered into a new string, strings pass
\* through, and any other value is taken for one.
Stringify(cx) ==
  IF cx.v.ty.k \in {"int", "float", "bool"} THEN Get(cx, "str", <<>>, StrT, "")
  ELSE Typed(cx, StrT)

\* take_result_payload and the payload of an option, read out of its cell.
TakePayload(cx, cell, ty, fresh) ==
  LET c == Get(cx, "inner", <<cell>>, ty, "")
  IN IF fresh THEN Put(c, "free", <<cell>>, ty) ELSE CopyValue(c)

\* rebox_payload, box_result_value
Rebox(cx, ty, tag) ==
  Tagged(Cell(Coerce(cx, ty.of[IF tag = "Ok" THEN 1 ELSE 2]), ty), ty, tag)
BoxResult(cx, ty, e, tag) == Rebox(CloneIfLit(cx, e, cx.v.ty), ty, tag)

\* emit_function_pointer_call through a value whose type names the function,
\* and call_function_value with its check for an exception.
CallFn(cx, f, regs)    == Get(cx, "call", regs, RetOf(f.ty), f.ty.n)
CallValue(cx, f, regs) == PendingCheck(CallFn(cx, f, regs))

CallOn(cx, f)          == CallValue(cx, f, <<cx.v.r>>)

\* unwrap_or: the default, cx.v, is dropped when the payload is taken.
UnwrapOr(cx, recv, fresh) ==
  LET ok   == recv.ty.of[1]
      dflt == cx.v
  IN Branch(cx, "tag", recv.r, ok, LAMBDA c : DropValue(TakePayload(c, recv.r, ok, fresh), dflt),
            LAMBDA c : [c EXCEPT !.v = dflt])

\* emit_result_combinator for a result receiver ...
OnResult(cx, prop, recv, fresh, es, vals) ==
  LET ok   == recv.ty.of[1]
      err  == recv.ty.of[2]
      f    == vals[1]
      take(c, ty) == TakePayload(c, recv.r, ty, fresh)
      call(c, ty) == CallOn(take(c, ty), f)
      ty   == IF prop = "map" THEN ResultT(RetOf(f.ty), err) ELSE RetOf(f.ty)
  IN CASE prop = "unwrap_or" ->
            UnwrapOr(Coerce(FirstArg(PrepareArgs(cx, es, vals, <<ok>>)), ok), recv, fresh)
       [] prop = "map" ->
            Branch(cx, "tag", recv.r, ty, LAMBDA c : Rebox(call(c, ok), ty, "Ok"),
                   LAMBDA c : Rebox(take(c, err), ty, "Err"))
       [] prop = "and_then" ->
            Branch(cx, "tag", recv.r, ty, LAMBDA c : call(c, ok),
                   LAMBDA c : Rebox(take(c, err), ty, "Err"))
       [] prop = "or_else" ->
            Branch(cx, "tag", recv.r, ty, LAMBDA c : Rebox(take(c, ok), ty, "Ok"),
                   LAMBDA c : call(c, err))
       [] OTHER -> Bad(cx, "undefined method")

\* ... and for an option receiver: None(_) gives the error of type err.
OkOr(cx, recv, fresh, err, None1(_)) ==
  LET ty == ResultT(Inner(recv.ty), err) IN
  Branch(cx, "null", recv.r, ty, LAMBDA c : Rebox(None1(c), ty, "Err"),
         LAMBDA c : Rebox(TakePayload(c, recv.r, Inner(recv.ty), fresh), ty, "Ok"))
OkOrValue(cx, recv, fresh) ==
  LET e == cx.v IN OkOr(cx, recv, fresh, e.ty, LAMBDA c : [c EXCEPT !.v = e])
OnOption(cx, prop, recv, fresh, es, vals) ==
  CASE prop = "ok_or" ->
         OkOrValue(FirstArg(PrepareArgs(cx, es, vals, <<vals[1].ty>>)), recv, fresh)
    [] prop = "ok_or_else" ->
         OkOr(cx, recv, fresh, RetOf(vals[1].ty), LAMBDA c : CallValue(c, vals[1], <<>>))
    [] OTHER -> Bad(cx, "undefined method")

\* The loops the array operations emit: Pass(cx, i, done) is the code of one
\* round, i the slot of the index, done the block after the loop.
Rounds(cx, i, Pass(_, _, _)) ==
  LET b == NextBlock(cx)
      c == Br(Blocks(Put(cx, "store", <<i, 0>>, IntT), 3), b)
      d == Pass(At(Term(At(c, b), "each", <<cx.v.r, i>>, <<b + 1, b + 2>>), b + 1), i, b + 2)
  IN Force(<<c, d>>, At(Br(Put(d, "inc", <<i>>, IntT), b), b + 2))
ForEach(cx, arr, Pass(_, _, _)) ==
  LET s == Alloca(Get(cx, "len", <<arr>>, IntT, ""), "idx", IntT) IN Rounds(s, NewSlot(s), Pass)

\* ... and the ones that stop early.
StopIf(cx, done) ==
  LET b == NextBlock(cx) IN At(CondBr(Blocks(cx, 1), "any", 0, done, b), b)

\* array_elem_ty; emit_array_element and emit_untyped_array_element: the
\* element is borrowed from the array.
ElemTy(t) == IF t.k = "array" THEN Inner(t) ELSE AnyT
UntypedElement(cx, at) == PendingCheck(Get(cx, "elem", at, StrT, ""))
Element(cx, at, el) ==
  IF el = AnyT THEN UntypedElement(cx, at) ELSE Get(cx, "elem", at, el, "")

\* The runtime makes a new array out of one: strings are copied, and
\* emit_copy_in_owned_elements gives it option cells and boxes of its own.
Derive(cx, arr, el, how) ==
  LET c == Get(cx, "derive", <<arr>>, ArrT(el), how) IN Put(c, "fixup", <<c.v.r>>, el)

\* arrays.join: the first element's own handle starts the result.  cx.v is the
\* element; b is the first of three blocks made for it.
PlusReg(cx, r) == Get(cx, "str", <<cx.v.r, r>>, StrT, "")
JoinOne(cx, b, slot, i, delim) ==
  LET c == Br(StoreTo(At(CondBr(cx, "first", i, b, b + 1), b), slot), b + 2)
      l == Get(At(c, b + 1), "load", <<slot>>, StrT, "")
  IN At(Br(StoreTo(PlusReg(PlusReg(l, delim), cx.v.r), slot), b + 2), b + 2)
Join1(cx, arr, el, delim) ==
  LET s == Alloca([cx EXCEPT !.v = delim], "join_result", StrT)
      r == NewSlot(s)
      d == Stringify(s)
      body(x, i, done) ==
        JoinOne(Stringify(Element(Blocks(x, 3), <<arr, i>>, el)), NextBlock(x), r, i, d.v.r)
  IN Get(ForEach(StoreTo(EmitString(d), r), arr, body), "load", <<r>>, StrT, "")

\* arrays.every and arrays.some stop at the first element that decides.
Test(cx, f) == CallFn(cx, f, <<cx.v.r>>)
Every(cx, arr, el, f) ==
  LET body(x, i, done) == StopIf(Test(Element(x, <<arr, i>>, el), f), done)
  IN Val(ForEach(cx, arr, body), 0, BoolT)

\* emit_array_elem_eq and emit_array_find_index: the search stops at a match.
\* What is not a scalar is compared as a string, the element searched for
\* rendered anew each time.
ElemEq(cx, el, x) ==
  LET s == Stringify([cx EXCEPT !.v = x])
  IN IF el.k \in {"int", "float", "bool"} THEN cx ELSE Put(s, "use", <<cx.v.r, s.v.r>>, StrT)
FindIndex(cx, arr, el, x) ==
  LET body(c, i, done) == StopIf(ElemEq(Get(c, "elem", <<arr, i>>, el, ""), el, x), done)
  IN Val(ForEach(cx, arr, body), 0, IntT)

\* emit_rc_array_op, by operation.  The ones that make an array ...
ArrayNew(cx, op, vals) ==
  LET x == vals[1]
      c == Get(cx, "arr", <<x.r, x.r>>, ArrT(x.ty), "")
  IN CASE op = "new"   -> Get(cx, "arr", <<>>, ArrT(AnyT), "")
       [] op = "range" -> Get(cx, "arr", <<>>, ArrT(IntT), "")
       [] op = "fill"  -> Put(c, "fixup", <<c.v.r>>, x.ty)

\* ... the ones that read one ...
ArrayRead(cx, op, vals) ==
  LET arr == vals[1]
      el  == ElemTy(arr.ty)
  IN CASE op \in {"length", "is_empty"} -> Val(Put(cx, "use", <<arr.r>>, arr.ty), 0, IntT)
       [] op \in {"contains", "index_of"} -> FindIndex(cx, arr.r, el, vals[2])
       [] op \in {"at", "get"} -> Element(cx, <<arr.r>>, el)
       [] op = "pop" -> Get(cx, "pop", <<arr.r>>, IF el = AnyT THEN StrT ELSE el, "")

\* ... push: a scalar goes into an array of strings through a temporary ...
ArrayPush(cx, arr, x) ==
  LET conv == arr.ty = ArrT(AnyT) /\ x.ty.k \notin {"str", "any"}
      c    == [cx EXCEPT !.v = x]
      d    == IF conv THEN Stringify(c) ELSE c
      p    == Put(d, "push", <<arr.r, d.v.r>>, arr.ty)
  IN Val(IF conv THEN DropValue(p, d.v) ELSE p, 0, VoidT)

\* ... and remove: the array itself when the element is not found.
ArrayRemove(cx, arr, x) ==
  LET ty == ArrT(ElemTy(arr.ty)) IN
  Branch(FindIndex(cx, arr.r, ElemTy(arr.ty), x), "any", 0, ty,
         LAMBDA c : Get(c, "derive", <<arr.r>>, ty, "remove_at"), LAMBDA c : Val(c, arr.r, ty))

ArrayOp(cx, op, vals) ==
  LET arr == vals[1]
      el  == ElemTy(arr.ty)
  IN CASE op \in {"new", "range", "fill"} -> ArrayNew(cx, op, vals)
       [] op \in {"length", "is_empty", "contains", "index_of", "at", "get", "pop"} ->
            ArrayRead(cx, op, vals)
       [] op = "push"   -> ArrayPush(cx, arr, vals[2])
       [] op = "remove" -> ArrayRemove(cx, arr, vals[2])
       [] op \in {"remove_at", "reverse", "clone", "clear", "shuffle", "sort", "slice"} ->
            Derive(cx, arr.r, el, op)
       [] op = "join" -> Join1(cx, arr.r, el, vals[2])
       [] op \in {"every", "some"} -> Every(cx, arr.r, el, vals[2])
       [] OTHER -> Bad(cx, "unsupported arrays operation")

\* ---- Routed modules ------------------------------------------------------
\* emit_sort_op: sorted by the type of the elements, or by a comparator that
\* the runtime calls; a search borrows the array and the value.
SortOp(cx, f, vals) ==
  LET arr == vals[1]
      el  == ElemTy(arr.ty)
      key == IF el = AnyT THEN StrT ELSE el
      cmp == vals[2].ty
  IN CASE el.k \notin {"int", "float", "str", "any"} -> Bad(cx, "cannot be sorted")
       [] f = "stable_sort" -> Get(cx, "derive", <<arr.r>>, ArrT(el), "sort")
       [] f = "sort_by" -> IF cmp.k # "fn" \/ cmp.of # <<key, key, BoolT>> THEN Bad(cx, "comparator")
                           ELSE Get(cx, "derive", <<arr.r>>, ArrT(el), "sort")
       [] f = "binary_search" -> Val(Put(cx, "use", <<arr.r, vals[2].r>>, arr.ty), 0, IntT)
       [] OTHER -> Bad(cx, "unsupported sort operation")

\* emit_random_op
RandomOp(cx, f, vals) ==
  LET arr == vals[1]
      el  == ElemTy(arr.ty)
  IN CASE f = "shuffle" -> Get(cx, "derive", <<arr.r>>, ArrT(el), "shuffle")
       [] el.k \notin {"int", "float"} -> Bad(cx, "weights must be numbers")
       [] OTHER -> Val(Put(cx, "use", <<arr.r>>, arr.ty), 0, IntT)

\* A runtime call that may throw a message of its own.
MayThrow(cx) ==
  LET b == NextBlock(cx)
      c == At(CondBr(Blocks(cx, 2), "any", 0, b, b + 1), b)
  IN At(Br(Put(c, "throw", <<0>>, StrT), b + 1), b + 1)

\* emit_testing_op: a failed assertion throws.
TestingOp(cx, f, vals) ==
  LET regs == [i \in DOMAIN vals |-> vals[i].r]
      same == f \in {"assert_eq", "assert_ne"}
  IN CASE f = "bench" -> IF vals[1].ty.k = "fn" THEN Val(cx, 0, T("float")) ELSE Bad(cx, "bench")
       [] same /\ vals[1].ty.k \notin {"int", "float", "bool", "str"} -> Bad(cx, "assertion")
       [] same \/ f \in {"assert_true", "assert_false"} ->
            Val(MayThrow(Put(cx, "use", regs, StrT)), 0, BoolT)
       [] OTHER -> Bad(cx, "unsupported testing operation")

\* emit_process_op: the worker takes one int and returns nothing.
ProcessOp(cx, f, vals) ==
  IF vals[1].ty.k = "fn" /\ vals[1].ty.of = <<IntT, VoidT>> THEN Val(cx, 0, IntT)
  ELSE Bad(cx, "worker")

\* emit_routed_module_op, and which calls are routed.
Routed(m, f) == \/ m \in {"sort", "testing"}
                \/ m = "random" /\ f \in {"shuffle", "weighted"}
                \/ m = "process" /\ f = "spawn_thread"
RoutedOp(cx, m, f, vals) ==
  CASE m = "sort"    -> SortOp(cx, f, vals)
    [] m = "random"  -> RandomOp(cx, f, vals)
    [] m = "testing" -> TestingOp(cx, f, vals)
    [] OTHER         -> ProcessOp(cx, f, vals)

\* ---- Instances ---------------------------------------------------------
\* emit_member_gep: the class whose fields are reached through a value.
ClassOf(t) == CASE t.k = "class" -> t.n
                [] t.k \in {"view", "own", "ref"} /\ Inner(t).k = "class" -> Inner(t).n
                [] OTHER -> ""
FieldOf(cx, cls, x) ==
  IF cls \notin DOMAIN cx.env.cls THEN {} ELSE {f \in Range(cx.env.cls[cls].fields) : f.n = x}

\* emit_member_access on cx.v: a field is borrowed from its instance, a
\* property of a JSON object is a new string.
MemberOf(cx, x) ==
  LET t  == cx.v.ty
      fs == FieldOf(cx, ClassOf(t), x)
  IN CASE t.k = "class" /\ t.n \in DOMAIN cx.env.enums -> Val(cx, 0, IntT)
       [] PeelView(t).k = "object" -> Get(cx, "str", <<cx.v.r>>, StrT, "")
       [] fs # {} -> Get(cx, "field", <<cx.v.r>>, (CHOOSE f \in fs : TRUE).ty, x)
       [] OTHER -> Val(cx, 0, AnyT)

\* store_into_field: cx.v, the value of e, becomes the field x of obj.
StoreField(cx, obj, x, ty, e) ==
  LET v   == cx.v
      set(c)  == Do(c, "setfield", <<obj, c.v.r>>, ty, x)
      drop(c) == Do(c, "dropfield", <<obj>>, ty, x)
      old(c)  == IF ty.k \in {"str", "array"} THEN Do(c, "dropfieldold", <<obj, c.v.r>>, ty, x)
                 ELSE c
  IN CASE ty.k = "shared" ->
            NullIf(e.n \in cx.owned /\ v.ty.k # "shared", set(drop(BoxShared(cx, ty, e))), e)
       [] ty.k = "option" ->
            NullIf(v.ty.k \notin {"option", "nil"},
                   set(IF v.ty.k = "nil" THEN drop(cx) ELSE AdoptCell(drop(cx), ty, e)), e)
       [] OTHER -> NullIf(Owned(cx, e, v.ty), set(old(CloneIfLit(cx, e, ty))), e)

\* emit_partial_construction_cleanup: an instance whose init threw is dropped.
CleanupPartial(cx, obj) ==
  LET c == WithHandler(cx)
      b == NextBlock(c)
      d == At(CondBr(Blocks(c, 2), "exc", 0, b, b + 1), b)
  IN IF cx.checks THEN At(Br(DropValue(d, obj), Handler(c)), b + 1) ELSE cx

RECURSIVE EmitExpr(_, _)

\* emit_call_arguments: every argument in order; the context and the values.
Collect(p, c) == <<c, Append(p[2], c.v)>>
EmitAll(cx, es) ==
  Fold(LAMBDA p, e : Collect(p, EmitExpr(p[1], e)), <<cx, <<>> >>, es)

\* A new instance: on the heap, or in the slot cx.home of the frame.
NewObj(cx, cls) == IF cx.home = 0 THEN Get(cx, "new", <<>>, ClassT(cls), "")
                   ELSE [Get(cx, "newstack", <<cx.home>>, ClassT(cls), "") EXCEPT !.home = 0]

\* emit_class_constructor: cx.v is a zeroed instance, on the heap or in a stack
\* slot; then its declared initializers and `init', or defaults for the string
\* and array fields left.
FieldTable(cx, obj)  == cx.env.cls[obj.ty.n].fields
SetNew(cx, obj, f)  == Do(cx, "setfield", <<obj.r, cx.v.r>>, f.ty, f.n)
Declared(cx, obj, f) ==
  IF IsNone(f.init) THEN cx ELSE StoreField(EmitExpr(cx, f.init), obj.r, f.n, f.ty, f.init)
Default(cx, obj, f) ==
  CASE ~IsNone(f.init)  -> cx
    [] f.ty.k = "array" -> SetNew(Get(cx, "arr", <<>>, f.ty, ""), obj, f)
    [] f.ty.k = "str"   -> SetNew(CloneStr(EmitString(cx)), obj, f)
    [] OTHER            -> cx
CallInit(cx, obj, init) == Do(cx, "call", <<obj.r>> \o ArgRegs(cx), VoidT, init)
Initialize(cx, obj, es, vals) ==
  LET init == obj.ty.n \o ".init"
      tys  == cx.env.fns[init].params
  IN CASE init \in DOMAIN cx.env.fns ->
            CleanupPartial(DropBorrowedArgs(CallInit(PrepareArgs(cx, es, vals, tys), obj, init),
                                            es, vals, tys), obj)
       [] es # <<>> -> Bad(cx, "constructed with arguments without init")
       [] OTHER     -> Fold(LAMBDA c, f : Default(c, obj, f), cx, FieldTable(cx, obj))
Construct(cx, es, vals) ==
  LET obj == cx.v IN
  [Initialize(Fold(LAMBDA c, f : Declared(c, obj, f), cx, FieldTable(cx, obj)), obj, es, vals)
     EXCEPT !.v = obj]

\* ---- Calls -------------------------------------------------------------
\* A call of the function or method f with the receiver's register, if any.
CallWith(cx, op, f, recv, ret) == Get(cx, op, recv \o ArgRegs(cx), ret, f)
CallUser(cx, f, recv, es, vals) ==
  LET sig == cx.env.fns[f] IN
  PendingCheck(DropBorrowedArgs(CallWith(PrepareArgs(cx, es, vals, sig.params),
                                         "call", f, recv, sig.ret), es, vals, sig.params))

\* class_method_declaring_class: the class, or the ancestor, that has m.
RECURSIVE Declaring(_, _, _)
Declaring(cx, cls, m) ==
  CASE cls \o "." \o m \in DOMAIN cx.env.fns -> cls
    [] cls \in DOMAIN cx.env.cls -> Declaring(cx, cx.env.cls[cls].parent, m)
    [] OTHER -> ""

\* emit_box_value
BoxOwn(cx) ==
  CASE cx.v.ty.k = "own"   -> cx
    [] cx.v.ty.k = "class" -> Typed(cx, OwnT(cx.v.ty))
    [] OTHER -> Get(cx, "cell", <<cx.v.r>>, OwnT(cx.v.ty), "")

\* The builtins called by name.
CallBuiltin(cx, f, es, vals) ==
  LET x  == vals[1]
      c0 == [cx EXCEPT !.v = x]
      ty == IF f = "Ok" THEN ResultT(x.ty, StrT) ELSE ResultT(AnyT, x.ty)
      b  == BoxResult(c0, ty, es[1], f)
      s  == Stringify(c0)
  IN CASE f = "alloc" -> BoxOwn(c0)
       [] f \in {"Ok", "Err"} ->
            DropBorrowedArgs(IF OwnedHandle(x.ty) THEN NullIfVar(b, es[1]) ELSE b, es, vals, <<>>)
       [] f = "say" ->
            Val(DropBorrowedArgs(Put(s, "use", <<s.v.r>>, StrT), es, vals, <<>>), 0, VoidT)

\* A call of a plain name: the builtins, then functions, function values and
\* constructors.
CallName(cx, f, es, vals) ==
  CASE f \in {"alloc", "Ok", "Err", "say"} -> CallBuiltin(cx, f, es, vals)
    [] f \in DOMAIN cx.env.fns -> CallUser(cx, f, <<>>, es, vals)
    [] f \in DOMAIN cx.vars /\ cx.vars[f].ty.k = "fn" ->
         CallUser(cx, cx.vars[f].ty.n, <<>>, es, vals)
    [] f \in DOMAIN cx.env.cls -> PendingCheck(Construct(NewObj(cx, f), es, vals))
    [] OTHER -> Bad(cx, "undefined function")

\* chan.new: the type the slot is declared with decides what the channel owns.
NewChan(cx) ==
  Get(cx, "chan", <<>>, ChanT(IF cx.want.k = "chan" THEN Inner(cx.want) ELSE AnyT), "")

\* The native ABI: arguments are borrowed, a string or array it returns is new.
CallNative(cx, ty, regs) ==
  CASE ty.k = "str"   -> Get(cx, "str", regs, StrT, "")
    [] ty.k = "array" -> Get(Put(cx, "use", regs, ty), "arr", <<>>, ty, "")
    [] OTHER          -> Val(Put(cx, "use", regs, ty), 0, ty)

\* A function of a library module.  The array functions and the routed ones
\* look through a shared first argument.
ModuleOp(cx, m, f, vals) ==
  CASE m = "arrays" -> ArrayOp(cx, f, vals)
    [] Routed(m, f) -> RoutedOp(cx, m, f, vals)
    [] OTHER -> CallNative(cx, cx.env.std[m \o "." \o f], [i \in DOMAIN vals |-> vals[i].r])
CallModule(cx, m, f, es, vals) ==
  LET look == vals # <<>> /\ vals[1].ty.k = "shared" /\ (m = "arrays" \/ Routed(m, f))
      c0   == DerefShared([cx EXCEPT !.v = vals[1]])
      vs   == IF look THEN [vals EXCEPT ![1] = c0.v] ELSE vals
  IN IF m = "chan" THEN NewChan(cx)
     ELSE PendingCheck(DropBorrowedArgs(ModuleOp(IF look THEN c0 ELSE cx, m, f, vs), es, vs, <<>>))

\* emit_dyn_method_call: the callee is loaded from the receiver's vtable; fresh
\* arguments a view parameter borrows are not dropped after it.
CallDyn(cx, m, es, vals) ==
  LET sig == cx.env.dyn[m] IN
  IF m \notin DOMAIN cx.env.dyn THEN Bad(cx, "trait has no such method")
  ELSE PendingCheck(CallWith(PrepareArgs(cx, es, vals, sig.params), "dyncall", m, <<cx.v.r>>, sig.ret))

\* A method: the builtin combinators, dispatch through a vtable, or the method
\* of the declaring class.
CallMethod(cx, recv, object, m, es, vals) ==
  LET fresh == Fresh(cx, object, recv.ty)
      t     == PeelView(recv.ty)
      cls   == Declaring(cx, t.n, m)
      fat   == IF recv.ty.k = "own" THEN Get(cx, "inner", <<recv.r>>, T("dyn"), "")
               ELSE [cx EXCEPT !.v = recv]
  IN CASE recv.ty.k = "result" -> OnResult(cx, m, recv, fresh, es, vals)
       [] recv.ty.k = "option" -> OnOption(cx, m, recv, fresh, es, vals)
       [] IsDyn(recv.ty) -> CallDyn(fat, m, es, vals)
       [] cls = "" -> Bad(cx, "undefined method")
       [] OTHER -> CallUser(cx, cls \o "." \o m, <<recv.r>>, es, vals)

\* flatten_call_arguments, flatten_array_elements: the elements of a spread
\* array literal stand in its place.
RECURSIVE Flatten(_)
Flatten(es) ==
  IF es = <<>> THEN <<>>
  ELSE LET e == Head(es) IN
       (IF e.k = "Spread" /\ e.c[1].k = "ArrayLiteral" THEN Flatten(e.c[1].c) ELSE <<e>>)
       \o Flatten(Tail(es))
BadSpread(es) == \E i \in DOMAIN es : es[i].k = "Spread"

\* emit_call: the arguments, then what the callee is.  A method's receiver is
\* evaluated before them.
EmitCall(cx, f, args) ==
  LET es  == Flatten(args)
      lib == f.k = "Member" /\ IsVar(f.c[1]) /\ f.c[1].n \notin DOMAIN cx.vars
             /\ f.c[1].n \o "." \o f.n \in DOMAIN cx.env.std
      rc  == DerefShared(EmitExpr(cx, f.c[1]))
      p   == EmitAll(IF IsVar(f) \/ lib \/ f.k # "Member" THEN cx ELSE rc, es)
  IN IF IsVar(f) /\ f.n \in Waits THEN EmitWait(cx, f.n, args) ELSE
     Force(<<p>>,
     CASE BadSpread(es) -> Bad(cx, "spread of something else")
       [] IsVar(f)       -> CallName(p[1], f.n, es, p[2])
       [] lib            -> CallModule(p[1], f.c[1].n, f.n, es, p[2])
       [] f.k = "Member" -> CallMethod(p[1], rc.v, f.c[1], f.n, es, p[2])
       [] OTHER -> LET c == EmitExpr(p[1], f)
                   IN IF c.v.ty.k = "fn" THEN CallUser(c, c.v.ty.n, <<>>, es, p[2])
                      ELSE Bad(c, "not callable"))

Arith    == {"+", "-", "*", "/", "%", "<<", ">>"}
Compare  == {"==", "!=", "<", "<=", ">", ">="}
ScalarTys == {"int", "float", "bool"}

\* try_emit_operator_method: no check for an exception follows.
OperatorMethod(cx, op, a, b) ==
  LET cls == IF a.ty.k = "class" THEN Declaring(cx, a.ty.n, op) ELSE "" IN
  IF op \notin Arith \cup Compare THEN "" ELSE cls

\* A concatenation renders scalars into strings it drops again, with the
\* operands nobody owns.
Concat(cx, e, a, f, b) ==
  LET sa  == Stringify([cx EXCEPT !.v = a])
      sb  == Stringify([sa EXCEPT !.v = b])
      cat == Get(sb, "str", <<sa.v.r, sb.v.r>>, StrT, "")
      temp(c, x, v, s) == IF v.ty.k # "str" THEN DropValue(c, s) ELSE DropFresh(c, x, v)
  IN [temp(temp(cat, e, a, sa.v), f, b, sb.v) EXCEPT !.v = cat.v]

\* A comparison of strings.
StrCompare(cx, e, a, f, b) ==
  Val(DropFresh(DropFresh(Put(cx, "use", <<a.r, b.r>>, StrT), e, a), f, b), 0, BoolT)

\* Integer arithmetic, its results checked (emit_checked_int_arith,
\* emit_shift_amount_guard, emit_checked_divisor_guard).
IntArith(cx, op) ==
  Val(IF op \in {"/", "%"} THEN GuardThrow(GuardThrow(cx)) ELSE GuardThrow(cx), 0, IntT)

\* Numbers and booleans: bitwise and float arithmetic keep the type, logic and
\* comparisons give a bool.  Both operands have been evaluated: nothing is
\* short-circuited.
ScalarOp(cx, op, ty) == Val(cx, 0, IF op \in Arith \cup {"&", "|", "^"} THEN ty ELSE BoolT)

\* nil and options: compared by address, anything else is an error.
NilCompare(cx, op) ==
  IF op \in {"==", "!="} THEN Val(cx, 0, BoolT) ELSE Bad(cx, "unsupported operator")

\* emit_binary
EmitBinary(cx, op, e, f) ==
  LET ca  == EmitExpr(cx, e)
      a   == [ca.v EXCEPT !.ty = PeelView(@)]
      cb  == EmitExpr(ca, f)
      b   == [cb.v EXCEPT !.ty = PeelView(@)]
      cls == OperatorMethod(cb, op, a, b)
      m   == cls \o "." \o op
      ks  == {a.ty.k, b.ty.k}
      strings  == "str" \in ks /\ ks \subseteq {"str", "any"} \cup ScalarTys
      nullable == ks \subseteq {"nil", "option"}
  IN Force(<<ca, cb>>,
     CASE cls # "" -> Get(cb, "call", <<a.r, b.r>>, cb.env.fns[m].ret, m)
       [] strings /\ op = "+" -> Concat(cb, e, a, f, b)
       [] ks = {"str"} /\ op \in {"==", "!="} -> StrCompare(cb, e, a, f, b)
       [] ks = {"int"} /\ op \in Arith -> IntArith(cb, op)
       [] ks \subseteq ScalarTys -> ScalarOp(cb, op, a.ty)
       [] nullable -> NilCompare(cb, op)
       [] strings  -> Bad(cb, "unsupported operator")
       [] OTHER -> Val(cb, 0, AnyT))

\* emit_unary
EmitUnary(cx, op, e) ==
  LET c   == EmitExpr(cx, e)
      cls == IF c.v.ty.k = "class" THEN Declaring(c, c.v.ty.n, op) ELSE ""
      m   == cls \o "." \o op
  IN CASE cls # "" -> Get(c, "call", <<c.v.r>>, c.env.fns[m].ret, m)
       [] op = "-" /\ c.v.ty.k = "int" -> Val(GuardThrow(c), 0, IntT)
       [] op = "!" -> Val(c, 0, BoolT)
       [] OTHER    -> Val(c, 0, IF c.v.ty.k \in ScalarTys THEN c.v.ty ELSE AnyT)

\* Literals.
EmitLiteral(cx, k) ==
  CASE k = "Str"  -> EmitString(cx)
    [] k = "Num"  -> Val(cx, 0, IntT)
    [] k = "Bool" -> Val(cx, 0, BoolT)
    [] OTHER      -> Val(cx, 0, NilT)

\* emit_static_const_variable: a string constant is a permanent handle too.
EmitConst(cx, x) ==
  LET c == cx.env.consts[x] IN IF IsStrLit(c.init) THEN EmitString(cx) ELSE Val(cx, 0, c.ty)

\* enum_value_expression: a member, or the type before its member.
EmitEnum(cx, x) ==
  CASE x \in UNION {cx.env.enums[t] : t \in DOMAIN cx.env.enums} -> Val(cx, 0, IntT)
    [] x \in DOMAIN cx.env.enums -> Val(cx, 0, ClassT(x))
    [] OTHER -> Bad(cx, "undefined variable")

\* function_reference: the address of a function, but not of main.
FunctionReference(cx, x) == Val(cx, 0, FnT(x, cx.env.fns[x].params, cx.env.fns[x].ret))

\* emit_variable: a local, a constant, an enum's, or a function.
EmitVariable(cx, x) ==
  LET enum == EmitEnum(cx, x) IN
  CASE x \in DOMAIN cx.vars -> Get(cx, "load", <<cx.vars[x].slot>>, cx.vars[x].ty, "")
    [] x \in DOMAIN cx.env.consts -> EmitConst(cx, x)
    [] enum.bad # cx.bad /\ x \in DOMAIN cx.env.fns \ {"main"} -> FunctionReference(cx, x)
    [] OTHER -> enum

\* The slots correct_empty_array_flag retypes: `[]' into an array of strings.
FixEmpty(cx, e, ty) ==
  LET t == IF ty.k = "shared" THEN Inner(ty) ELSE ty IN
  IF e.k = "ArrayLiteral" /\ e.c = <<>> /\ t.k = "array"
  THEN Put(cx, "setflag", <<cx.v.r>>, t) ELSE cx

\* emit_assign: take the new value before the old one is given up.
EmitAssign(cx, x, e) ==
  LET c   == EmitExpr(cx, e)
      v   == c.v
      s   == cx.vars[x].slot
      ty  == cx.vars[x].ty
      done(d) == [d EXCEPT !.v = v]
      other == IsVar(e) /\ e.n # x
  IN IF x \notin DOMAIN cx.vars THEN Bad(c, "undefined variable")
     ELSE CASE ty.k = "shared" ->
                 LET d == BoxShared(c, ty, e)
                     f == IF x \in c.owned THEN DropSlot(d, s, ty) ELSE d
                 IN done(NullIf(v.ty.k # "shared", MarkOwned(StoreTo(f, s), x, ty), e))
            [] ty.k = "option" ->
                 LET d == DropSlot(c, s, ty)
                     f == IF v.ty.k = "nil" THEN d ELSE AdoptCell(d, ty, e)
                 IN done(NullIf(v.ty.k \notin {"option", "nil"}, MarkOwned(StoreTo(f, s), x, ty), e))
            [] IsDyn(ty) ->
                 LET ok == v.ty.k = "dyn" \/ (v.ty.k \in {"class", "own"} /\ FreshConstruction(c, e))
                     d  == IF v.ty.k = "dyn" THEN c ELSE Coerce(c, ty)
                     f  == IF x \in c.owned THEN DropReplaced(d, s, ty, d.v) ELSE d
                 IN IF ~ok THEN Bad(c, "cannot assign to a trait object")
                    ELSE done(NullIf(other, MarkOwned(StoreTo(f, s), x, ty), e))
            [] ty.k = "chan" ->
                 LET d == RetainChan(c, e) IN done(StoreTo(DropReplaced(d, s, ty, v), s))
            [] OTHER ->
                 LET own == Owned(c, e, v.ty)
                     d   == CloneIfLit(FixEmpty(c, e, ty), e, ty)
                     f   == IF x \in c.owned THEN DropReplaced(d, s, ty, d.v) ELSE d
                     g   == StoreTo(f, s)
                     h   == IF own /\ ty.k \in {"array", "str"} THEN MarkOwned(g, x, ty) ELSE g
                 IN done(NullIf(own /\ other, h, e))

\* emit_ternary.  The phi names the blocks the branches start in, so a branch
\* that ends in another block makes the function ill-formed.
EmitTernary(cx, c) ==
  LET s    == Alloca(EmitExpr(cx, c[1]), "", AnyT)
      b    == NextBlock(s)
      one  == EmitExpr(At(CondBr(Blocks(s, 3), "any", 0, b, b + 1), b), c[2])
      two  == EmitExpr(At(Br(StoreTo(one, NewSlot(s)), b + 2), b + 1), c[3])
      end  == At(Br(StoreTo(two, NewSlot(s)), b + 2), b + 2)
      res  == Get(end, "load", <<NewSlot(s)>>, one.v.ty, "")
  IN IF one.cur = b /\ two.cur = b + 1 THEN res ELSE Bad(res, "phi predecessor")

\* return cx.v when what is owned has been dropped.
RetValue(cx) == Ret(DropAllOwned(cx), cx.v.r)

\* emit_propagate: an Err leaves the function with what it owns dropped.
EmitPropagate(cx, e) ==
  LET c     == EmitExpr(cx, e)
      cell  == c.v
      fresh == Fresh(c, e, cell.ty)
      b     == NextBlock(c)
      ok    == TakePayload(At(CondBr(Blocks(c, 3), "tag", cell.r, b, b + 1), b), cell.r,
                           cell.ty.of[1], fresh)
      err0  == At(Br(ok, b + 2), b + 1)
      read  == Get(err0, "inner", <<cell.r>>, cell.ty.of[2], "")
      free(x) == IF fresh THEN Put(x, "free", <<cell.r>>, cell.ty) ELSE x
      err   == CASE c.ret.of[2].k = "str" /\ cell.ty.of[2].k # "str" -> free(Stringify(read))
                 [] fresh -> free(read)
                 [] OTHER -> CopyValue(read)
  IN IF cell.ty.k # "result" \/ c.ret.k # "result" THEN Bad(c, "? without a result")
     ELSE [At(RetValue(BoxResult(Coerce(err, c.ret.of[2]), c.ret, e, "Err")), b + 2) EXCEPT !.v = ok.v]

\* An element: out of an array nobody owns it is copied before the array goes.
EmitIndexGet(cx, e, i) ==
  LET o  == DerefShared(EmitExpr(cx, e))
      c  == EmitExpr(o, i)
      ty == PeelView(o.v.ty)
      g  == PendingCheck(Get(c, "elem", <<o.v.r>>, Inner(ty), ""))
      k  == IF Inner(ty).k \in {"array", "str"} THEN CopyOwned(g) ELSE g
  IN CASE o.v.ty.k = "slice" -> PendingCheck(Get(c, "elem", <<o.v.r>>, Inner(o.v.ty), ""))
       [] ty.k # "array" \/ Inner(ty) = AnyT -> Element(c, <<o.v.r>>, AnyT)
       [] Fresh(c, e, o.v.ty) -> [DropValue(k, o.v) EXCEPT !.v = k.v]
       [] OTHER -> g

\* The value, the array, the index; the old element goes when the new one is
\* in.  The runtime copies strings and drops the ones replaced.
EmitIndexSet(cx, e, i, x) ==
  LET val == EmitExpr(cx, x)
      v   == val.v
      o   == DerefShared(EmitExpr(val, e))
      c   == EmitExpr(o, i)
      own == v.ty.k \in {"array", "option", "shared"}
      old == IF own THEN Get(c, "elem", <<o.v.r>>, v.ty, "") ELSE c
      new == CASE v.ty.k = "option" -> Get(old, "copy", <<v.r>>, v.ty, "")
               [] v.ty.k = "shared" -> Val(Put(old, "retain", <<v.r>>, v.ty), v.r, v.ty)
               [] OTHER -> Val(old, v.r, v.ty)
      set == PendingCheck(Put(new, "set", <<o.v.r, new.v.r>>, o.v.ty))
  IN [(IF own THEN DropValue(set, old.v) ELSE set) EXCEPT !.v = v]

\* An array literal: cells are copied and boxes retained for the array.
EmitArray(cx, elements) ==
  LET es == Flatten(elements)
      p  == EmitAll(cx, es)
      el == IF es = <<>> THEN AnyT ELSE p[2][1].ty
      own(q, v) == LET c == CASE el.k = "option" -> Get(q[1], "copy", <<v.r>>, v.ty, "")
                              [] el.k = "shared" -> Val(Put(q[1], "retain", <<v.r>>, v.ty), v.r, el)
                              [] OTHER -> [q[1] EXCEPT !.v = v]
                   IN <<c, Append(q[2], c.v.r)>>
      q  == Fold(own, <<p[1], <<>> >>, p[2])
  IN IF BadSpread(es) THEN Bad(cx, "spread of something else")
     ELSE Get(q[1], "arr", q[2], ArrT(el), "")

\* An object literal: its text is concatenated piece by piece, each piece
\* dropped once it is in, and parsed.
\* cx.args is the text so far: its register, if it is not a literal.
DropText(cx, regs)     == IF regs = <<>> THEN cx ELSE Put(cx, "drop", regs, StrT)
AddText(cx, r, temp) ==
  LET d == Get(cx, "str", cx.args \o <<r>>, StrT, "")
  IN [DropText(DropText(d, cx.args), IF temp THEN <<r>> ELSE <<>>) EXCEPT !.args = <<d.v.r>>]
AddLit(cx, text) == AddText([cx EXCEPT !.args = text], cx.v.r, FALSE)
AddProperty(cx, text, e) ==
  LET temp == cx.v.ty.k \in {"str"} \cup ScalarTys
      j    == IF temp THEN Get(cx, "str", <<cx.v.r>>, StrT, "") ELSE EmitString(cx)
  IN AddText(AddLit(EmitString(DropFresh(j, e, cx.v)), text), j.v.r, temp)
ParseText(cx) == DropText(Get(cx, "str", cx.args, ObjT, ""), cx.args)
EndText(cx)   == AddLit(EmitString(cx), cx.args)
EmitObject(cx, props) ==
  ParseText(EndText(Fold(LAMBDA c, e : AddProperty(EmitExpr(c, e), c.args, e),
                         [EmitString(cx) EXCEPT !.args = <<>>], props)))

\* A member that may be absent.  Only a pointer can be tested for null; what
\* is not a pointer when it is read becomes null in the merged value.
EmitOptionalMember(cx, e, x) ==
  LET o == DerefShared(EmitExpr(cx, e)) IN
  IF o.v.ty.k \notin {"class", "own", "option", "ref", "dyn", "nil"} THEN MemberOf(o, x)
  ELSE Branch(o, "null", o.v.r, AnyT, LAMBDA c : Val(c, 0, AnyT),
              LAMBDA c : LET m == MemberOf(c, x)
                         IN IF m.v.ty.k \in {"class", "own", "option"} THEN Typed(m, AnyT)
                            ELSE Val(m, 0, AnyT))

\* A struct literal is a call of `init' with the fields in declared order, or
\* an instance whose fields are assigned; the base fills in the rest.
Given(c)       == {c[i].n : i \in 1..(Len(c) - 1)}
ValueOf(c, x)  == c[CHOOSE i \in 1..(Len(c) - 1) : c[i].n = x].c[1]
Read(cx, v, x) == MemberOf([cx EXCEPT !.v = v], x)
FromBase(c, x) == N("Member", x, <<Last(c)>>)

\* The arguments of `init': contexts, values and expressions.
AddArg(p, x, e) == <<x, Append(p[2], x.v), Append(p[3], e)>>
StructArgs(cx, fs, c) ==
  LET arg(p, f) == CASE f.n \in Given(c)  -> AddArg(p, EmitExpr(p[1], ValueOf(c, f.n)), ValueOf(c, f.n))
                     [] ~IsNone(Last(c)) -> AddArg(p, Read(p[1], cx.v, f.n), FromBase(c, f.n))
                     [] OTHER -> p
  IN Fold(arg, <<cx, <<>>, <<>> >>, fs)
StructInit(p, cls) == Construct(NewObj(p[1], cls), p[3], p[2])

\* cx.v is the new instance, base the value the fields not given come from.
StructFields(cx, base, fs, c) ==
  LET obj == cx.v
      one(x, g) == LET f == CHOOSE f \in Range(fs) : f.n = g.n
                   IN StoreField(EmitExpr(x, g.c[1]), obj.r, f.n, f.ty, g.c[1])
      rest(x, f) == StoreField(CopyOwned(Read(x, base, f.n)), obj.r, f.n, f.ty, FromBase(c, f.n))
      left == IF IsNone(Last(c)) THEN <<>> ELSE SelectSeq(fs, LAMBDA f : f.n \notin Given(c))
  IN [Fold(rest, Fold(one, cx, Front(c)), left) EXCEPT !.v = obj]
EmitStruct(cx, cls, c) ==
  LET c0 == IF IsNone(Last(c)) THEN cx ELSE EmitExpr(cx, Last(c))
      fs == cx.env.cls[cls].fields
  IN CASE cls \notin DOMAIN cx.env.cls -> Bad(cx, "not a class")
       [] cls \o ".init" \in DOMAIN cx.env.fns -> StructInit(StructArgs(c0, fs, c), cls)
       [] OTHER -> StructFields(Construct(NewObj(c0, cls), <<>>, <<>>), c0.v, fs, c)

\* x++ and x--
EmitPostfix(cx, e) ==
  LET x == EmitExpr(cx, e)
  IN IF IsVar(e) /\ x.v.ty.k = "int" THEN Val(GuardThrow(x), 0, IntT) ELSE x

\* o.f = x: the value is evaluated before the object.
EmitMemberSet(cx, e, f, x) ==
  LET v  == EmitExpr(cx, x)
      o  == DerefShared(EmitExpr(v, e))
      fs == FieldOf(o, ClassOf(o.v.ty), f)
  IN IF fs = {} THEN [o EXCEPT !.v = v.v]
     ELSE [StoreField([o EXCEPT !.v = v.v], o.v.r, f, (CHOOSE g \in fs : TRUE).ty, x)
             EXCEPT !.v = v.v]

\* `this', or null outside a method.
EmitThis(cx) == IF "this" \in DOMAIN cx.vars THEN EmitVariable(cx, "this") ELSE Val(cx, 0, AnyT)

\* A tuple is a plain aggregate of its elements' values: nothing is copied,
\* moved or retained when it is made or read.
TupleT(tys) == Ty("tuple", "", tys)
EmitTuple(cx, es) ==
  LET p == EmitAll(cx, es)
  IN Get(p[1], "tuple", [i \in DOMAIN es |-> p[2][i].r], TupleT([i \in DOMAIN es |-> p[2][i].ty]), "")
TuplePart(cx, i) == Get(cx, "part", <<cx.v.r, i>>, cx.v.ty.of[i], "")
EmitTupleIndex(cx, e, n) ==
  LET c == EmitExpr(cx, e)
      i == SelectInSeq(<<"0", "1", "2", "3">>, LAMBDA d : d = n)
  IN IF c.v.ty.k = "tuple" /\ i \in DOMAIN c.v.ty.of THEN TuplePart(c, i) ELSE Bad(c, "not a tuple")

\* A lambda captures nothing: its value is the address of a function of its
\* own (EmitLambda of EmitStmt), here named by e.n.
LambdaSig(e) == [params |-> [i \in 1..(Len(e.c) - 1) |-> e.c[i].ty],
                 ret |-> IF e.ty = NoTy THEN VoidT ELSE e.ty]
EmitLambdaValue(cx, e) == Val(cx, 0, FnT(e.n, LambdaSig(e).params, LambdaSig(e).ret))

\* `view e' borrows the value; nothing is emitted for the view itself.
EmitView(cx, e) == LET x == EmitExpr(cx, e) IN Typed(x, ViewT(PeelView(x.v.ty)))

\* close(ch)
EmitClose(cx, e) ==
  LET x == EmitExpr(cx, e) IN Val(Put(x, "close", <<x.v.r>>, x.v.ty), 0, VoidT)

\* emit_expression
EmitExpr(cx, e) ==
  LET c == e.c IN
  CASE e.k \in {"Str", "Num", "Bool", "Nil"} -> EmitLiteral(cx, e.k)
    [] IsVar(e)     -> EmitVariable(cx, e.n)
    [] e.k = "This" -> EmitThis(cx)
    [] e.k \in {"Grouping", "Spread"} -> EmitExpr(cx, c[1])
    [] e.k = "Binary"    -> EmitBinary(cx, e.n, c[1], c[2])
    [] e.k = "Unary"     -> EmitUnary(cx, e.n, c[1])
    [] e.k = "PostfixUnary" -> EmitPostfix(cx, c[1])
    [] e.k = "Call"      -> EmitCall(cx, c[1], Tail(c))
    [] e.k = "Assign"    -> EmitAssign(cx, e.n, c[1])
    [] e.k = "Ternary"   -> EmitTernary(cx, c)
    [] e.k = "Propagate" -> EmitPropagate(cx, c[1])
    [] e.k = "Member"    -> MemberOf(DerefShared(EmitExpr(cx, c[1])), e.n)
    [] e.k = "MemberSet" -> EmitMemberSet(cx, c[1], e.n, c[2])
    [] e.k = "OptionalMember" -> EmitOptionalMember(cx, c[1], e.n)
    [] e.k = "IndexGet"  -> EmitIndexGet(cx, c[1], c[2])
    [] e.k = "IndexSet"  -> EmitIndexSet(cx, c[1], c[2], c[3])
    [] e.k = "ArrayLiteral"  -> EmitArray(cx, c)
    [] e.k = "ObjectLiteral" -> EmitObject(cx, c)
    [] e.k = "StructLiteral" -> EmitStruct(cx, e.n, c)
    [] e.k \in {"View", "ViewMut"} -> EmitView(cx, c[1])
    [] e.k = "Copy"      -> CopyValue(EmitExpr(cx, c[1]))
    [] e.k = "Close"     -> EmitClose(cx, c[1])
    [] e.k = "Tuple"     -> EmitTuple(cx, c)
    [] e.k = "TupleIndex" -> EmitTupleIndex(cx, c[1], e.n)
    [] e.k = "Lambda"    -> EmitLambdaValue(cx, e)
    [] e.k = "AsyncBlock" -> BlockValue(cx, e)
    [] OTHER -> Bad(cx, "not emitted here")
=============================================================================
