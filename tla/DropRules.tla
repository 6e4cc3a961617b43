----------------------------- MODULE DropRules -----------------------------
(***************************************************************************)
(* Who owns the value of an expression, and what the emitter does when it  *)
(* changes hands (emit/drop.rs, with the conversions of emit/helper.rs).   *)
(***************************************************************************)
EXTENDS Emit

\* expr_is_string_literal
RECURSIVE IsStrLit(_)
IsStrLit(e) == e.k = "Str" \/ (e.k = "Grouping" /\ IsStrLit(e.c[1]))

\* The call arm of expr_is_fresh.  A user function counts once its body has
\* begun to be emitted: functions are emitted in source order.
FreshCall(cx, f, ty) ==
  CASE IsVar(f) /\ f.n = "alloc" -> ty.k = "own"
    [] IsVar(f) /\ f.n \in {"Ok", "Err"} -> ty.k = "result"
    [] IsVar(f) -> f.n \in cx.env.begun
    [] f.k = "Member" /\ IsVar(f.c[1]) ->
         LET m == f.c[1].n IN
         CASE m = "arrays" -> ty.k \in {"array"} \cup
                                (IF f.n = "pop" THEN {"str", "option", "shared"} ELSE {})
           [] m = "sort" \/ (m = "random" /\ f.n = "shuffle") -> ty.k = "array"
           [] OTHER -> \/ ty.k = "str"
                       \/ m = "memory" /\ ty.k = "pointer"
                       \/ m = "slices" /\ ty.k \in {"slice", "array"}
                       \/ m = "chan" /\ f.n = "new" /\ ty.k = "chan"
    [] f.k = "Member" -> ty.k \in {"str", "array"}
    [] OTHER -> FALSE

\* expr_is_fresh: the value has no owning slot and is the consumer's to drop.
RECURSIVE Fresh(_, _, _)
Fresh(cx, e, ty) ==
  /\ OwnedHandle(ty)
  /\ CASE e.k \in {"ArrayLiteral", "ObjectLiteral", "Copy"} -> TRUE
       [] e.k = "Grouping" -> Fresh(cx, e.c[1], ty)
       [] e.k = "Binary"   -> e.n = "+" /\ ty.k = "str"
       [] e.k = "IndexGet" -> ty.k \notin {"option", "shared"} /\ Fresh(cx, e.c[1], ArrT(ty))
       [] e.k = "Call"     -> FreshCall(cx, e.c[1], ty)
       [] OTHER            -> FALSE

\* expr_is_owned: fresh, or a bare variable (a move).
Owned(cx, e, ty) == IsVar(e) \/ Fresh(cx, e, ty)

\* emit_drop_value, and its use on a fresh value only.
DropValue(cx, v) == IF OwnedHandle(v.ty) THEN Put(Sweep(cx, v.ty), "drop", <<v.r>>, v.ty) ELSE cx
DropFresh(cx, e, v) == IF Fresh(cx, e, v.ty) THEN DropValue(cx, v) ELSE cx

\* emit_drop_replaced_value: drop the slot's value unless it is the new one.
DropReplaced(cx, slot, ty, v) ==
  IF ty.k \in {"array", "str", "object", "shared", "option", "result", "pointer", "slice",
               "own", "dyn"}
  THEN Put(Sweep(cx, ty), "dropold", <<slot, v.r>>, ty) ELSE cx

\* clone_string_value, retain_chan_value, deref_shared, peel_view.
CloneStr(cx)   == Get(cx, "clone", <<cx.v.r>>, cx.v.ty, "")
CloneIfLit(cx, e, ty) == IF IsStrLit(e) /\ ty.k = "str" THEN CloneStr(cx) ELSE cx
RetainChan(cx, e) ==
  IF cx.v.ty.k = "chan" /\ ~Fresh(cx, e, cx.v.ty) THEN Put(cx, "retain", <<cx.v.r>>, cx.v.ty)
  ELSE cx
DerefShared(cx) ==
  IF cx.v.ty.k = "shared" THEN Get(cx, "inner", <<cx.v.r>>, Inner(cx.v.ty), "") ELSE cx
PeelView(t) == IF t.k = "view" THEN Inner(t) ELSE t

\* A cell allocated around cx.v; the tag of a result.
Cell(cx, ty)        == Get(cx, "cell", <<cx.v.r>>, ty, "")
Tagged(cx, ty, tag) == Do(cx, "tag", <<cx.v.r>>, ty, tag)

\* copy_owned_value: arrays and strings are copied, anything else is shared.
CopyOwned(cx) ==
  IF cx.v.ty.k \in {"array", "str", "object"} THEN Get(cx, "clone", <<cx.v.r>>, cx.v.ty, "")
  ELSE cx

\* box_or_retain_shared
BoxShared(cx, ty, e) ==
  CASE cx.v.ty.k = "shared" ->
         IF Fresh(cx, e, cx.v.ty) THEN cx ELSE Put(cx, "retain", <<cx.v.r>>, cx.v.ty)
    [] OTHER -> Cell(CloneIfLit(cx, e, Inner(ty)), ty)

IsDyn(t) == t.k = "dyn" \/ (t.k = "own" /\ Inner(t).k = "dyn")
Fat(cx)  == IF cx.v.ty.k = "dyn" THEN cx ELSE Cell(cx, T("dyn"))

\* coerce_value: numbers are converted; an instance becomes a fat pointer, in
\* a cell of its own where an `own' is involved.
Coerce(cx, ty) ==
  LET t == cx.v.ty IN
  CASE t = ty \/ ~IsDyn(ty) \/ t.k \notin {"class", "own", "dyn"} ->
         IF t.k \in {"int", "bool", "float"} /\ ty.k \in {"int", "bool", "float"}
         THEN Typed(cx, ty) ELSE cx
    [] ty.k = "dyn" /\ t.k = "class" -> Typed(Fat(cx), ty)
    [] ty.k = "own" \/ (t.k = "own" /\ Inner(t).k = "class") -> Cell(Fat(cx), OwnT(T("dyn")))
    [] OTHER -> cx

\* expr_is_fresh_construction (emit/dyn_obj.rs)
RECURSIVE FreshConstruction(_, _)
FreshConstruction(cx, e) ==
  CASE e.k = "Call" -> IsVar(e.c[1]) /\ (e.c[1].n = "alloc" \/ e.c[1].n \in DOMAIN cx.env.cls)
    [] e.k = "StructLiteral" -> TRUE
    [] e.k = "Grouping" -> FreshConstruction(cx, e.c[1])
    [] OTHER -> FALSE

\* prepare_call_args, one argument: the value passed is cx.v.  The type of a
\* missing parameter is NoTy.
PrepareArg(cx, e, ty) ==
  LET v == cx.v IN
  CASE v.ty.k = "class" /\ IsDyn(ty) ->
         IF FreshConstruction(cx, e) THEN Coerce(cx, ty)
         ELSE Bad(cx, "only a newly constructed instance can become a trait object")
    [] v.ty.k = "class" /\ ~IsDyn(ty) /\ ty.k # "view" ->
         Bad(cx, "cannot pass a class instance by value")
    [] v.ty.k = "shared" ->
         CASE ty.k = "shared" -> BoxShared(cx, ty, e)
           [] ty.k = "view"   -> Typed(DerefShared(cx), ViewT(Inner(v.ty)))
           [] OTHER           -> DerefShared(cx)
    [] v.ty.k = "chan" -> RetainChan(cx, e)
    [] ty.k = "shared" /\ v.ty.k \notin {"class", "shared", "chan"} ->
         NullIf(e.n \in cx.owned, BoxShared(cx, ty, e), e)
    [] ty.k \in {"view", "none"} -> cx
    [] IsVar(e) -> IF e.n \in cx.owned THEN NullVar(cx, e.n) ELSE CopyOwned(cx)
    [] OTHER    -> IF Fresh(cx, e, v.ty) THEN cx ELSE CopyOwned(cx)

ParamAt(tys, i) == IF i \in DOMAIN tys THEN tys[i] ELSE NoTy

\* Over all arguments: the registers to pass are left in cx.args.
Passed(cx) == [cx EXCEPT !.args = Append(@, cx.v)]
PrepareArgs(cx, es, vals, tys) ==
  Fold(LAMBDA c, i : Passed(PrepareArg([c EXCEPT !.v = vals[i]], es[i], ParamAt(tys, i))),
       [cx EXCEPT !.args = <<>>], [i \in DOMAIN es |-> i])
ArgRegs(cx)  == [i \in DOMAIN cx.args |-> cx.args[i].r]
FirstArg(cx) == [cx EXCEPT !.v = cx.args[1]]

\* emit_drop_borrowed_fresh_args: what a view parameter borrowed is the
\* caller's to drop after the call.
DropBorrowedArgs(cx, es, vals, tys) ==
  Fold(LAMBDA c, i : IF ParamAt(tys, i).k \in {"view", "none"} THEN DropFresh(c, es[i], vals[i])
                     ELSE c,
       cx, [i \in DOMAIN es |-> i])

\* box_option_value
BoxOption(cx, ty, e) == Cell(CloneIfLit(cx, e, Inner(ty)), ty)

\* The cell an option or result slot adopts: a fresh cell itself, a copy of
\* somebody's cell, or a new one around a plain value.
AdoptCell(cx, ty, e) ==
  CASE cx.v.ty.k # ty.k -> IF ty.k = "result" THEN Tagged(BoxOption(cx, ty, e), ty, "Ok")
                           ELSE BoxOption(cx, ty, e)
    [] Fresh(cx, e, cx.v.ty) -> cx
    [] OTHER -> Get(cx, "copy", <<cx.v.r>>, ty, "")

StoreTo(cx, slot) == Put(cx, "store", <<slot, cx.v.r>>, cx.v.ty)
Owns(cx, b)       == [cx EXCEPT !.owns = b]

\* store_into_owned_slot: cx.owns says whether the slot owns a value now.
StoreOwned(cx, slot, ty, e) ==
  LET v == cx.v IN
  CASE ty.k = "shared" ->
         Owns(NullIf(v.ty.k # "shared", StoreTo(BoxShared(cx, ty, e), slot), e), TRUE)
    [] ty.k = "dyn" -> Owns(NullIfVar(StoreTo(cx, slot), e), TRUE)
    [] ty.k = "option" /\ v.ty.k = "nil" -> Owns(StoreTo(cx, slot), FALSE)
    [] ty.k \in {"option", "result"} /\ v.ty.k # "nil" ->
         Owns(NullIf(v.ty.k # ty.k, StoreTo(AdoptCell(cx, ty, e), slot), e), TRUE)
    [] ty.k = "chan" -> Owns(StoreTo(RetainChan(cx, e), slot), TRUE)
    [] OTHER ->
         LET own == (IsStrLit(e) /\ ty.k = "str") \/ Owned(cx, e, v.ty)
         IN Owns(NullIf(own, StoreTo(CloneIfLit(cx, e, ty), slot), e), own)
=============================================================================
