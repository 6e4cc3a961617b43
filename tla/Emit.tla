-------------------------------- MODULE Emit --------------------------------
(***************************************************************************)
(* The function context of the code generator (emit/mod.rs): the basic     *)
(* blocks emitted so far and what the emitter knows while it walks a       *)
(* body.  Emission is a fold of operators cx -> cx; cx.v is the register   *)
(* and type of the expression emitted last.                                *)
(*                                                                         *)
(* An instruction is [op, d, a, ty, n]: operation, result register (0 for  *)
(* none), operand registers or slots, type and field or function.          *)
(* Register 0 is the null constant and stands for every scalar.            *)
(*                                                                         *)
(* cx.poll says that the code belongs to a future (future_base), cx.checks *)
(* that calls are followed by a check for an exception, cx.named that a    *)
(* named slot is a field of the future, and cx.fields which one; cx.blocks *)
(* names the async blocks of the function.                                 *)
(***************************************************************************)
EXTENDS Escape, Integers, TLC

NoTerm == [k |-> "none", a |-> <<>>, to |-> <<>>]
Empty  == [ins |-> <<>>, term |-> NoTerm]

\* FunctionContext::new: an entry block and nothing else.
NewContext(env, ret, places, drops) ==
  [env |-> env, ret |-> ret, stack |-> places, drops |-> drops,
   code |-> <<Empty>>, cur |-> 1, regs |-> 0, slots |-> <<>>, v |-> [r |-> 0, ty |-> VoidT],
   vars |-> <<>>, owned |-> {}, shadowed |-> <<>>, loops |-> <<>>, handlers |-> <<>>,
   excRet |-> 0, want |-> NoTy, args |-> <<>>, owns |-> FALSE, bad |-> {}, slot |-> 0, home |-> 0,
   poll |-> FALSE, checks |-> TRUE, named |-> FALSE, fields |-> <<>>, blocks |-> <<>>]

Bad(cx, why)   == [cx EXCEPT !.bad = @ \cup {why}]
Terminated(cx) == cx.code[cx.cur].term.k # "none"

\* The builder: append an instruction or the terminator to the current block.
\* Anything appended after a terminator makes the block ill-formed.
Append1(cx, i) ==
  IF Terminated(cx) THEN Bad(cx, "after terminator")
  ELSE [cx EXCEPT !.code[cx.cur].ins = Append(@, i)]
Term(cx, k, a, to) ==
  IF Terminated(cx) THEN Bad(cx, "second terminator")
  ELSE [cx EXCEPT !.code[cx.cur].term = [k |-> k, a |-> a, to |-> to]]
Do(cx, op, a, ty, n) == Append1(cx, [op |-> op, d |-> 0, a |-> a, ty |-> ty, n |-> n])
Get(cx, op, a, ty, n) ==
  LET r == cx.regs + 1
  IN [Append1(cx, [op |-> op, d |-> r, a |-> a, ty |-> ty, n |-> n])
        EXCEPT !.regs = r, !.v = [r |-> r, ty |-> ty]]
Put(cx, op, a, ty) == Do(cx, op, a, ty, "")
Val(cx, r, ty) == [cx EXCEPT !.v = [r |-> r, ty |-> ty]]
Typed(cx, ty)  == [cx EXCEPT !.v.ty = ty]

\* append_basic_block for n blocks, numbered NextBlock(cx) on.
NextBlock(cx)    == Len(cx.code) + 1
Blocks(cx, n)    == [cx EXCEPT !.code = @ \o [i \in 1..n |-> Empty]]
At(cx, b)        == [cx EXCEPT !.cur = b]
Br(cx, b)        == Term(cx, "br", <<>>, <<b>>)
CondBr(cx, k, r, b, c) == Term(cx, k, <<r>>, <<b, c>>)
Ret(cx, r)       == Term(cx, "ret", <<r>>, <<>>)
\* Mutant: no branch to what follows.
FallOpen(cx, b) == cx

\* The idiom "branch unless the block is already terminated".
Fall(cx, b)      == IF Terminated(cx) THEN cx ELSE Br(cx, b)

\* current_exception_handler: the innermost try or retry, or the function's
\* exception-return block, created on first use.
WithHandler(cx) ==
  IF cx.handlers # <<>> \/ cx.excRet # 0 THEN cx
  ELSE [Blocks(cx, 1) EXCEPT !.excRet = NextBlock(cx)]
Handler(cx) == IF cx.handlers # <<>> THEN Last(cx.handlers) ELSE cx.excRet

\* emit_pending_exception_check: "a no-op inside async state machines".
PendingCheck(cx) ==
  LET c == WithHandler(cx)
      b == NextBlock(c)
  IN IF cx.checks THEN At(CondBr(Blocks(c, 1), "exc", 0, Handler(c), b), b) ELSE cx

ThrowTo(cx) == LET c == WithHandler(cx) IN Br(c, Handler(c))

\* ty_is_owned_handle: the slots a drop path can read.
OwnedHandle(t) == t.k \in {"array", "str", "object", "shared", "chan", "option", "result",
                           "pointer", "slice", "own", "dyn", "class"}
\* The drop of an array with elements of its own loops over a named slot.
Sweep(cx, ty) ==
  IF /\ cx.named /\ ty.k = "array" /\ Inner(ty).k \in {"array", "class", "option", "result", "shared"}
  THEN Bad(cx, "no future field") ELSE cx
\* emit_drop_slot_value: drop what the slot holds.
DropSlot(cx, slot, ty) == Put(Sweep(cx, ty), "dropslot", <<slot>>, ty)
StoreNull(cx, slot)    == Put(cx, "store", <<slot, 0>>, NilT)

\* push_loop_targets: what is owned before the loop is not the loop's to drop.
PushLoop(cx, brk, cont) ==
  [cx EXCEPT !.loops = Append(@, [brk |-> brk, cont |-> cont, owned |-> cx.owned])]
PopLoop(cx) == [cx EXCEPT !.loops = Front(@)]

\* drop_loop_locals
DropLoopLocals(cx) ==
  LET names == (cx.owned \ Last(cx.loops).owned) \cap DOMAIN cx.vars
      one(c, x) == StoreNull(DropSlot(c, c.vars[x].slot, c.vars[x].ty), c.vars[x].slot)
  IN Fold(one, cx, Listed(names))

\* emit_break, emit_continue
EmitBreak(cx) ==
  IF cx.loops = <<>> THEN Bad(cx, "break outside a loop")
  ELSE Br(DropLoopLocals(cx), Last(cx.loops).brk)
EmitContinue(cx) ==
  IF cx.loops = <<>> THEN Bad(cx, "continue outside a loop")
  ELSE Br(DropLoopLocals(cx), Last(cx.loops).cont)

\* alloca: a new slot, or the future's field of that name.  The function starts
\* with a null in every slot of an owned handle.
Alloca(cx, x, ty) ==
  CASE ~cx.named \/ x = "" -> [cx EXCEPT !.slots = Append(@, ty), !.slot = Len(cx.slots) + 1]
    [] x \in DOMAIN cx.fields -> [cx EXCEPT !.slot = cx.fields[x]]
    [] OTHER -> Bad(cx, "no future field")
NewSlot(cx)    == cx.slot

\* define_var: a displaced slot that is still owned is dropped at exit.
DefineVar(cx, x, slot, ty) ==
  [cx EXCEPT !.shadowed = IF x \in DOMAIN cx.vars /\ x \in cx.owned /\ cx.vars[x].slot # slot
                          THEN Append(@, cx.vars[x]) ELSE @,
             !.vars = (x :> [slot |-> slot, ty |-> ty]) @@ @]

\* Mutant: the block's names leave, and what they own with them.
EndScopeForgets(cx, outer) == [cx EXCEPT !.vars = outer]

\* end_block_scope: the names of the block leave; an owned slot becomes
\* nameless, and the slot it displaced is reached through its name again.
EndScope(cx, outer) ==
  LET new == {x \in DOMAIN cx.vars \cap cx.owned :
                x \notin DOMAIN outer \/ outer[x].slot # cx.vars[x].slot}
      first(s, slot) == SelectInSeq(s, LAMBDA e : e.slot = slot)
      one(c, x) ==
        LET s == Append(c.shadowed, c.vars[x]) IN
        IF x \notin DOMAIN outer
        THEN [c EXCEPT !.shadowed = s, !.owned = @ \ {x}]
        ELSE [c EXCEPT !.shadowed = IF first(s, outer[x].slot) = 0 THEN s
                                    ELSE RemoveAt(s, first(s, outer[x].slot))]
  IN [Fold(one, cx, Listed(new)) EXCEPT !.vars = outer]

\* mark_owned_if_heap: an instance only when the escape analysis proved it
\* neither aliased nor escaping.
MarkOwned(cx, x, ty) ==
  IF OwnedHandle(ty) /\ (ty.k = "class" => x \in cx.drops)
  THEN [cx EXCEPT !.owned = @ \cup {x}] ELSE cx

\* Mutant: a move leaves the slot as it was.
NullVarKeeps(cx, x) == cx

\* null_var_slot, after a move: shared boxes are retained, instances aliased;
\* the slots of `own', pointer and slice values are left as they are, too.
NullVar(cx, x) ==
  IF x \in DOMAIN cx.vars /\ cx.vars[x].ty.k \in {"array", "str", "object", "chan", "option",
                                                  "dyn", "result"}
  THEN Put(cx, "moved", <<cx.vars[x].slot>>, cx.vars[x].ty) ELSE cx
\* ... when the expression moved from is a bare variable.
NullIfVar(cx, e) == IF IsVar(e) THEN NullVar(cx, e.n) ELSE cx
NullIf(moves, cx, e) == IF moves THEN NullIfVar(cx, e) ELSE cx

\* emit_drop_all_owned: the owned names, then the slots without a name; what
\* is in a future stays for the future's drop.
DropAllOwned(cx) ==
  LET named(c, x) == DropSlot(c, c.vars[x].slot, c.vars[x].ty)
      other(c, s) == DropSlot(c, s.slot, s.ty)
  IN IF cx.poll THEN cx
     ELSE Fold(other, Fold(named, cx, Listed(cx.owned \cap DOMAIN cx.vars)), cx.shadowed)
=============================================================================
