-------------------------------- MODULE Heap --------------------------------
(***************************************************************************)
(* What compiled code does to memory: the handle registry of the runtime   *)
(* (registry.rs, with its C ABI in lib.rs) and the cells the emitted code  *)
(* allocates itself, and the drops, clones and copies the emitter expands  *)
(* by type (emit/drop.rs, emit/expr.rs).                                   *)
(*                                                                         *)
(* h is [cells, pend, cls, faults, rt]: every cell ever made (a handle or  *)
(* an address is its number, never reused), the message of the pending     *)
(* exception, the class layouts, the goroutines (see Tasks.tla), and what  *)
(* went wrong:                                                             *)
(*   "stale"   a registry handle read after its removal                    *)
(*   "double"  a registry handle removed twice                             *)
(*   "free"    an emitted cell reached after it was freed                  *)
(*   "literal" a permanent literal removed                                 *)
(*   "moved"   a variable read after the move that cleared its slot        *)
(*   "early"   the result of a future taken before its poll returned 1     *)
(* 0 is the null handle, and Gone what a move leaves in a slot.            *)
(***************************************************************************)
EXTENDS Emit

Gone == -1

Handles == {"str", "arr", "shared", "chan", "op"}
\* No goroutines, and no task stacks.
NoTasks == [gs |-> <<>>, cur |-> 0, root |-> 0, tasks |-> <<>>, stacks |-> <<>>, depth |-> 0,
            wait |-> <<>>, closed |-> {}, ended |-> {}, cap |-> 0]
\* insert_permanent: cell 1 stands for the interned string literals.
NewHeap(cls) == [cells |-> <<[k |-> "str", n |-> "permanent", kids |-> <<>>, rc |-> 1, live |-> TRUE]>>,
                 pend |-> 0, cls |-> cls, faults |-> {}, rt |-> NoTasks]
Fault(h, f)  == [h EXCEPT !.faults = @ \cup {f}]

\* insert; malloc.  The new cell is the last one.
New(h, k, n, kids) ==
  [h EXCEPT !.cells = Append(@, [k |-> k, n |-> n, kids |-> kids, rc |-> 1, live |-> TRUE])]
Fresh1(h) == Len(h.cells)
Live(h, v, k) == v > 0 /\ h.cells[v].live /\ h.cells[v].k = k
Kill(h, v)    == [h EXCEPT !.cells[v].live = FALSE]

\* borrow; a load through a pointer.
Touch(h, v) ==
  CASE v = Gone -> Fault(h, "moved")
    [] v > 0 /\ ~h.cells[v].live ->
         Fault(h, IF h.cells[v].k \in Handles THEN "stale" ELSE "free")
    [] OTHER -> h

\* remove, take_string: kind-checked, and a no-op on a stale handle.
TakeOut(h, v, k) ==
  CASE ~h.cells[v].live    -> Fault(h, "double")
    [] h.cells[v].k # k    -> h
    [] h.cells[v].n = "permanent" -> Kill(Fault(h, "literal"), v)
    [] OTHER -> Kill(h, v)

\* free()
Free(h, v) == IF v <= 0 THEN h ELSE IF h.cells[v].live THEN Kill(h, v) ELSE Fault(h, "free")

\* Which payloads the drops of an option, a result and an array reach.
InOption == {"str", "array", "shared", "class", "option"}
InResult == InOption \cup {"result", "object"}
InArray  == {"array", "class", "option", "result", "shared"}

\* emit_drop_value, by type, with the runtime's removal under it.
RECURSIVE DropVal(_, _, _)

\* The payload of a cell, if it is of a type the drop of the cell reaches.
DropKid(h, c, t, reached) ==
  IF t.k \in reached /\ c.kids[1] > 0 THEN DropVal(h, c.kids[1], t) ELSE h
DropEach(h, c, t) == Fold(LAMBDA g, x : DropVal(g, x, t), h, c.kids)

\* The class drop thunk: the fields, in declared order; the storage stays.
DropFields(h, c) ==
  LET fs == h.cls[c.n].fields IN
  Fold(LAMBDA g, i : DropVal(g, c.kids[i], fs[i].ty), h, [i \in DOMAIN fs |-> i])

\* emit_drop_array_value: the elements the emitted code owns, then the entry,
\* with the strings the runtime owns.
DropArray(h, v, el) ==
  LET c == h.cells[v]
      g == IF c.live /\ el.k \in InArray THEN DropEach(h, c, el) ELSE h
  IN TakeOut(IF c.live /\ c.n = "strs" THEN DropEach(h, c, StrT) ELSE g, v, "arr")

\* ntsc_shared_drop: the last release drops the contents.
DropShared(h, v, el) ==
  LET c == h.cells[v] IN
  CASE ~c.live  -> Fault(h, "double")
    [] c.rc > 1 -> [h EXCEPT !.cells[v].rc = @ - 1]
    [] OTHER    -> DropVal(Kill(h, v), c.kids[1], el)

\* registry::remove, whatever the kind.
RemoveId(h, v) == IF v <= 0 THEN h ELSE TakeOut(h, v, h.cells[v].k)

\* chan_drop, drop_chan: the last reference takes the channel along, with what
\* is buffered if the channel owns its elements.
DropChan(h, v) ==
  LET c == h.cells[v] IN
  CASE ~c.live  -> Fault(h, "double")
    [] c.rc > 1 -> [h EXCEPT !.cells[v].rc = @ - 1]
    [] OTHER    -> Kill(IF c.n = "owns" THEN Fold(RemoveId, h, c.kids) ELSE h, v)

\* emit_drop_option_value and emit_drop_result_value: payload, then cell.  A
\* result without a tag has no payload.
DropOption(h, v, ty) == Free(DropKid(h, h.cells[v], Inner(ty), InOption), v)
DropResult(h, v, ty) ==
  LET c == h.cells[v] IN
  Free(IF c.n = "" THEN h ELSE DropKid(h, c, ty.of[IF c.n = "Ok" THEN 1 ELSE 2], InResult), v)

\* emit_drop_dyn_value: the wrapper in slot 0 of the vtable drops the instance
\* as what it is and frees it; then the header goes.
DropDyn(h, v) ==
  LET obj == h.cells[v].kids[1]
  IN Free(Free(DropVal(h, obj, ClassT(h.cells[obj].n)), obj), v)

DropVal(h, v, ty) ==
  LET c == h.cells[v]
      t == Inner(ty)
  IN CASE v <= 0 \/ ~OwnedHandle(ty)    -> h
       [] ty.k \in {"str", "object"}    -> TakeOut(h, v, "str")
       [] ty.k = "array"                -> DropArray(h, v, t)
       [] ty.k = "shared"               -> DropShared(h, v, t)
       [] ty.k = "chan"                 -> DropChan(h, v)
       [] ~c.live                       -> Touch(h, v)
       [] ty.k = "class"                -> DropFields(h, c)
       [] ty.k = "own" /\ t.k = "class" -> Free(DropFields(h, c), v)
       [] ty.k = "own"                  -> Free(DropVal(h, c.kids[1], t), v)
       [] ty.k = "dyn"                  -> DropDyn(h, v)
       [] ty.k = "option"               -> DropOption(h, v, ty)
       [] ty.k = "result"               -> DropResult(h, v, ty)
       [] OTHER                         -> h

\* clone_string, array_clone: strings and, to the depth of the type, nested
\* arrays are copied; any other element is copied by value.
RECURSIVE Clone(_, _, _)
Clone(h, v, ty) ==
  LET t == Touch(h, v)
      c == h.cells[v]
      one(p, x) ==
        CASE c.n = "strs" -> LET g == Clone(p[1], x, StrT) IN <<g, Append(p[2], Fresh1(g))>>
          [] x > 0 /\ ty.k = "array" /\ Live(h, x, "arr") ->
               LET g == Clone(p[1], x, Inner(ty)) IN <<g, Append(p[2], Fresh1(g))>>
          [] OTHER -> <<p[1], Append(p[2], x)>>
      p == Fold(one, <<h, <<>> >>, c.kids)
  IN CASE v <= 0   -> New(t, "str", "", <<>>)
       [] ~c.live  -> New(t, "str", "", <<>>)
       [] c.k = "arr" -> New(p[1], "arr", c.n, p[2])
       [] OTHER    -> New(t, "str", "", <<>>)

\* emit_copy_value expanded over the payload of a cell or the fields of an
\* instance: <<h, copy>>.
RECURSIVE Copy(_, _, _)

\* emit_copy_option_value, emit_copy_result_value: a new cell around a copy of
\* the payload, under the same tag.
CopyCell(h, c, ty) ==
  LET p == Copy(h, c.kids[1], ty.of[IF ty.k = "result" /\ c.n = "Err" THEN 2 ELSE 1])
      g == New(p[1], ty.k, c.n, <<p[2]>>)
  IN <<g, Fresh1(g)>>

\* emit_copy_class_fields: a new instance, field by field.
CopyFields(h, c) ==
  LET fs == h.cls[c.n].fields
      field(q, i) == LET r == Copy(q[1], c.kids[i], fs[i].ty) IN <<r[1], Append(q[2], r[2])>>
      q == Fold(field, <<h, <<>> >>, [i \in DOMAIN fs |-> i])
      g == New(q[1], "class", c.n, q[2])
  IN <<g, Fresh1(g)>>

Copy(h, v, ty) ==
  LET c == h.cells[v]
      g == Clone(h, v, ty)
  IN CASE v <= 0 \/ ~c.live -> <<Touch(h, v), 0>>
       [] ty.k \in {"str", "object", "array"} -> <<g, Fresh1(g)>>
       [] ty.k \in {"option", "result"} -> CopyCell(h, c, ty)
       [] ty.k = "shared" -> Copy(h, c.kids[1], Inner(ty))
       [] ty.k = "class" \/ (ty.k = "own" /\ Inner(ty).k = "class") -> CopyFields(h, c)
       [] ty.k = "own" -> CopyCell(h, c, ty)
       [] OTHER -> <<h, v>>

\* array_new, array_push, array_set: an array of strings stores copies.
Flag(ty) == IF Inner(ty).k \in {"str", "any"} THEN "strs" ELSE ""
Push(h, a, x) ==
  LET t == Touch(h, a)
      g == Clone(t, x, StrT)
  IN CASE ~Live(t, a, "arr") -> t
       [] t.cells[a].n = "" -> [t EXCEPT !.cells[a].kids = Append(@, x)]
       [] Live(t, x, "str") -> [g EXCEPT !.cells[a].kids = Append(@, Fresh1(g))]
       [] OTHER -> Touch(t, x)

\* ntsc_throw: the message is consumed, one still pending is forgotten.
Throw(h, v) == IF v > 0 THEN [h EXCEPT !.pend = v]
               ELSE LET g == New(h, "str", "", <<>>) IN [g EXCEPT !.pend = Fresh1(g)]

SetFirst(h, a, x) ==
  LET t == Touch(h, a)
      g == Clone(t, x, StrT)
  IN CASE ~Live(t, a, "arr") -> t
       [] t.cells[a].kids = <<>> -> Throw(t, 0)
       [] t.cells[a].n = "" -> [t EXCEPT !.cells[a].kids[1] = x]
       [] Live(t, x, "str") -> TakeOut([g EXCEPT !.cells[a].kids[1] = Fresh1(g)],
                                      t.cells[a].kids[1], "str")
       [] OTHER -> Touch(t, x)

\* array_slice, _reverse, _clear, _remove_at, _shuffle and _sort: a new array.
Derived(h, a, how) ==
  LET t == Touch(h, a)
      c == h.cells[a]
      ks == CASE how = "clear" -> <<>>
              [] how = "remove_at" /\ c.kids # <<>> -> Tail(c.kids)
              [] how = "reverse" -> Reverse(c.kids)
              [] OTHER -> c.kids
      one(p, x) == IF c.n # "strs" THEN <<p[1], Append(p[2], x)>>
                   ELSE LET g == Clone(p[1], x, StrT) IN <<g, Append(p[2], Fresh1(g))>>
      p == Fold(one, <<t, <<>> >>, ks)
  IN IF ~Live(t, a, "arr") THEN <<t, 0>>
     ELSE LET g == New(p[1], "arr", c.n, p[2]) IN <<g, Fresh1(g)>>

\* emit_copy_in_owned_elements: boxes are retained; each option cell is copied
\* and the one it was copied from dropped.
Fixup(h, a, el) ==
  LET ks == h.cells[a].kids
      one(g, i) ==
        LET q == Copy(g, ks[i], el) IN
        CASE ks[i] <= 0        -> g
          [] el.k = "shared"   -> [Touch(g, ks[i]) EXCEPT !.cells[ks[i]].rc = @ + 1]
          [] el.k = "option"   -> DropVal([q[1] EXCEPT !.cells[a].kids[i] = q[2]], ks[i], el)
          [] OTHER             -> g
  IN IF a <= 0 THEN h ELSE Fold(one, h, [i \in DOMAIN ks |-> i])

\* Registry entries still live: what the leak report at shutdown lists.
Leaked(h) == {v \in DOMAIN h.cells : h.cells[v].live /\ h.cells[v].k \in Handles
                                     /\ h.cells[v].n # "permanent"}
=============================================================================
