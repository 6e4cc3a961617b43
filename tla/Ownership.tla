------------------------------ MODULE Ownership ------------------------------
(***************************************************************************)
(* The Own - Move - View checker (crates/ntsc-typeck/src/ownership.rs):    *)
(* a walk over the tree that carries which variables are moved out, which  *)
(* borrows are held and until when, and reports what breaks the rules.     *)
(*                                                                         *)
(* The checker's fields are one record, `st'.  A pass returns the record   *)
(* after it, with the kind of the expression just checked in `val':        *)
(*   scopes, contents   one layer per scope: a name's kind; what it holds  *)
(*   moved              pairs <<name, depth>> that are dead                *)
(*   sv, smv            names viewed, exclusively viewed, by the statement *)
(*   held               views held for a whole loop or method body         *)
(*   borrows            declared borrows, with the layer of their holder   *)
(*   uses, tails        names of the enclosing statements, and of what     *)
(*                      follows them                                       *)
(***************************************************************************)
EXTENDS Syntax, TLC

\* ValueKind: Scalar, Heap, Shared, Chan, Function, View, Unknown.
Borrowable == {"Heap", "Shared", "Chan"}

\* kind_of_annotation.
RECURSIVE KindOfAnnotation(_)
KindOfAnnotation(t) ==
  CASE t.k \in {"int", "float", "bool", "tuple"} -> "Scalar"
    [] t.k \in {"view", "viewmut", "ref", "refmut", "raw"} -> "View"
    [] t.k = "shared" -> "Shared"
    [] t.k = "chan" -> "Chan"
    [] t.k = "option" -> KindOfAnnotation(Inner(t))
    [] t.k \in {"any", "none"} -> "Unknown"
    [] OTHER -> "Heap"

\* param_kind of a declared parameter.
ParamKind(p) ==
  CASE p.ty.k = "view" -> "ViewShared" [] p.ty.k = "viewmut" -> "ViewMut" [] OTHER -> "Owned"

ItemsOf(prog, kinds) == {prog[i] : i \in {j \in DOMAIN prog : prog[j].k \in kinds}}

\* collect_local_fns: parameter and return kinds of the top-level functions.
LocalFns(prog) ==
  LET fns == ItemsOf(prog, {"Function", "AsyncFunction"}) IN
  [f \in {g.n : g \in fns} |->
     LET g == CHOOSE h \in fns : h.n = f IN
     [params |-> [i \in 1..(Len(g.c) - 1) |-> ParamKind(g.c[i])],
      ret    |-> KindOfAnnotation(g.ty)]]

\* collect_class_fields: the kinds of a class's annotated fields and of the
\* ones it inherits (a class names its parent in its annotation).
RECURSIVE FieldsOf(_, _)
FieldsOf(classes, c) ==
  LET own == {c.c[i] : i \in {j \in DOMAIN c.c : c.c[j].k = "Var" /\ c.c[j].ty # NoTy}}
      up  == {d \in classes : d.n = c.ty.n}
  IN [f \in {v.n : v \in own} |-> KindOfAnnotation((CHOOSE v \in own : v.n = f).ty)]
     @@ (IF up = {} THEN <<>> ELSE FieldsOf(classes, CHOOSE d \in up : TRUE))

ClassFields(prog) ==
  LET cs == ItemsOf(prog, {"Class"}) IN
  [n \in {c.n : c \in cs} |-> FieldsOf(cs, CHOOSE c \in cs : c.n = n)]

\* OwnershipChecker::new, with the program's signatures collected.
NewChecker(prog) ==
  [fns |-> LocalFns(prog), fields |-> ClassFields(prog),
   scopes |-> <<>>, contents |-> <<>>, moved |-> {}, sv |-> {}, smv |-> {},
   held |-> <<>>, borrows |-> {}, uses |-> <<>>, tails |-> <<>>,
   go |-> FALSE, val |-> "none", errs |-> {}]

Err(st, what, x) == [st EXCEPT !.errs = @ \cup {<<what, x>>}]
Val(st, kind)    == [st EXCEPT !.val = kind]

PushScope(st) == [st EXCEPT !.scopes = Append(@, <<>>), !.contents = Append(@, <<>>)]

\* pop_scope: dead marks and borrows of the scope's own variables go with it.
PopScope(st) ==
  LET d == Len(st.scopes) IN
  [st EXCEPT !.scopes = Front(@), !.contents = Front(@),
             !.moved = {m \in @ : m[2] < d},
             !.borrows = {b \in @ : b.layer < d}]

DefineKind(st, x, kind) == [st EXCEPT !.scopes[Len(st.scopes)] = (x :> kind) @@ @]

\* lookup_depth and lookup_kind: the innermost binding, 0 if there is none.
DepthIn(layers, x) == Max({0} \cup {i \in DOMAIN layers : x \in DOMAIN layers[i]})
Depth(st, x)  == DepthIn(st.scopes, x)
KindOf(st, x) == IF Depth(st, x) = 0 THEN "Unknown" ELSE st.scopes[Depth(st, x)][x]
IsMoved(st, x) == <<x, Depth(st, x)>> \in st.moved
Reinitialize(st, x) == [st EXCEPT !.moved = @ \ {<<x, Depth(st, x)>>}]

\* Contents of a container: <<"el", kind>> or <<"class", name>>.
Holds(st, x) ==
  LET d == DepthIn(st.contents, x) IN IF d = 0 THEN <<"none", "">> ELSE st.contents[d][x]
HoldsInstance(st, x) == Holds(st, x)[1] = "class"
ElementKind(st, e) ==
  IF IsVar(e) /\ Holds(st, e.n)[1] = "el" THEN Holds(st, e.n)[2] ELSE "Unknown"
FieldKind(st, e, f) ==
  LET h == IF IsVar(e) THEN Holds(st, e.n) ELSE <<"none", "">> IN
  IF h[1] = "class" /\ f \in DOMAIN st.fields[h[2]] THEN st.fields[h[2]][f] ELSE "Unknown"

\* contents_of_annotation, else contents_of_initializer.
RECURSIVE ContentsOfAnnotation(_, _)
ContentsOfAnnotation(st, t) ==
  CASE t.k = "array" -> <<"el", KindOfAnnotation(Inner(t))>>
    [] t.k = "class" /\ t.n \in DOMAIN st.fields -> <<"class", t.n>>
    [] t.k \in {"option", "shared", "view", "viewmut"} -> ContentsOfAnnotation(st, Inner(t))
    [] OTHER -> <<"none", "">>

RECURSIVE ContentsOfInitializer(_, _)
ContentsOfInitializer(st, e) ==
  LET kind(x) == CASE x.k \in {"Str", "ArrayLiteral"} -> "Heap"
                   [] x.k \in {"Num", "Bool"} -> "Scalar"
                   [] IsVar(x) -> KindOf(st, x.n)
                   [] OTHER -> "none"
      kinds == {kind(e.c[i]) : i \in DOMAIN e.c}
  IN CASE e.k = "ArrayLiteral" /\ Cardinality(kinds) = 1 /\ "none" \notin kinds ->
            <<"el", CHOOSE k \in kinds : TRUE>>
       [] e.k = "Call" /\ IsVar(e.c[1]) /\ e.c[1].n \in DOMAIN st.fields -> <<"class", e.c[1].n>>
       [] e.k = "Grouping" -> ContentsOfInitializer(st, e.c[1])
       [] OTHER -> <<"none", "">>

DefineContents(st, x, t, e) ==
  LET a == ContentsOfAnnotation(st, t)
      h == IF a[1] # "none" THEN a ELSE ContentsOfInitializer(st, e)
  IN IF h[1] = "none" THEN st ELSE [st EXCEPT !.contents[Len(st.contents)] = (x :> h) @@ @]

(***************************************************************************)
(* Views.  A declared borrow is live while its holder is named by an       *)
(* enclosing statement or by one after it.                                 *)
(***************************************************************************)
ClearViews(st) == [st EXCEPT !.sv = {}, !.smv = {}]
IsBorrowLive(st, h) == h \in UNION (Range(st.uses) \cup Range(st.tails))

\* is_viewed: the strongest live view of x, "" when it is not borrowed.
IsViewed(st, x) ==
  LET helds == {i \in DOMAIN st.held : st.held[i].name = x}
      live  == {b.kind : b \in {c \in st.borrows :
                  c.source = x /\ c.depth = Depth(st, x) /\ IsBorrowLive(st, c.holder)}}
  IN CASE x \in st.smv -> "Mut"
       [] x \in st.sv  -> "Shared"
       [] helds # {}   -> st.held[Min(helds)].kind
       [] "Mut" \in live -> "Mut"
       [] live # {}    -> "Shared"
       [] OTHER        -> ""

Conflict(st, x, kind) == IsViewed(st, x) = "Mut" \/ (IsViewed(st, x) # "" /\ kind = "Mut")

ReleaseBorrow(st, h) == [st EXCEPT !.borrows = {b \in @ : b.holder # h}]
PutBorrows(st, h, layer, recs) ==
  [st EXCEPT !.borrows = {b \in @ : b.layer # layer \/ b.holder # h}
                         \cup {[r EXCEPT !.layer = layer, !.holder = h] : r \in recs}]
FindBorrows(st, h) ==
  LET ls == {b.layer : b \in {c \in st.borrows : c.holder = h}} IN
  IF ls = {} THEN {} ELSE {b \in st.borrows : b.holder = h /\ b.layer = Max(ls)}

\* borrow_source: a declaration or rebinding of a view that outlives its
\* statement.
BorrowSource(st, h, x, kind) ==
  LET sd == Depth(st, x)
      hd == IF Depth(st, h) = 0 THEN Len(st.scopes) ELSE Depth(st, h)
      s1 == IF Conflict(st, x, kind) THEN Err(st, "viewed", x) ELSE st
  IN CASE IsMoved(st, x) -> Err(st, "moved", x)
       [] ~IsMoved(st, x) /\ sd = 0 -> st
       [] ~IsMoved(st, x) /\ sd > hd -> Err(st, "scope", x)
       [] OTHER -> PutBorrows(s1, h, hd, {[layer |-> hd, holder |-> h, source |-> x,
                                           depth |-> sd, kind |-> kind]})

\* register_view: a view for the rest of the statement.
RegisterView(st, x, kind) ==
  LET s1 == IF Conflict(st, x, kind) THEN Err(st, "viewed", x) ELSE st IN
  CASE x = "this" -> st
    [] x # "this" /\ IsMoved(st, x) -> Err(st, "moved", x)
    [] OTHER -> IF kind = "Mut" THEN [s1 EXCEPT !.smv = @ \cup {x}]
                ELSE [s1 EXCEPT !.sv = @ \cup {x}]

\* move_value and move_heap_value.
MoveValue(st, x) ==
  CASE x = "this" -> Err(st, "this", x)
    [] x # "this" /\ IsViewed(st, x) # "" -> Err(st, "viewed", x)
    [] x # "this" /\ IsViewed(st, x) = "" /\ IsMoved(st, x) -> Err(st, "moved", x)
    [] OTHER -> IF Depth(st, x) = 0 THEN st
                ELSE [st EXCEPT !.moved = @ \cup {<<x, Depth(st, x)>>}]

MoveHeap(st, x) == IF KindOf(st, x) = "Heap" THEN MoveValue(st, x) ELSE st
MoveIfVar(st, e) == IF IsVar(e) THEN MoveHeap(st, e.n) ELSE st
\* union and union_borrows of two outcomes at a join.
Join(st, a, b) == [st EXCEPT !.moved = a.moved \cup b.moved, !.borrows = a.borrows \cup b.borrows]

\* The state `to' with the moves and borrows of `from'.
Rewind(to, from) == [to EXCEPT !.moved = from.moved, !.borrows = from.borrows]

\* check_thread_boundary: process.spawn_thread hands its payload to another
\* thread as it is, collections.channel_send copies it.
ThreadUnsafe(kind, fn) ==
  \/ kind \in {"Shared", "View"}
  \/ kind = "Heap" /\ fn = "spawn_thread"
CheckThreadBoundary(st, callee, args) ==
  LET x == IF Len(args) < 2 THEN "" ELSE RootSource(args[2]) IN
  IF /\ callee.k = "Member" /\ IsVar(callee.c[1])
     /\ <<callee.c[1].n, callee.n>> \in {<<"process", "spawn_thread">>,
                                        <<"collections", "channel_send">>}
     /\ x # "" /\ ThreadUnsafe(KindOf(st, x), callee.n)
  THEN Err(st, "thread", x) ELSE st

\* module_array_arg_view_kind for the first argument of a call.
ModuleArgView(callee) ==
  IF callee.k = "Member" /\ IsVar(callee.c[1]) /\ callee.c[1].n = "arrays"
     /\ callee.n \in {"push", "pop"}
  THEN "Mut" ELSE "Shared"

\* What a call does to an argument that is a variable, by its kind and the
\* parameter's.
PassArgument(st, x, i, param, callee) ==
  LET kind == KindOf(st, x)
      view == IF i = 1 THEN ModuleArgView(callee) ELSE "Shared"
  IN CASE kind = "Heap" /\ param = "Owned" /\ st.go -> RegisterView(st, x, "Shared")
       [] kind = "Heap" /\ param = "Owned" /\ ~st.go -> MoveValue(st, x)
       [] kind = "Heap" /\ param = "ViewMut" -> RegisterView(st, x, "Mut")
       [] kind = "Heap" /\ param \in {"ViewShared", "Unknown"} -> RegisterView(st, x, view)
       [] kind = "Shared" /\ param # "Owned" -> RegisterView(st, x, view)
       [] OTHER -> st

\* check_stmt or check_expr, by the kind of the node.
RECURSIVE Check(_, _)
CheckAll(st, es) == Fold(LAMBDA s, e : Check(s, e), st, es)
CheckMoving(st, es) == Fold(LAMBDA s, e : MoveIfVar(Check(s, e), e), st, es)

\* check_sequence: each statement sees the names of the ones after it.
CheckSequence(st, ss) ==
  [Fold(LAMBDA s, i :
          [Check([s EXCEPT !.tails = Append(st.tails, UsesOf(SubSeq(ss, i + 1, Len(ss)))),
                           !.uses  = Append(@, Uses(ss[i]))], ss[i]) EXCEPT !.uses = st.uses],
        st, [i \in DOMAIN ss |-> i])
   EXCEPT !.tails = st.tails]

CheckScoped(st, ss) == PopScope(CheckSequence(PushScope(st), ss))

\* check_loop: a second pass over the parts when the first one moved something.
CheckLoop(st, parts) ==
  LET pass(s) == LET s1 == CheckAll(s, parts) IN Join(s1, s, s1)
      once == pass(st)
  IN IF once.moved = st.moved THEN once ELSE pass(once)

\* The join of if and match: every arm starts from the state before, and the
\* ones that fall through are merged.
CheckArms(st, arms, total) ==
  LET out(s) == [m |-> s.moved, b |-> s.borrows]
      step(a, arm) ==
        LET s1 == CheckAll(Rewind(a.st, st), arm) IN
        [st |-> s1, outs |-> IF Diverges(Last(arm)) THEN a.outs ELSE a.outs \cup {out(s1)}]
      end  == Fold(step, [st |-> st, outs |-> IF total THEN {} ELSE {out(st)}], arms)
      outs == IF end.outs = {} THEN {out(st)} ELSE end.outs
  IN [end.st EXCEPT !.moved = UNION {o.m : o \in outs}, !.borrows = UNION {o.b : o \in outs}]

CheckIf(st, s) ==
  LET elifs == Groups(Middle(s.c, 2, 1), 2)
      total == ~IsNone(Last(s.c))
      arms  == <<<<s.c[2]>>>> \o elifs \o (IF total THEN <<<<Last(s.c)>>>> ELSE <<>>)
  IN CheckArms(Check(st, s.c[1]), arms, total)

CheckMatch(st, s) ==
  LET total == ~IsNone(Last(s.c))
      arms  == Groups(Middle(s.c, 1, 1), 3) \o (IF total THEN <<<<Last(s.c)>>>> ELSE <<>>)
  IN CheckArms(Check(st, s.c[1]), arms, total)

\* check_try: the catch block starts from the state before the try.
CheckTry(st, s) ==
  LET tried  == Check(st, s.c[1])
      merged == Join(tried, tried, st)
      from   == Rewind(tried, st)
      caught == CASE IsNone(s.c[2]) -> merged
                  [] ~IsNone(s.c[2]) /\ s.n = "" -> Check(from, s.c[2])
                  [] OTHER -> PopScope(Check(DefineKind(PushScope(from), s.n, "Heap"), s.c[2]))
      joined == Join(caught, merged, caught)
      final  == Check([joined EXCEPT !.moved = {}], s.c[3])
  IN IF IsNone(s.c[3]) THEN joined ELSE Join(final, joined, final)

CheckRetry(st, s) ==
  LET s0   == Check(st, s.c[1])
      body == CheckLoop(s0, <<s.c[2]>>)
      cat  == Check([body EXCEPT !.borrows = s0.borrows], s.c[3])
  IN IF IsNone(s.c[3]) THEN body
     ELSE [cat EXCEPT !.moved = @ \cup s0.moved, !.borrows = @ \cup body.borrows]

\* check_for_in: a variable iterated over is viewed for the whole loop.
CheckForIn(st, s) ==
  LET x == s.c[1].n
      holds == IsVar(s.c[1]) /\ KindOf(st, x) = "Heap" /\ ~IsMoved(st, x)
      s1 == CASE holds -> [st EXCEPT !.held = Append(@, [name |-> x, kind |-> "Shared"])]
              [] ~holds /\ IsVar(s.c[1]) -> st
              [] OTHER -> Check(st, s.c[1])
      s2 == PopScope(CheckLoop(DefineKind(PushScope(s1), s.n, "Unknown"), <<s.c[2]>>))
  IN [s2 EXCEPT !.held = st.held]

\* check_function and check_method: a body starts with nothing moved.
CheckBody(st, f, this) ==
  LET ps == Front(f.c)
      s0 == PushScope([st EXCEPT !.moved = {}])
      s1 == IF this THEN [DefineKind(s0, "this", "View") EXCEPT
                            !.held = Append(@, [name |-> "this", kind |-> "Mut"])] ELSE s0
      s2 == Fold(LAMBDA s, p : DefineKind(s, p.n, KindOfAnnotation(p.ty)), s1, ps)
      s3 == CheckSequence(s2, Last(f.c).c)
  IN PopScope([s3 EXCEPT !.moved = st.moved, !.held = st.held])
\* A var declaration: `view var' and `&' declarations borrow, others own.
CheckVar(st, s) ==
  LET e == s.c[1]
      ref == s.ty.k \in {"ref", "refmut"} \/ (s.ty = NoTy /\ e.k \in {"Borrow", "BorrowMut"})
      borrows == ref \/ s.k # "Var"
      mut == s.k = "ViewMutVar" \/ s.ty.k = "refmut" \/ (ref /\ s.ty = NoTy /\ e.k = "BorrowMut")
      declared == IF borrows THEN "View" ELSE KindOfAnnotation(s.ty)
      s1 == Check(Val(st, "none"), e)
      init == s1.val
      s2 == IF borrows THEN s1 ELSE MoveIfVar(s1, e)
      s3 == IF init = "View" /\ declared # "View" THEN Err(s2, "stored", s.n) ELSE s2
      s4 == IF ref THEN ClearViews(s3) ELSE s3
      x  == RootSource(IF e.k \in {"Borrow", "BorrowMut"} THEN e.c[1] ELSE e)
      s5 == CASE ~borrows -> s3
              [] borrows /\ x = "" -> Err(s4, "temporary", s.n)
              [] borrows /\ x # "" /\ (KindOf(s4, x) \in Borrowable \/ HoldsInstance(s4, x) \/ ref) ->
                   BorrowSource(s4, s.n, x, IF mut THEN "Mut" ELSE "Shared")
              [] OTHER -> s4
      final == CASE declared # "Unknown" -> declared
                 [] declared = "Unknown" /\ init \in {"View", "none"} -> "Unknown"
                 [] OTHER -> init
  IN DefineContents(DefineKind(s5, s.n, final), s.n, s.ty, e)

\* The captures a go block takes were recorded on it by the typed pass.
Captured == {"str", "array", "object", "class", "own"}
CheckGo(st, s) ==
  LET s1 == [Check([st EXCEPT !.go = TRUE], s.c[1]) EXCEPT !.go = st.go]
      s2 == CheckScoped(s1, s.c[2].c)
      taken(t, b) == IF b.ty.k \in Captured THEN MoveHeap(t, b.n) ELSE t
  IN IF IsNone(s.c[2]) THEN s1 ELSE Fold(taken, s2, Middle(s.c, 2, 0))

CheckStmt(st0, s) ==
  LET st == ClearViews(st0) IN
  CASE s.k \in {"Var", "ViewVar", "ViewMutVar"} -> CheckVar(st, s)
    [] s.k \in {"Expression", "Say", "Throw", "Unsafe", "Quiet"} -> Check(st, s.c[1])
    [] s.k = "Block"   -> CheckScoped(st, s.c)
    [] s.k = "If"      -> CheckIf(st, s)
    [] s.k \in {"While", "DoWhile"} -> CheckLoop(st, s.c)
    [] s.k = "For"     -> PopScope(CheckLoop(Check(PushScope(st), s.c[1]),
                                             <<s.c[2], s.c[3], s.c[4]>>))
    [] s.k = "ForIn"   -> CheckForIn(st, s)
    [] s.k = "ForAwait" -> PopScope(Check(PushScope(Check(st, s.c[1])), s.c[2]))
    [] s.k = "ChanRecvFor" ->
         PopScope(Check(DefineKind(PushScope(Check(st, s.c[1])), s.n, "Heap"), s.c[2]))
    [] s.k = "Go"      -> CheckGo(st, s)
    [] s.k = "Return"  -> MoveIfVar(Check(st, s.c[1]), s.c[1])
    [] s.k = "Match"   -> CheckMatch(st, s)
    [] s.k = "Try"     -> CheckTry(st, s)
    [] s.k = "Retry"   -> CheckRetry(st, s)
    [] s.k \in {"Function", "AsyncFunction", "Test"} -> CheckBody(st, s, FALSE)
    [] s.k = "Class"   -> PopScope(Fold(LAMBDA t, m : IF m.k \in {"Function", "AsyncFunction"}
                                                          THEN CheckBody(t, m, TRUE) ELSE t,
                                            PushScope(st), s.c))
    [] s.k = "Destructure" ->
         LET s1 == Check(st, s.c[1])
             s2 == IF IsVar(s.c[1]) /\ s1.val = "Heap" THEN MoveValue(s1, s.c[1].n) ELSE s1
         IN Fold(LAMBDA t, b : DefineKind(t, b.n, "Unknown"), s2, Middle(s.c, 1, 0))
    [] OTHER -> st

(***************************************************************************)
(* check_expr, by variant.                                                 *)
(***************************************************************************)
\* An assignment moves its source, rebinds a view and revives its target.
CheckAssign(st, e) ==
  LET x  == e.n
      v  == e.c[1]
      s1 == MoveIfVar(Check(st, v), v)
      kind == KindOf(s1, x)
      s2 == IF kind \in Borrowable /\ IsViewed(s1, x) # "" THEN Err(s1, "viewed", x) ELSE s1
      s3 == ReleaseBorrow(s2, x)
      src == RootSource(IF v.k \in {"View", "ViewMut"} THEN v.c[1] ELSE None)
      s4 == CASE kind # "View" -> s2
              [] kind = "View" /\ src # "" /\ KindOf(s3, src) \in Borrowable ->
                   BorrowSource(s3, x, src, IF v.k = "ViewMut" THEN "Mut" ELSE "Shared")
              [] kind = "View" /\ IsVar(v) /\ FindBorrows(s3, v.n) # {} ->
                   PutBorrows(s3, x, Depth(s3, x), FindBorrows(s3, v.n))
              [] OTHER -> s3
  IN Val(Reinitialize(s4, x), s1.val)

CheckMemberRead(st, o) ==
  IF ~IsVar(o) THEN Check(st, o)
  ELSE IF KindOf(st, o.n) \in Borrowable THEN RegisterView(st, o.n, "Shared") ELSE st

CheckMemberWrite(st, o) ==
  CASE ~IsVar(o) -> Check(st, o)
    [] IsVar(o) /\ KindOf(st, o.n) \in Borrowable -> RegisterView(st, o.n, "Mut")
    [] OTHER -> IF IsViewed(st, o.n) # "" THEN Err(st, "viewed", o.n) ELSE st

\* The views of a container as they were before the value written into it was
\* checked.
RestoreViews(st, saved, o) ==
  LET x == RootSource(o)
      back(now, was) == IF x = "" THEN now ELSE (now \ {x}) \cup (was \cap {x})
  IN [st EXCEPT !.sv = back(@, saved.sv), !.smv = back(@, saved.smv)]

CheckContainerSet(st, o, parts, v) ==
  LET s1 == CheckAll(st, parts)
      s2 == CheckMemberWrite(RestoreViews(s1, st, o), o)
  IN Val(MoveIfVar(s2, v), s1.val)

\* `view x', `&x', a `..base': a view of a borrowable variable.
ViewOf(st, e, kind) ==
  IF KindOf(st, e.n) \in Borrowable THEN RegisterView(st, e.n, kind) ELSE st

CheckCall(st, e) ==
  LET callee == e.c[1]
      args   == Middle(e.c, 1, 0)
      local  == IsVar(callee) /\ callee.n \in DOMAIN st.fns
      params == IF local THEN st.fns[callee.n].params ELSE <<>>
      param(i) == IF i \in DOMAIN params THEN params[i] ELSE "Unknown"
      recv   == IF callee.k = "Member" THEN callee.c[1] ELSE callee
      s0 == ClearViews(st)
      s1 == CASE callee.k = "Member" /\ IsVar(recv) /\ KindOf(s0, recv.n) \in Borrowable ->
                   RegisterView(s0, recv.n, "Mut")
              [] callee.k = "Member" /\ IsVar(recv) /\ KindOf(s0, recv.n) = "View" -> s0
              [] OTHER -> Check(s0, recv)
      pass(s, i) == LET t == Check(s, args[i]) IN
                    IF IsVar(args[i]) THEN PassArgument(t, args[i].n, i, param(i), callee) ELSE t
      s2 == CheckThreadBoundary(Fold(pass, s1, [i \in DOMAIN args |-> i]), callee, args)
  IN [s2 EXCEPT !.sv = st.sv, !.smv = st.smv,
                !.val = IF local THEN st.fns[callee.n].ret ELSE "Unknown"]

CheckExpr(st, e) ==
  LET all == CheckAll(st, e.c) IN
  CASE e.k = "Str" -> Val(st, "Heap")
    [] e.k \in {"Num", "Bool", "Nil"} -> Val(st, "Scalar")
    [] IsVar(e) -> Val(IF IsMoved(st, e.n) THEN Err(st, "moved", e.n) ELSE st, KindOf(st, e.n))
    [] e.k = "Assign" -> CheckAssign(st, e)
    [] e.k = "Binary" ->
         LET l == Check(st, e.c[1])
             r == Check(l, e.c[2])
         IN Val(r, IF e.n = "+" /\ "Heap" \in {l.val, r.val} THEN "Heap" ELSE "Scalar")
    [] e.k \in {"Unary", "PostfixUnary"} -> Val(all, "Scalar")
    [] e.k = "Grouping" -> all
    [] e.k = "Ternary" ->
         LET a == CheckAll(st, SubSeq(e.c, 1, 2))
             b == Check(a, e.c[3])
         IN Val(b, IF a.val = b.val THEN a.val ELSE "Unknown")
    [] e.k \in {"Call", "Await"} -> CheckCall(st, e)
    [] e.k = "AsyncBlock" -> Val(PopScope(CheckAll(PushScope(st), e.c)), "none")
    [] e.k = "ChanSend" -> Val(MoveIfVar(all, e.c[2]), "none")
    [] e.k = "ChanRecv" -> Val(DefineKind(all, e.n, "Heap"), "Heap")
    [] e.k = "Close" -> Val(all, "none")
    [] e.k \in {"View", "ViewMut"} ->
         Val(IF IsVar(e.c[1]) THEN ViewOf(st, e.c[1], IF e.k = "View" THEN "Shared" ELSE "Mut")
             ELSE all, "View")
    [] e.k = "Copy" -> Val(all, IF all.val = "View" THEN "Heap" ELSE all.val)
    [] e.k \in {"Borrow", "BorrowMut"} ->
         Val(IF IsVar(e.c[1]) THEN ViewOf(all, e.c[1], IF e.k = "Borrow" THEN "Shared" ELSE "Mut")
             ELSE all, "View")
    [] e.k \in {"Member", "OptionalMember"} ->
         Val(CheckMemberRead(st, e.c[1]),
             IF FieldKind(st, e.c[1], e.n) = "Heap" THEN "View" ELSE "Unknown")
    [] e.k = "IndexGet" ->
         Val(CheckMemberRead(Check(st, e.c[2]), e.c[1]),
             IF ElementKind(st, e.c[1]) = "Heap" THEN "View" ELSE "Unknown")
    [] e.k = "MemberSet" -> CheckContainerSet(st, e.c[1], <<e.c[2]>>, e.c[2])
    [] e.k = "IndexSet"  -> CheckContainerSet(st, e.c[1], <<e.c[2], e.c[3]>>, e.c[3])
    [] e.k = "This" -> Val(st, IF Depth(st, "this") = 0 THEN "Heap" ELSE KindOf(st, "this"))
    [] e.k \in {"Spread", "RawDeref", "RawDerefSet"} -> Val(all, "Unknown")
    [] e.k \in {"ObjectLiteral", "ArrayLiteral"} -> Val(CheckMoving(st, e.c), "Heap")
    [] e.k = "Lambda" -> Val(CheckBody(st, e, FALSE), "Function")
    [] e.k \in {"Propagate", "TupleLiteral", "TupleIndex"} -> Val(all, "Heap")
    [] e.k = "StructLiteral" ->
         LET fs == CheckMoving(st, [i \in 1..(Len(e.c) - 1) |-> e.c[i].c[1]])
             base == Last(e.c)
         IN Val(IF IsVar(base) THEN ViewOf(fs, base, "Shared") ELSE Check(fs, base), "Heap")

Check(st, e) ==
  CASE IsNone(e) -> st [] e.k \in StmtKinds -> CheckStmt(st, e) [] OTHER -> CheckExpr(st, e)

\* check_program.
CheckProgram(prog) == CheckScoped(NewChecker(prog), prog)
Accepts(prog) == CheckProgram(prog).errs = {}
=============================================================================
