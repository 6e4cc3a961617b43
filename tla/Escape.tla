------------------------------- MODULE Escape -------------------------------
(***************************************************************************)
(* The escape analysis of the code generator (emit/escape.rs): which local *)
(* class instances may live in a stack slot, and which may have their      *)
(* owned fields reclaimed when their scope ends.                           *)
(*                                                                         *)
(* `classes' is the set of class names of the module and `inits' the ones  *)
(* that declare an `init'.                                                 *)
(***************************************************************************)
EXTENDS Syntax

(***************************************************************************)
(* expr_mentions_var and stmt_mentions_var: the conditions of elif         *)
(* branches and the values and guards of match cases are not looked at,    *)
(* nor are nested items.                                                   *)
(***************************************************************************)
Looked(e) ==
  CASE e.k \in (Items \ {"Lambda"}) -> {}
    [] e.k = "If"    -> {e.c[1], e.c[2], Last(e.c)}
                        \cup {g[2] : g \in Range(Groups(Middle(e.c, 2, 1), 2))}
    [] e.k = "Match" -> {e.c[1], Last(e.c)}
                        \cup {g[3] : g \in Range(Groups(Middle(e.c, 1, 1), 3))}
    [] OTHER -> Range(e.c)

RECURSIVE Mentions(_, _)
Mentions(e, x) ==
  \/ e.k \in {"Variable", "Assign"} /\ e.n = x
  \/ \E d \in Looked(e) : Mentions(d, x)

\* ExprCtx: how the parent consumes a value.  EscapeKind: what is asked.
Data == "Data"
Base == "Base"
StackSlot == "StackSlot"
FieldDrop == "FieldDrop"

RECURSIVE UsesSafely(_, _, _, _), BorrowsPlace(_, _, _), StmtUsesSafely(_, _, _)
AllData(es, x, kind) == \A i \in DOMAIN es : UsesSafely(es[i], x, Data, kind)
SomeData(es, x, kind) == \E i \in DOMAIN es : UsesSafely(es[i], x, Data, kind)

\* view_borrows_place
BorrowsPlace(e, x, kind) ==
  CASE e.k \in {"Variable", "This"} -> TRUE
    [] e.k \in {"Member", "OptionalMember", "Grouping"} -> BorrowsPlace(e.c[1], x, kind)
    [] e.k = "IndexGet" -> BorrowsPlace(e.c[1], x, kind) /\ UsesSafely(e.c[2], x, Data, kind)
    [] OTHER -> UsesSafely(e, x, Data, kind)

(***************************************************************************)
(* expr_uses_var_safely: no use of `x' in `e' hands out the instance.  A   *)
(* struct or tuple literal asks it of some element only.                   *)
(***************************************************************************)
UsesSafely(e, x, ctx, kind) ==
  \/ ~Mentions(e, x)
  \/ CASE e.k = "Variable" -> ctx = Base
       [] e.k \in {"Member", "OptionalMember", "IndexGet"} ->
            /\ UsesSafely(e.c[1], x, Base, kind)
            /\ AllData(Tail(e.c), x, kind)
            /\ ctx = Data \/ kind = FieldDrop
       [] e.k \in {"IndexSet", "MemberSet"} ->
            UsesSafely(e.c[1], x, Base, kind) /\ AllData(Tail(e.c), x, kind)
       [] e.k = "Call" /\ e.c[1].k = "Member" /\ e.c[1].c[1] = V(x) ->
            AllData(Tail(e.c), x, kind)
       [] e.k \in {"Call", "Await"} ->
            UsesSafely(e.c[1], x, Base, kind) /\ AllData(Tail(e.c), x, kind)
       [] e.k = "AsyncBlock" -> \A i \in DOMAIN e.c : StmtUsesSafely(e.c[i], x, kind)
       [] e.k = "Assign" -> e.n # x /\ AllData(e.c, x, kind)
       [] e.k = "Lambda" -> FALSE
       [] e.k \in {"View", "ViewMut"} ->
            IF kind = StackSlot THEN UsesSafely(e.c[1], x, Data, kind)
            ELSE BorrowsPlace(e.c[1], x, kind)
       [] e.k \in {"Copy", "Borrow", "BorrowMut", "RawDeref", "TupleIndex"} ->
            UsesSafely(e.c[1], x, Base, kind)
       [] e.k = "RawDerefSet" -> \E i \in {1, 2} : UsesSafely(e.c[i], x, Base, kind)
       [] e.k = "StructLiteral" ->
            \/ \E i \in 1..(Len(e.c) - 1) : AllData(e.c[i].c, x, kind)
            \/ ~IsNone(Last(e.c)) /\ UsesSafely(Last(e.c), x, Base, kind)
       [] e.k = "TupleLiteral" -> SomeData(e.c, x, kind)
       [] e.k \in {"ChanSend", "ChanRecv", "Close"} -> FALSE
       [] OTHER -> AllData(e.c, x, kind)

\* stmt_uses_var_safely: `var y = x' alone is safe, it is a copy edge.
StmtUsesSafely(s, x, kind) ==
  CASE s.k \in Items -> TRUE
    [] s.k \in {"ChanRecvFor", "Go"} -> FALSE
    [] s.k \in {"Var", "ViewVar", "ViewMutVar"} /\ s.c[1] = V(x) -> TRUE
    [] OTHER -> \A i \in DOMAIN s.c :
                  IF s.c[i].k \in StmtKinds THEN StmtUsesSafely(s.c[i], x, kind)
                  ELSE UsesSafely(s.c[i], x, Data, kind)

\* Every statement nested in a statement, through the kinds the two collectors
\* recurse into.
RECURSIVE Within(_)
Within(s) ==
  {s} \cup IF s.k \in {"Block", "If", "While", "DoWhile", "For", "ForIn", "ForAwait", "Match",
                       "Try", "Retry", "Unsafe", "Quiet"}
           THEN UNION {Within(s.c[i]) : i \in {j \in DOMAIN s.c : s.c[j].k \in StmtKinds}}
           ELSE {}
AllWithin(body) == UNION {Within(body[i]) : i \in DOMAIN body}

\* collect_copy_edges
CopyEdges(body) ==
  {<<s.c[1].n, s.n>> : s \in {t \in AllWithin(body) :
                                t.k \in {"Var", "ViewVar", "ViewMutVar"} /\ IsVar(t.c[1])}}

Constructs(e, names) == e.k = "Call" /\ IsVar(e.c[1]) /\ e.c[1].n \in names
Unsafe(body, x, kind) == ~\A i \in DOMAIN body : StmtUsesSafely(body[i], x, kind)

\* collect_stack_candidates, repeated until nothing is added.
RECURSIVE StackCandidates(_, _, _)
StackCandidates(body, plain, found) ==
  LET more == {s.n : s \in {t \in Range(body) :
                 /\ t.k = "Var" /\ t.ty = NoTy
                 /\ \/ Constructs(t.c[1], plain) /\ Len(t.c[1].c) = 1
                    \/ IsVar(t.c[1]) /\ t.c[1].n \in found}}
  IN IF more \subseteq found THEN found ELSE StackCandidates(body, plain, found \cup more)

\* One end of a copy edge rejected rejects the other candidate end.
RECURSIVE SpreadRejection(_, _, _)
SpreadRejection(edges, cands, rejected) ==
  LET hit == {e \in edges : \/ e[1] \in rejected /\ e[2] \in cands \ rejected
                            \/ e[2] \in rejected /\ e[1] \in cands \ rejected}
  IN IF hit = {} THEN rejected
     ELSE SpreadRejection(edges, cands, rejected \cup UNION {{e[1], e[2]} : e \in hit})

\* analyze_stack_allocatable
StackAllocatable(body, classes, inits) ==
  LET cands == StackCandidates(body, classes \ inits, {})
  IN cands \ SpreadRejection(CopyEdges(body), cands,
                             {x \in cands : Unsafe(body, x, StackSlot)})

\* collect_class_drop_candidates
ClassDropCandidates(body, classes) ==
  {s.n : s \in {t \in AllWithin(body) :
     /\ t.k = "Var"
     /\ \/ Constructs(t.c[1], classes)
        \/ t.c[1].k = "Copy"
        \/ t.c[1].k = "StructLiteral" /\ t.c[1].n \in classes}}

\* analyze_class_drops
ClassDrops(body, classes) ==
  LET cands == ClassDropCandidates(body, classes)
  IN {x \in cands : /\ ~Unsafe(body, x, FieldDrop)
                    /\ \A e \in CopyEdges(body) : x # e[1] /\ x # e[2]}
=============================================================================
