------------------------------- MODULE Syntax -------------------------------
(***************************************************************************)
(* The syntax tree of an NTSC program (crates/ntsc-ast) in one uniform     *)
(* shape, so that the walkers of the compiler are recursions over          *)
(* children.  A node has a kind `k' (the variant of Stmt or Expr), a name  *)
(* `n' (the identifier, operator or field it carries, "" if none), a type  *)
(* annotation `ty' and its children `c' in source order.                   *)
(*                                                                         *)
(*   Var n ty <<init>>           ViewVar/ViewMutVar n <<init>>             *)
(*   Block <<s..>>               If <<cond, then, (cond, body)*, else>>    *)
(*   While <<cond, body>>        DoWhile <<body, cond>>                    *)
(*   For <<init, cond, update, body>>        ForIn n <<iterable, body>>    *)
(*   Match <<e, (value, guard, body)*, default>>                           *)
(*   Try n <<body, catch, finally>>          Retry n <<count, body, catch>>*)
(*   Go <<call, block>>          Return <<value>>      Throw <<value>>     *)
(*   Destructure/TupleDestructure <<init, Bind n ..>>                      *)
(*   Function n ty <<Param n ty .., Block>>  Class n <<Var .., Function ..>>*)
(*   Call/Await <<callee, arg..>>  Member/MemberSet n <<object, value>>    *)
(*   IndexGet/IndexSet <<object, index, value>>   Assign n <<value>>       *)
(*   Lambda <<Param .., Block>>  StructLiteral n <<(Field n <<e>>)*, base>>*)
(*                                                                         *)
(* An absent optional child is the node None.                              *)
(***************************************************************************)
EXTENDS Naturals, Sequences, SequencesExt, FiniteSetsExt

\* A type annotation (and the resolved type of an emitted value): its
\* constructor, the class it names and its arguments.
Ty(k, n, of) == [k |-> k, n |-> n, of |-> of]
T(k)    == Ty(k, "", <<>>)
Of(k, t) == Ty(k, "", <<t>>)

NoTy   == T("none")
IntT   == T("int")
BoolT  == T("bool")
StrT   == T("str")
NilT   == T("nil")
VoidT  == T("void")
AnyT   == T("any")
ObjT   == T("object")
ArrT(t)    == Of("array", t)
SharedT(t) == Of("shared", t)
OptT(t)    == Of("option", t)
OwnT(t)    == Of("own", t)
ViewT(t)   == Of("view", t)
ChanT(t)   == Of("chan", t)
ClassT(n)  == Ty("class", n, <<>>)
Inner(t)   == t.of[1]

Node(k, n, ty, c) == [k |-> k, n |-> n, ty |-> ty, c |-> c]
N(k, n, c) == Node(k, n, NoTy, c)
None       == N("None", "", <<>>)

Lit       == N("Str", "", <<>>)
Num       == N("Num", "", <<>>)
Nil       == N("Nil", "", <<>>)
V(x)      == N("Variable", x, <<>>)
Decl(x, ty, e) == Node("Var", x, ty, <<e>>)
Set(x, e) == N("Assign", x, <<e>>)
Ex(e)     == N("Expression", "", <<e>>)
Say(e)    == N("Say", "", <<e>>)
Block(ss) == N("Block", "", ss)
Call(f, args) == N("Call", "", <<V(f)>> \o args)
If(c, a, b)   == N("If", "", <<c, a, b>>)

\* FoldLeft of SequencesExt for folds nested in folds at every level of a
\* tree: each accumulator is evaluated (as the element of a tuple) before it is
\* used, which keeps TLC's evaluation shallow.
Fold(op(_, _), base, s) ==
  LET f[i \in 0..Len(s)] ==
        IF i = 0 THEN base
        ELSE LET acc == f[i - 1] IN IF Len(<<acc>>) = 1 THEN op(acc, s[i]) ELSE acc
  IN f[Len(s)]

\* SetToSeq of SequencesExt for sets too large to enumerate their listings.
RECURSIVE Listed(_)
Listed(S) == IF S = {} THEN <<>> ELSE LET x == CHOOSE x \in S : TRUE IN <<x>> \o Listed(S \ {x})

\* r, once the values of s have been evaluated, in order: for the same reason.
Force(s, r) == IF Len(s) > 0 THEN r ELSE r

IsNone(e) == e.k = "None"
IsVar(e)  == e.k = "Variable"

\* The middle of a list of children: what is left without its first i and its
\* last j elements (the elif pairs, the cases, the arguments, ...).
Middle(c, i, j) == SubSeq(c, i + 1, Len(c) - j)

\* The n-tuples a flattened list of groups stands for.
Groups(s, n) == [i \in 1..(Len(s) \div n) |-> SubSeq(s, (i - 1) * n + 1, i * n)]

\* The class of nodes a walk over expressions does not enter.
Items == {"Function", "AsyncFunction", "Test", "Class", "Lambda"}

\* The kinds of statements; every other node is an expression.
StmtKinds == {"Var", "ViewVar", "ViewMutVar", "Expression", "Say", "Block", "If", "While",
              "DoWhile", "For", "ForIn", "ForAwait", "ChanRecvFor", "Go", "Return", "Throw",
              "Break", "Continue", "Match", "Try", "Retry", "Unsafe", "Quiet", "Destructure",
              "TupleDestructure",
              "Function", "AsyncFunction", "Test", "Class", "Use", "Enum", "TypeAlias",
              "Trait", "Impl"}

\* Kinds whose own name is a use of that name.
Naming == {"Variable", "Assign", "ChanRecv", "StructLiteral"}

(***************************************************************************)
(* collect_stmt_uses and collect_expr_uses: every name a statement or an   *)
(* expression reads or writes, lambdas and nested items excepted.          *)
(***************************************************************************)
RECURSIVE Uses(_)
Uses(e) ==
  IF e.k \in Items THEN {}
  ELSE (IF e.k \in Naming THEN {e.n} ELSE {})
       \cup UNION {Uses(e.c[i]) : i \in DOMAIN e.c}

UsesOf(ss) == UNION {Uses(ss[i]) : i \in DOMAIN ss}

(***************************************************************************)
(* diverges: a statement control never falls out of.  Loops always may.    *)
(***************************************************************************)
RECURSIVE Diverges(_)
Diverges(s) ==
  CASE s.k \in {"Return", "Throw", "Break", "Continue"} -> TRUE
    [] s.k = "Block" -> \E i \in DOMAIN s.c : Diverges(s.c[i])
    [] s.k = "If" ->
         /\ ~IsNone(Last(s.c)) /\ Diverges(Last(s.c)) /\ Diverges(s.c[2])
         /\ \A g \in Range(Groups(Middle(s.c, 2, 1), 2)) : Diverges(g[2])
    [] s.k = "Match" ->
         /\ ~IsNone(Last(s.c)) /\ Diverges(Last(s.c))
         /\ \A g \in Range(Groups(Middle(s.c, 1, 1), 3)) : Diverges(g[3])
    [] s.k = "Try" ->
         \/ Diverges(s.c[3])
         \/ Diverges(s.c[1]) /\ Diverges(s.c[2])
    [] OTHER -> FALSE

\* root_source: the variable an element, field or grouping is reached through.
RECURSIVE RootSource(_)
RootSource(e) ==
  CASE IsVar(e) -> e.n
    [] e.k \in {"Member", "OptionalMember", "IndexGet", "Grouping"} -> RootSource(e.c[1])
    [] OTHER -> ""
=============================================================================
