------------------------------ MODULE Aliases -------------------------------
(***************************************************************************)
(* crates/ntsc-build/src/aliases.rs: the symbols of a file imported with   *)
(* `use "F" as p' are renamed p::name, at their declarations and wherever  *)
(* the file itself refers to them.  The rewriter keeps a stack of scopes;  *)
(* a name in any of them is not renamed.  Only their union matters, and a  *)
(* scope that is popped is a set the callee does not hand back, so the     *)
(* stack is the set b of names bound so far.                               *)
(***************************************************************************)
EXTENDS Syntax

\* top_level_names: the declarations a free identifier may refer to.
TopLevelNames(ss) ==
  {ss[i].n : i \in {i \in DOMAIN ss : ss[i].k \in {"Function", "AsyncFunction", "Class", "Enum",
                                                   "TypeAlias", "Trait", "StaticVar", "ConstVar"}}}

\* The prefix and the names being renamed.
Renaming(p, own) == [p |-> p, own |-> own]

\* Mutant: bindings do not shadow.
RenamedAlways(r, b, x) == IF x \in r.own THEN r.p \o "::" \o x ELSE x

\* should_rename and id_token.
Renamed(r, b, x) == IF x \in r.own /\ x \notin b THEN r.p \o "::" \o x ELSE x

\* ty: named types anywhere in an annotation, except below a channel.
RECURSIVE RenamedTy(_, _, _)
RenamedTy(r, b, t) ==
  CASE t.k \in {"class", "impl", "dyn"} -> [t EXCEPT !.n = Renamed(r, b, @)]
    [] t.k = "chan" -> t
    [] OTHER -> [t EXCEPT !.of = [i \in DOMAIN @ |-> RenamedTy(r, b, @[i])]]

\* The binding of a match arm headed Ok(x) or Err(x).
PatternBinding(value) ==
  IF /\ value.k = "Call" /\ Len(value.c) = 2 /\ IsVar(value.c[1]) /\ IsVar(value.c[2])
     /\ value.c[1].n \in {"Ok", "Err"} /\ value.c[2].n # "_"
  THEN {value.c[2].n} ELSE {}

ParamNames(c) == {c[i].n : i \in {i \in DOMAIN c : c[i].k = "Param"}}
BindNames(c)  == {IF c[i].c = <<>> THEN c[i].n ELSE c[i].c[1].n :
                    i \in {i \in DOMAIN c : c[i].k = "Bind"}}

\* The names a statement adds to the scope it is rewritten in.  Of a match,
\* the first i children: the arms before add theirs one by one.
Bound(s, i) ==
  CASE s.k \in {"Function", "AsyncFunction", "Lambda"} -> ParamNames(SubSeq(s.c, 1, i))
    [] s.k \in {"ForIn", "ForAwait", "ChanRecvFor", "Try", "Retry", "Test"} -> {s.n}
    [] s.k \in {"Destructure", "TupleDestructure"} -> BindNames(s.c)
    [] s.k = "Match" -> UNION {PatternBinding(s.c[j]) : j \in {j \in 2..i : j % 3 = 2 /\ j < Len(s.c)}}
    [] OTHER -> {}
AllBound(s) == Bound(s, Len(s.c))

\* Declarations and uses whose own name is an identifier to rename.  The
\* receiver of a channel is not one; a method is, like a function.
Renameable == {"Function", "AsyncFunction", "Class", "Enum", "TypeAlias", "Trait", "Impl",
               "StaticVar", "ConstVar", "Variable", "Assign", "StructLiteral", "Associated"}

(***************************************************************************)
(* stmt_push, stmt and expr.  Every child sees what its statement has      *)
(* bound; the methods of a trait or an implementation are rewritten in     *)
(* one scope, which keeps what the methods before them bound.              *)
(***************************************************************************)
RECURSIVE Rewritten(_, _, _)
Rewritten(r, b, e) ==
  LET shared == e.k \in {"Trait", "Impl"}
      sees(i) == b \cup Bound(e, i)
                   \cup (IF shared THEN UNION {AllBound(e.c[j]) : j \in 1..(i - 1)} ELSE {})
      child(i) ==
        IF e.c[i].k = "Bind" /\ (shared \/ e.k = "Class")
        THEN [e.c[i] EXCEPT !.n = Renamed(r, sees(i), @)]
        ELSE Rewritten(r, sees(i), e.c[i])
  IN CASE e.k = "Use" -> e
       [] OTHER ->
            [e EXCEPT !.n = IF e.k \in Renameable THEN Renamed(r, b, @) ELSE @,
                      !.ty = RenamedTy(r, b \cup AllBound(e), @),
                      !.c = [i \in DOMAIN @ |-> child(i)]]

Namespaced(ss, p, own) == [i \in DOMAIN ss |-> Rewritten(Renaming(p, own), {}, ss[i])]
=============================================================================
