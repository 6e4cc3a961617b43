------------------------------ MODULE MCFront -------------------------------
(***************************************************************************)
(* The front end on small projects.  A project is the trees of its files,  *)
(* written down by Grammar.tla, or (the family "noise") any short run of   *)
(* tokens; what is loaded is compared with the trees.                      *)
(***************************************************************************)
EXTENDS Loader, Grammar

CONSTANTS Chosen,  \* the families of projects
          MaxNoise \* the length of a run of tokens

(***************************************************************************)
(* Trees.  Around(e) has e in every place an expression can have in        *)
(* another one; the other operands are leaves that tell the places apart.  *)
(***************************************************************************)
A == V("a")
B == V("b")
C == V("c")

Ops == {"||", "&&", "|", "^", "&", "==", "<", "<<", "+", "-", "*"}
ParamOf(x, t) == Node("Param", x, t, <<>>)
FieldOf(x, e) == N("Field", x, <<e>>)
Naked(e) == N("Return", "", <<e>>)

Around(e) ==
  UNION {{N("Binary", op, <<e, B>>), N("Binary", op, <<B, e>>)} : op \in Ops}
  \cup {N("Unary", op, <<e>>) : op \in {"-", "!"}}
  \cup {N(k, "", <<e>>) : k \in {"Propagate", "RawDeref", "View", "ViewMut", "Borrow", "BorrowMut",
                                 "Copy", "Close", "ArrayLiteral"}}
  \cup {N("PostfixUnary", "++", <<e>>), N("TupleIndex", "0", <<e>>),
        N("Member", "m", <<e>>), N("OptionalMember", "m", <<e>>),
        N("IndexGet", "", <<e, B>>), N("IndexGet", "", <<B, e>>),
        N("Call", "", <<e, B>>), N("Call", "", <<B, e, C>>), N("Await", "", <<B, e>>),
        N("Text", "", <<Lit, e, Lit>>),
        N("Call", "", <<B, N("Spread", "", <<e>>)>>),
        N("Ternary", "", <<e, B, C>>), N("Ternary", "", <<B, e, C>>), N("Ternary", "", <<B, C, e>>),
        N("Assign", "b", <<e>>), N("RawDerefSet", "", <<e, B>>),
        N("MemberSet", "m", <<e, B>>), N("MemberSet", "m", <<B, e>>),
        N("IndexSet", "", <<B, e, C>>), N("IndexSet", "", <<B, C, e>>),
        N("ArrayLiteral", "", <<B, e>>), N("TupleLiteral", "", <<e, B>>),
        N("ObjectLiteral", "", <<FieldOf("f", B), FieldOf("g", e)>>),
        N("StructLiteral", "S", <<FieldOf("f", e), None>>),
        N("StructLiteral", "S", <<FieldOf("f", B), e>>),
        N("Lambda", "", <<ParamOf("p", IntT), Block(<<Naked(e)>>)>>),
        N("Await", "", <<N("AsyncBlock", "", <<Naked(e)>>)>>)}

\* The guide's table and the parser rank these the other way round.
Comparisons == {"==", "<"}
Bits  == {"|", "^", "&"}
Mixed(e) == /\ e.k = "Binary"
            /\ \E i \in DOMAIN e.c : /\ e.c[i].k = "Binary"
                                     /\ \/ e.n \in Bits /\ e.c[i].n \in Comparisons
                                        \/ e.n \in Comparisons /\ e.c[i].n \in Bits
Nested == UNION {Around(e) : e \in Around(A)}

\* Statements around an expression and a block; the types of declarations.
Types == {IntT, StrT, ObjT, ArrT(IntT), OptT(StrT), ClassT("K"), OwnT(IntT), ChanT(ArrT(IntT)),
          Ty("result", "", <<IntT, StrT>>), Ty("tuple", "", <<IntT, ClassT("K")>>),
          Ty("dyn", "K", <<>>)}
         \cup {Of(k, IntT) : k \in {"viewmut", "ref", "refmut", "raw", "rawmut", "slice"}}

Holding(e, s) ==
  LET b == Block(<<s>>)
      fun(k, c) == Node(k, "f", IntT, c \o <<b>>)
  IN {Decl("v", NoTy, e), Ex(Set("v", e)), Say(e), b, Block(<<s, Ex(e)>>),
      N("ViewVar", "v", <<e>>), N("ViewMutVar", "v", <<e>>), Node("Var", "v", SharedT(ObjT), <<e>>),
      Node("ConstVar", "v", IntT, <<e>>), N("StaticVar", "v", <<e>>),
      N("Destructure", "", <<e, N("Bind", "v", <<>>), N("Bind", "w", <<>>)>>),
      N("TupleDestructure", "", <<e, N("Bind", "v", <<>>), N("Bind", "w", <<>>)>>),
      If(e, b, None), If(e, b, b), N("If", "", <<A, Block(<<>>), e, b, Block(<<>>)>>),
      N("While", "", <<e, b>>), N("DoWhile", "", <<b, e>>),
      N("For", "", <<Decl("v", NoTy, e), A, Set("v", B), b>>),
      N("For", "", <<Ex(A), e, B, b>>), N("For", "", <<None, None, None, b>>),
      N("ForIn", "v", <<e, b>>), N("ForAwait", "v", <<e, b>>), N("ChanRecvFor", "v", <<e, b>>),
      N("Match", "", <<A, e, None, b, None>>), N("Match", "", <<A, B, e, s, C, None, b, Ex(e)>>),
      N("Try", "x", <<b, b, None>>), N("Try", "x", <<b, b, Block(<<>>)>>), N("Try", "", <<b, None, b>>),
      N("Retry", "", <<e, b, None>>), N("Retry", "x", <<e, b, b>>),
      N("Throw", "", <<e>>), N("Return", "", <<e>>), N("Return", "", <<None>>),
      N("Go", "", <<Call("f", <<e>>), None>>), N("Go", "", <<Nil, b>>),
      N("Unsafe", "", <<b>>), N("Quiet", "", <<b>>), N("Quiet", "", <<N("Bind", "v", <<>>), b>>),
      Ex(N("ChanSend", "", <<A, e>>)), Ex(N("ChanRecv", "v", <<e>>)),
      fun("Function", <<>>), fun("AsyncFunction", <<ParamOf("p", ClassT("K")), ParamOf("q", IntT)>>),
      fun("Function", <<N("Generic", "G", <<N("Bind", "R", <<>>)>>), ParamOf("p", ClassT("G"))>>),
      N("Class", "K", <<Decl("v", IntT, None), fun("Function", <<>>)>>),
      N("Trait", "R", <<fun("Function", <<ParamOf("p", IntT)>>)>>),
      N("Impl", "R", <<N("Bind", "K", <<>>), fun("Function", <<>>)>>),
      N("Test", "t", <<s>>)}
Leaves ==
  {N("Break", "", <<>>), N("Continue", "", <<>>), Node("TypeAlias", "Q", ArrT(IntT), <<>>),
   N("Use", "fmt", <<>>), N("Use", "fmt", <<N("Bind", "z", <<>>)>>),
   N("Use", "fmt", <<N("Import", "y", <<>>), N("Import", "z", <<>>)>>),
   N("Enum", "E", <<N("EnumMember", "L", <<Node("Data", "", IntT, <<>>)>>), N("EnumMember", "M", <<>>)>>)}
  \cup {Node("Var", "v", t, <<A>>) : t \in Types}
Short == Leaves \cup Holding(Call("f", <<A>>), N("Break", "", <<>>))

(***************************************************************************)
(* Projects of several files.  Every file declares the same three names;   *)
(* the function holds what the family varies.                              *)
(***************************************************************************)
Names3 == {"f", "s", "K"}
FileUse(g, as) == Node("Use", g, T("file"), IF as = "" THEN <<>> ELSE <<N("Bind", as, <<>>)>>)
Declares(ps, body) ==
  <<Node("StaticVar", "s", IntT, <<Num>>), N("Class", "K", <<Decl("v", IntT, None)>>),
    Node("Function", "f", ClassT("K"), ps \o <<Block(body)>>)>>

\* [trees, text]: text is what the trees are written as, except that a
\* statement of a broken file does not parse.
Project(trees, broken) ==
  [trees |-> trees, broken |-> broken,
   text |-> [g \in DOMAIN trees |->
               (IF g \in broken THEN W("var") \o W("=") \o Line ELSE <<>>) \o File(trees[g])]]
Alone(ss) == Project([g \in {"main"} |-> ss], {})

\* Who imports whom: chains, diamonds, cycles, files that do not exist.
Graphs3 ==
  [main : {<<>>, <<FileUse("lib", ""), FileUse("util", "u")>>, <<FileUse("util", ""), FileUse("lib", "l")>>,
           <<FileUse("lib", ""), FileUse("gone", "")>>},
   lib  : {<<>>, <<FileUse("util", "")>>, <<FileUse("main", "")>>, <<FileUse("above", "")>>},
   util : {<<>>, <<FileUse("lib", "l")>>, <<FileUse("gone", "")>>}]
Small(uses) == Append(uses, Node("Function", "f", NoTy, <<Block(<<>>)>>))
Modules == {Project([g \in DOMAIN u |-> Small(u[g])], broken) :
              u \in Graphs3, broken \in {{}, {"lib"}, {"lib", "util"}, {"main", "util"}}}

\* Uses of the names of a file imported under an alias, bound by nothing,
\* and by what may shadow them.
K == ClassT("K")
Using == Say(N("Binary", "+", <<Call("f", <<V("s")>>), V("z")>>))
BoundIn(x) ==
  {<<N("ForIn", x, <<A, Block(<<Using>>)>>)>>, <<N("ChanRecvFor", x, <<A, Block(<<Using>>)>>)>>,
   <<N("Try", x, <<Block(<<>>), Block(<<Using>>), None>>)>>,
   <<Ex(N("Lambda", "", <<ParamOf(x, IntT), Block(<<Using>>)>>)), Using>>,
   <<N("Match", "", <<A, Call("Ok", <<V(x)>>), V("s"), Using, None>>)>>}
Bodies ==
  {<<Using>>, <<Ex(Set("s", V("s"))), Using>>, <<Decl("z", K, None), Using>>,
   <<Decl("z", OptT(K), N("StructLiteral", "K", <<FieldOf("v", V("s")), None>>))>>,
   <<Ex(N("Member", "s", <<Call("K", <<>>)>>))>>,
   <<N("Go", "", <<Call("f", <<V("s")>>), None>>)>>}
  \cup BoundIn("s") \cup BoundIn("f") \cup BoundIn("z")
Importing(lib) == Project([g \in {"main", "lib"} |->
                            IF g = "lib" THEN lib ELSE <<FileUse("lib", "l"), Ex(A)>>], {})
Aliased  == {Importing(Declares(ps, b)) : b \in Bodies, ps \in {<<>>, <<ParamOf("s", K)>>}}
Shadowed == {Importing(Declares(<<>>, <<Decl("s", IntT, Num), Using>>))}

Noise == {"var", "id", "=", "nl", "{", "}", "fun", "catch"}
Runs == {[trees |-> <<>>, broken |-> {}, text |-> [g \in {"main"} |-> Append(ts, Eof)]] :
           ts \in UNION {[1..n -> {Token(k, "x") : k \in Noise}] : n \in 1..MaxNoise}}

Family ==
  [exprs    |-> {Alone(<<Decl("v", NoTy, e)>>) : e \in {e \in Nested : ~Mixed(e)}},
   stmts    |-> {Alone(<<s>>) : s \in UNION {Holding(Call("f", <<A>>), s) : s \in Short}},
   modules  |-> Modules,
   aliased  |-> Aliased,
   noise    |-> Runs,
   bitwise  |-> {Alone(<<Decl("v", NoTy, e)>>) : e \in {e \in Nested : Mixed(e)}},
   shadowed |-> Shadowed]
MCProjects == UNION {Family[k] : k \in Chosen}

(***************************************************************************)
(* What was written.                                                       *)
(***************************************************************************)
Wrote(g) == {project.trees[g][i].n : i \in {i \in DOMAIN project.trees[g] : project.trees[g][i].ty = T("file")}}
RECURSIVE Closure(_)
Closure(S) == LET next == S \cup UNION {Wrote(g) : g \in S \cap DOMAIN project.trees}
              IN IF next = S THEN S ELSE Closure(next)
Unfit == Missing \cup Outside

\* The names s binds for what follows it in its block.
Declaring(s) ==
  CASE s.k = "Var" -> {s.n}
    [] s.k \in {"Destructure", "TupleDestructure"} -> BindNames(s.c)
    [] OTHER -> {}

\* Renaming by lexical scope: a use is renamed unless a binding encloses it.
RECURSIVE Lexical(_, _, _)
Lexical(p, b, e) ==
  LET within(i) ==
        CASE e.k = "Block" -> UNION {Declaring(e.c[j]) : j \in 1..(i - 1)}
          [] e.k \in {"Function", "Lambda"} -> ParamNames(e.c)
          [] e.k \in {"ForIn", "ChanRecvFor", "Try"} /\ i = 2 -> {e.n}
          [] e.k = "Match" /\ i \in 2..4 -> PatternBinding(e.c[2])
          [] OTHER -> {}
      called(x) == IF x \in Names3 \ b THEN p \o "::" \o x ELSE x
  IN [e EXCEPT !.n = IF e.k \in {"Variable", "Assign", "StructLiteral", "StaticVar", "Class", "Function"}
                     THEN called(@) ELSE @,
               !.ty = IF @.k = "class" THEN [@ EXCEPT !.n = called(@)]
                      ELSE [@ EXCEPT !.of = [i \in DOMAIN @ |-> [@[i] EXCEPT !.n = called(@)]]],
               !.c = [i \in DOMAIN @ |-> Lexical(p, b \cup within(i), @[i])]]

(***************************************************************************)
(* What holds.                                                             *)
(***************************************************************************)
\* A file that was written down parses to the tree it was written from:
\* every construct is read back whole, and operators nest as the guide's
\* table says (parse_statement, parse_precedence, parse_type_annotation).
RoundTrip ==
  \A g \in DOMAIN threads \cap DOMAIN project.trees :
    Is(Text(g), threads[g].i, "eof") /\ g \notin project.broken =>
      /\ threads[g].errs = <<>>
      /\ PlainAll(threads[g].out) = PlainAll(project.trees[g])

\* What discover hands to the parsers is what the files import, although it
\* only scans tokens: every file reached from the entry, once, and after the
\* files it imports, so that a program with a cycle never gets there.
GraphComplete ==
  phase \in {"parse", "merge", "done"} /\ project.trees # <<>> =>
    /\ ToSet(files) = Closure({Entry}) /\ Len(files) = Cardinality(ToSet(files))
    /\ \A i \in DOMAIN files : Wrote(files[i]) \subseteq ToSet(SubSeq(files, 1, i - 1))

\* A load fails only for a reason, and for the same one however the parser
\* threads are scheduled: the first file in the order of discovery that does
\* not parse, a file that closes a cycle, an import that cannot be read.
FailsForCause ==
  CASE project.trees = <<>> -> TRUE
    [] phase = "done" -> ToSet(files) \cap (project.broken \cup Unfit) = {}
    [] failure.why = "parse" ->
         \E i \in DOMAIN files : /\ failure.file = files[i] /\ files[i] \in project.broken
                                 /\ \A j \in 1..(i - 1) : files[j] \notin project.broken
    [] failure.why = "cycle" -> failure.file \in Closure(Wrote(failure.file))
    [] failure.why \in {"io", "escapes"} ->
         failure.file \in Closure({Entry}) \cap (IF failure.why = "io" THEN Missing ELSE Outside)
    [] OTHER -> TRUE

\* The merged program is the files' statements in the order of discovery,
\* where each use of a symbol of a file imported under an alias carries the
\* alias, and a name that a binding shadows does not (aliases.rs).
LinksLexically ==
  phase = "done" /\ project.trees # <<>> =>
    LET of(g) == [i \in DOMAIN project.trees[g] |->
                    IF g \in DOMAIN aliases THEN Lexical(aliases[g], {}, project.trees[g][i])
                    ELSE project.trees[g][i]]
        kept(s) == s.ty # T("file") \/ s.c # <<>>
    IN PlainAll(program) = PlainAll(SelectSeq(FlattenSeq([i \in DOMAIN files |-> of(files[i])]), kept))

\* A parser thread gets nearer to the end of its file with every turn,
\* whatever the tokens: after an error, synchronize never stays in front of
\* the statement that failed.  With the absence of deadlock, loads end.
Advances ==
  [][\A g \in DOMAIN threads : threads'[g] # threads[g] => threads'[g].i > threads[g].i]_vars
=============================================================================
