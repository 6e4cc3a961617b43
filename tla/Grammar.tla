------------------------------ MODULE Grammar -------------------------------
(***************************************************************************)
(* The reference definition the parser is checked against: how a tree of   *)
(* Syntax.tla is written down, after docs/reference/language.md and the    *)
(* table of operators of docs/guide/syntax-and-control-flow.md.  A written *)
(* program has one statement to a line and no more parentheses than the    *)
(* table asks for.                                                         *)
(***************************************************************************)
EXTENDS Parser, Integers

W(k)  == <<Token(k, "")>>
Id(x) == <<Token("id", x)>>
Line  == W("nl")

Listing(parts) ==
  FlattenSeq([i \in DOMAIN parts |-> IF i = 1 THEN parts[1] ELSE W(",") \o parts[i]])
Parens(ts) == W("(") \o ts \o W(")")
Kids(e, k) == SelectSeq(e.c, LAMBDA x : x.k = k)

(***************************************************************************)
(* The guide's table, loosest first.  It has no row for a channel arrow,  *)
(* a postfix question mark or a string with expressions in it: these are   *)
(* always parenthesized, and so is an expression in a string.              *)
(***************************************************************************)
Table == <<{"||"}, {"&&"}, {"|"}, {"^"}, {"&"}, {"==", "!="}, {"<", "<=", ">", ">="}, {"<<", ">>"},
           {"+", "-"}, {"*", "/", "%"}>>
Row(op)  == CHOOSE r \in DOMAIN Table : op \in Table[r]
UnaryRow == Len(Table) + 1
CallRow  == Len(Table) + 2

RowOf(e) ==
  CASE e.k = "Binary" -> Row(e.n)
    [] e.k \in {"Assign", "MemberSet", "IndexSet", "RawDerefSet", "ChanSend", "ChanRecv", "Propagate",
               "Text"} -> -1
    [] e.k = "Ternary" -> 0
    [] e.k \in {"Unary", "Spread", "RawDeref", "View", "ViewMut", "Borrow", "BorrowMut", "Await"} -> UnaryRow
    [] OTHER -> CallRow

RECURSIVE Written(_), WrittenTy(_)

WrittenTy(t) ==
  LET inner == WrittenTy(Inner(t))
      all   == Listing([i \in DOMAIN t.of |-> WrittenTy(t.of[i])])
  IN CASE t.k = "none"  -> <<>>
       [] t.k = "str"   -> W("string")
       [] t.k = "class" -> Id(t.n)
       [] t.k = "dyn"   -> Id("dyn") \o Id(t.n)
       [] t.k \in {"own", "view", "shared"} -> W(t.k) \o inner
       [] t.k = "viewmut" -> W("view") \o W("mut") \o inner
       [] t.k = "ref"     -> W("&") \o inner
       [] t.k = "refmut"  -> W("&") \o W("mut") \o inner
       [] t.k = "raw"     -> W("*") \o Id("const") \o inner
       [] t.k = "rawmut"  -> W("*") \o W("mut") \o inner
       [] t.k = "tuple"   -> Parens(all)
       [] t.of # <<>>     -> W(t.k) \o W("[") \o all \o W("]")
       [] OTHER           -> W(t.k)

\* e where the table's row r, or a tighter one, is called for.
At(e, r)  == IF RowOf(e) < r THEN Parens(Written(e)) ELSE Written(e)
Head1(e)  == At(e.c[1], CallRow)
Args(es)  == Parens(Listing([i \in DOMAIN es |-> Written(es[i])]))
Lines(ss) == W("{") \o Line \o FlattenSeq([i \in DOMAIN ss |-> Written(ss[i]) \o Line]) \o W("}")
Optional(word, e) == IF IsNone(e) THEN <<>> ELSE W(word) \o Written(e)
Condition(e) == Parens(Written(e))
Caught(e, body) ==
  IF IsNone(body) THEN <<>> ELSE W("catch") \o Parens(Id(e.n)) \o Written(body)

Signature(e) ==
  LET ps == Kids(e, "Param")
  IN Parens(Listing([i \in DOMAIN ps |-> WrittenTy(ps[i].ty) \o Id(ps[i].n)]))
       \o (IF e.ty = NoTy THEN <<>> ELSE W("->") \o WrittenTy(e.ty))
Generics(e) ==
  LET gs == Kids(e, "Generic")
  IN IF gs = <<>> THEN <<>>
     ELSE W("<") \o Listing([i \in DOMAIN gs |-> Id(gs[i].n) \o
            (IF gs[i].c = <<>> THEN <<>> ELSE W(":") \o Id(gs[i].c[1].n))]) \o W(">")
Names(e, k) == LET bs == Kids(e, k) IN Listing([i \in DOMAIN bs |-> Id(bs[i].n)])

WrittenExpr(e) ==
  LET c == e.c
      fields(fs) == [i \in DOMAIN fs |-> Id(fs[i].n) \o W(":") \o Written(fs[i].c[1])]
  IN CASE e.k = "Variable" -> Id(e.n)
       [] e.k = "Num" -> <<Token("num", e.n)>>
       [] e.k = "Str" -> <<Token("str", e.n)>>
       [] e.k \in {"Nil", "This"} -> W(IF e.k = "Nil" THEN "nil" ELSE "this")
       [] e.k = "Bool" -> W(e.n)
       [] e.k = "Binary" -> At(c[1], Row(e.n)) \o W(e.n) \o At(c[2], Row(e.n) + 1)
       [] e.k = "Ternary" -> At(c[1], 1) \o W("?") \o At(c[2], 0) \o W(":") \o At(c[3], 0)
       [] e.k = "Propagate" -> Head1(e) \o W("?")
       [] e.k = "Unary" -> W(e.n) \o At(c[1], UnaryRow)
       [] e.k \in {"Spread", "RawDeref", "View", "Borrow"} ->
            W(CASE e.k = "Spread" -> "..." [] e.k = "RawDeref" -> "*" [] e.k = "View" -> "view"
                [] OTHER -> "&") \o At(c[1], UnaryRow)
       [] e.k \in {"ViewMut", "BorrowMut"} ->
            W(IF e.k = "ViewMut" THEN "view" ELSE "&") \o W("mut") \o At(c[1], UnaryRow)
       [] e.k = "PostfixUnary" -> Head1(e) \o W(e.n)
       [] e.k \in {"Member", "OptionalMember"} -> Head1(e) \o W(IF e.k = "Member" THEN "." ELSE "?.") \o Id(e.n)
       [] e.k = "TupleIndex" -> Head1(e) \o W(".") \o <<Token("num", e.n)>>
       [] e.k = "IndexGet" -> Head1(e) \o W("[") \o Written(c[2]) \o W("]")
       [] e.k = "Call" -> Head1(e) \o Args(Tail(c))
       [] e.k = "Await" /\ c[1].k = "AsyncBlock" -> W("await") \o Written(c[1])
       [] e.k = "Await" -> W("await") \o Head1(e) \o Args(Tail(c))
       [] e.k = "AsyncBlock" -> W("async") \o Lines(c)
       [] e.k \in {"Copy", "Close"} -> W(IF e.k = "Copy" THEN "copy" ELSE "close") \o Condition(c[1])
       [] e.k = "Assign" -> Id(e.n) \o W("=") \o Written(c[1])
       [] e.k = "MemberSet" -> Head1(e) \o W(".") \o Id(e.n) \o W("=") \o Written(c[2])
       [] e.k = "IndexSet" -> Head1(e) \o W("[") \o Written(c[2]) \o W("]") \o W("=") \o Written(c[3])
       [] e.k = "RawDerefSet" -> W("*") \o At(c[1], UnaryRow) \o W("=") \o Written(c[2])
       [] e.k = "ChanSend" -> At(c[2], UnaryRow) \o W("|>") \o At(c[1], UnaryRow)
       [] e.k = "ChanRecv" -> Id(e.n) \o W("<|") \o At(c[1], UnaryRow)
       [] e.k = "ArrayLiteral" -> W("[") \o Listing([i \in DOMAIN c |-> Written(c[i])]) \o W("]")
       [] e.k = "TupleLiteral" -> Args(c)
       [] e.k = "ObjectLiteral" -> W("{") \o Listing(fields(c)) \o W("}")
       [] e.k = "StructLiteral" ->
            Id(e.n) \o W("{") \o Listing((IF IsNone(Last(c)) THEN <<>> ELSE <<W("..") \o Written(Last(c))>>)
                                           \o fields(Front(c))) \o W("}")
       [] e.k = "Text" -> FlattenSeq([i \in DOMAIN c |-> IF c[i].k = "Str" THEN <<Token("seg", c[i].n)>>
                                                         ELSE At(c[i], CallRow + 1)])
       [] e.k = "Lambda" -> W("fun") \o Signature(e) \o Written(Last(c))

\* What stands before and after a function's name.
Declared(e, word) == word \o Id(e.n) \o Generics(e) \o Signature(e) \o Written(Last(e.c))
Initial(e) == WrittenTy(e.ty) \o Id(e.n) \o Optional("=", e.c[1])

WrittenStmt(e) ==
  LET c == e.c
      arms == Groups(Middle(c, 1, 1), 3)
      elifs == Groups(Middle(c, 2, 1), 2)
      rest == SelectSeq(c, LAMBDA x : x.k \notin {"Generic", "Bind"})
      members(m) == Id(m.n) \o (IF Kids(m, "Data") = <<>> THEN <<>>
                                ELSE Parens(WrittenTy(m.c[1].ty))) \o W(",") \o Line
  IN CASE e.k = "Var" /\ e.ty.k = "shared" -> Initial(e)
       [] e.k = "Var" -> W("var") \o Initial(e)
       [] e.k = "StaticVar" -> W("static") \o W("var") \o Initial(e)
       [] e.k = "ConstVar" -> W("static") \o Id("const") \o W("var") \o Initial(e)
       [] e.k = "ViewVar" -> W("view") \o W("var") \o Initial(e)
       [] e.k = "ViewMutVar" -> W("view") \o W("mut") \o W("var") \o Initial(e)
       [] e.k = "Destructure" -> W("var") \o W("[") \o Names(e, "Bind") \o W("]") \o W("=") \o Written(c[1])
       [] e.k = "TupleDestructure" -> W("var") \o Parens(Names(e, "Bind")) \o W("=") \o Written(c[1])
       [] e.k = "Expression" -> Written(c[1])
       [] e.k = "Say" -> W("say") \o Condition(c[1])
       [] e.k = "Block" -> Lines(c)
       [] e.k = "If" -> W("if") \o Condition(c[1]) \o Written(c[2])
            \o FlattenSeq([i \in DOMAIN elifs |-> W("elif") \o Condition(elifs[i][1]) \o Written(elifs[i][2])])
            \o Optional("else", Last(c))
       [] e.k = "While" -> W("while") \o Condition(c[1]) \o Written(c[2])
       [] e.k = "DoWhile" -> W("do") \o Written(c[1]) \o W("while") \o Condition(c[2])
       [] e.k = "For" -> W("for") \o W("(") \o Written(c[1]) \o W(";") \o Written(c[2]) \o W(";")
                           \o Written(c[3]) \o W(")") \o Written(c[4])
       [] e.k = "ForIn" -> W("for") \o Parens(W("var") \o Id(e.n) \o W("in") \o Written(c[1])) \o Written(c[2])
       [] e.k \in {"ForAwait", "ChanRecvFor"} ->
            W("for") \o (IF e.k = "ForAwait" THEN W("await") ELSE <<>>)
              \o Id(e.n) \o W("in") \o Written(c[1]) \o Written(c[2])
       [] e.k = "Match" -> W("match") \o Condition(c[1]) \o W("{") \o Line
            \o FlattenSeq([i \in DOMAIN arms |-> W("case") \o Written(arms[i][1]) \o Optional("if", arms[i][2])
                                                   \o W("=>") \o Written(arms[i][3]) \o Line])
            \o (IF IsNone(Last(c)) THEN <<>> ELSE W("default") \o W("=>") \o Written(Last(c)) \o Line) \o W("}")
       [] e.k = "Try" -> W("try") \o Written(c[1]) \o Caught(e, c[2]) \o Optional("finally", c[3])
       [] e.k = "Retry" -> W("retry") \o Written(c[1]) \o Written(c[2]) \o Caught(e, c[3])
       [] e.k = "Throw" -> W("throw") \o Written(c[1])
       [] e.k = "Return" -> W("return") \o Written(c[1])
       [] e.k \in {"Break", "Continue"} -> W(IF e.k = "Break" THEN "break" ELSE "continue")
       [] e.k = "Go" -> W("go") \o Written(IF IsNone(c[2]) THEN c[1] ELSE c[2])
       [] e.k = "Unsafe" -> W("unsafe") \o Written(c[1])
       [] e.k = "Quiet" -> W("quiet") \o (IF Len(c) = 1 THEN <<>> ELSE W("[") \o Names(e, "Bind") \o W("]"))
                             \o Written(Last(c))
       [] e.k = "Function" -> Declared(e, W("fun"))
       [] e.k = "AsyncFunction" -> Declared(e, W("async") \o W("fun"))
       [] e.k = "Class" -> W("class") \o Id(e.n) \o Generics(e) \o Lines(rest)
       [] e.k = "Trait" -> W("trait") \o Id(e.n) \o Lines(rest)
       [] e.k = "Impl" -> W("impl") \o Id(e.n) \o W("for") \o Names(e, "Bind") \o Lines(rest)
       [] e.k = "Test" -> W("test") \o Id(e.n) \o Lines(c)
       [] e.k = "Enum" -> W("enum") \o Id(e.n) \o W("{") \o Line
                            \o FlattenSeq([i \in DOMAIN c |-> members(c[i])]) \o W("}")
       [] e.k = "TypeAlias" -> W("type") \o Id(e.n) \o W("=") \o WrittenTy(e.ty)
       [] e.k = "Use" ->
            LET library == IF e.ty.k = "file" THEN <<Token("str", e.n)>> ELSE Id(e.n)
            IN W("use") \o (IF Kids(e, "Import") = <<>>
                            THEN library \o (IF c = <<>> THEN <<>> ELSE W("as") \o Id(c[1].n))
                            ELSE Parens(Names(e, "Import")) \o W("=") \o W("from") \o library)

Written(e) ==
  CASE IsNone(e) -> <<>>
    [] e.k \in StmtKinds \cup {"StaticVar", "ConstVar"} -> WrittenStmt(e)
    [] OTHER -> WrittenExpr(e)

\* A file: its statements a line each, and the end.
File(ss) == FlattenSeq([i \in DOMAIN ss |-> Written(ss[i]) \o Line]) \o <<Eof>>

\* A tree without the parentheses its writer needed; a text is the sum of
\* its pieces.
RECURSIVE Plain(_)
Plain(e) ==
  LET c == [i \in DOMAIN e.c |-> Plain(e.c[i])]
  IN CASE e.k = "Grouping" -> c[1]
       [] e.k = "Text" -> FoldLeft(LAMBDA x, y : N("Binary", "+", <<x, y>>), c[1], Tail(c))
       [] OTHER -> [e EXCEPT !.c = c]
PlainAll(ss) == [i \in DOMAIN ss |-> Plain(ss[i])]
=============================================================================
