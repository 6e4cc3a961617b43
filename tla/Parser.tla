------------------------------- MODULE Parser -------------------------------
(***************************************************************************)
(* The recursive-descent parser of crates/ntsc-parser.  A token has a kind *)
(* (its spelling for keywords and punctuation, "id", "num", "str", "seg",  *)
(* "nl" and "eof" for the rest) and a lexeme; a token list ends in "eof".  *)
(*                                                                         *)
(* Each parse function of the source is a rule: the list of the navigation *)
(* calls it makes, in order.  Run interprets a rule at a position of the   *)
(* tokens, filling the node under construction (Syntax.tla); it answers    *)
(* the position reached and the node, or the position where it failed,     *)
(* which is where the recovery of the top loop starts from.                *)
(***************************************************************************)
EXTENDS Syntax

Token(k, n) == [k |-> k, n |-> n]
Eof         == Token("eof", "")

TypeWords == {"int", "float", "string", "bool", "array", "object", "option", "result", "any",
              "pointer", "slice"}

\* keyword_lexeme: the words a property may be named after.
Keywords ==
  TypeWords \cup
  {"and", "class", "else", "elif", "false", "fun", "for", "if", "nil", "or", "say", "return",
   "static", "super", "this", "true", "var", "while", "do", "break", "continue", "match", "case",
   "default", "try", "catch", "finally", "throw", "retry", "unsafe", "quiet", "enum", "type",
   "trait", "impl", "in", "use", "from", "as", "test", "async", "await", "view", "mut", "shared",
   "copy", "own", "go", "chan", "close"}

\* is_operator_token: the operators a method may be named after.
Operators == {"+", "-", "*", "/", "%", "!", "==", "!=", "<", "<=", ">", ">="}

Lexeme(t) == IF t.k \in {"id", "num", "str", "seg"} THEN t.n ELSE t.k

\* peek, peek_at, check and check_ident: contextual words are identifiers.
Peek(ts, i)  == IF i <= Len(ts) THEN ts[i] ELSE Eof
Is(ts, i, k) == LET t == Peek(ts, i) IN t.k = k \/ (t.k = "id" /\ t.n = k)
OneOf(ts, i, ks) == \E k \in ks : Is(ts, i, k)
SkipNewlines(ts, i) == CHOOSE j \in i..(Len(ts) + 1) :
                         /\ Peek(ts, j).k # "nl"
                         /\ \A h \in i..(j - 1) : ts[h].k = "nl"

Done(i, v) == [ok |-> TRUE, i |-> i, v |-> v]
Fail(i)    == [ok |-> FALSE, i |-> i, v |-> None]

(***************************************************************************)
(* consume_terminator: a semicolon, or a newline that does not continue    *)
(* the statement.  The continuation test looks at the newline itself.      *)
(***************************************************************************)
Continuations == {".", "?.", "(", "[", "+", "-", "*", "/", "%", "=", "==", "!=", ">", ">=", "<",
                  "<=", "&&", "||", "&", "|", "^", "~", "!", "++", "--", "...", ";"}
NextIsContinuation(ts, i) == Peek(ts, i).k \in Continuations
Terminator(ts, i) ==
  IF Is(ts, i, ";") \/ (Is(ts, i, "nl") /\ ~NextIsContinuation(ts, i)) THEN i + 1 ELSE i

(***************************************************************************)
(* The vocabulary of rules: an operation, a token kind or another argument,*)
(* and the rule it applies to.                                             *)
(***************************************************************************)
Item(op, a, r) == [op |-> op, a |-> a, r |-> r]
Adv     == Item("adv", "", <<>>)        \* advance
Need(k) == Item("need", k, <<>>)        \* expect
Name    == Item("name", "", <<>>)       \* expect_ident, which names the node
Take    == Item("take", "", <<>>)       \* advance, naming the node
Newlines == Item("newlines", "", <<>>)  \* skip_newlines
End     == Item("end", "", <<>>)        \* consume_terminator
Wrong   == Item("wrong", "", <<>>)      \* return Err
Prec(p) == Item("prec", p, <<>>)        \* parse_precedence
Expr    == Prec(1)
Stmt    == Item("stmt", "", <<>>)       \* parse_statement
TypeReq == Item("type", "", <<>>)       \* parse_type_annotation(true), or Err
DeclTy  == Item("decl", "", <<>>)       \* parse_declaration_type_annotation
ArgTy   == Item("argty", "", <<>>)      \* a type as a child, or Err
Push(e) == Item("push", e, <<>>)        \* a child the parser makes up
Kind(k) == Item("kind", k, <<>>)        \* the node turns out to be a k
SetTy(t) == Item("setty", t, <<>>)
Opt(k, r)   == Item("opt", k, r)        \* if consume(k) { r }
May(k, r)   == Item("may", k, r)        \* the same, None without it
Star(k, r)  == Item("star", k, r)       \* while consume(k) { r }
Until(k, r) == Item("until", k, r)      \* while !check(k) && !is_at_end { r }
Unless(k, r) == Item("unless", k, r)    \* if !check(k) { r }
In(k, r)    == Item("in", k, r)         \* a child node of kind k
Pick(cases) == Item("pick", "", cases)  \* the first <<kinds, r>> that fits; {} always does

Sep(k, r)     == r \o <<Star(k, r)>>
List(end, r)  == <<Unless(end, Sep(",", r))>>
Loose(end, r) == <<Unless(end, r \o <<Star(",", <<Unless(end, r)>>)>>)>>
Bind          == In("Bind", <<Name>>)
Paren         == <<Need("("), Expr, Need(")")>>
Braces        == <<Need("{"), Newlines, Until("}", <<Stmt, Newlines>>), Need("}")>>

\* A child of kind k goes last: the default of a match, the base of an update.
Settled(c, k) ==
  LET is == {i \in DOMAIN c : c[i].k = k}
  IN SelectSeq(c, LAMBDA e : e.k # k)
       \o <<IF is = {} THEN None ELSE c[CHOOSE i \in is : \A j \in is : j <= i].c[1]>>

(***************************************************************************)
(* Declarations.                                                           *)
(***************************************************************************)
GenericParams ==
  <<Opt("<", Sep(",", <<In("Generic", <<Name, Opt(":", Sep("+", <<Bind>>))>>)>>) \o <<Need(">")>>)>>

\* parse_where_bounds: more bounds for a parameter of the declaration.
WhereBounds == <<Opt("where", Sep(",", <<Item("where", "", <<>>)>>))>>

FunctionSignature ==
  <<Need("(")>> \o List(")", <<In("Param", <<DeclTy, Name>>)>>)
  \o <<Need(")"), Opt("->", <<Pick(<< <<{"impl"}, <<Adv, Item("implty", "", <<>>)>> >>,
                                      <<{}, <<TypeReq>> >> >>)>>)>>

FunctionBody ==
  LET result == <<Newlines, In("Block", <<In("Return", <<Expr, End>>)>>)>>
  IN Pick(<< <<{"{"}, <<In("Block", Braces)>> >>, <<{"=>"}, <<Adv>> \o result>>, <<{}, result>> >>)

MethodName == Pick(<< <<{"id"} \cup Operators, <<Take>> >>, <<{}, <<Wrong>> >> >>)

FunctionRule == <<Adv, MethodName>> \o GenericParams \o FunctionSignature \o WhereBounds
                \o <<Newlines, FunctionBody>>
AsyncFunctionRule == <<Adv, Name>> \o FunctionSignature \o <<Newlines, FunctionBody>>
AsyncBlockBody == <<Opt("->", <<TypeReq>>)>> \o Braces
LambdaRule == <<Adv>> \o FunctionSignature \o <<Newlines, FunctionBody>>

TraitRule ==
  LET member == Pick(
        << <<{"type"}, <<In("Associated", <<Adv, Name, End>>)>> >>,
           <<{}, <<In("Function", <<Need("fun"), Name>> \o FunctionSignature
                \o <<Pick(<< <<{"{"}, <<FunctionBody>> >>, <<{}, <<End, Push(Block(<<>>))>> >> >>)>>)>> >> >>)
  IN <<Adv, Name, Opt(":", Sep("+", <<Bind>>)), Newlines, Need("{"), Newlines,
       Until("}", <<member, Newlines>>), Need("}")>>

ImplRule  == <<Adv, Name, Need("for"), Bind, Newlines>> \o Braces
ClassRule == <<Adv, Name>> \o GenericParams \o <<Opt("extends", <<Bind>>)>> \o WhereBounds
             \o <<Newlines>> \o Braces
TestRule  == <<Adv, Name, Newlines>> \o Braces
TypeAliasRule == <<Adv, Name>> \o GenericParams \o <<Need("="), TypeReq, End>>

EnumRule ==
  LET member == <<Name, Opt("(", List(")", <<In("Data", <<TypeReq>>)>>) \o <<Need(")")>>),
                  Opt("=", <<Expr>>)>>
  IN <<Adv, Name>> \o GenericParams \o WhereBounds
     \o <<Newlines, Need("{"), Newlines,
          Until("}", <<In("EnumMember", member), Opt(",", <<>>), Newlines>>), Need("}")>>

\* parse_var_declaration_tail, for a plain, a static and a borrow variable.
VarTail(flavour) == Item("vartail", flavour, <<>>)
VarRule       == <<Adv, VarTail("plain")>>
StaticVarRule == <<Adv, Opt("const", <<Kind("ConstVar")>>), Need("var"), VarTail("static")>>
ViewVarRule   == <<Adv, Opt("mut", <<Kind("ViewMutVar")>>), Need("var"), VarTail("view")>>
SharedVarRule == <<TypeReq, Name, May("=", <<Expr>>), End>>

\* Whether "(" opens the names of a tuple destructuring: the first ")" after
\* a name that "," or ")" follows has "=" behind it.
TupleAhead(ts, i) ==
  /\ Is(ts, i, "(") /\ Peek(ts, i + 1).k = "id" /\ OneOf(ts, i + 2, {",", ")"})
  /\ \E j \in (i + 2)..Len(ts) : /\ Is(ts, j, ")") /\ Is(ts, j + 1, "=")
                                 /\ \A h \in (i + 1)..(j - 1) : ~Is(ts, h, ")")

\* parse_tuple_destructure and parse_destructure: the value comes first.
Destructuring(kind, end, name, annotated) ==
  <<Kind(kind), Adv>> \o Loose(end, <<In("Bind", name)>>)
  \o <<Need(end)>> \o (IF annotated THEN <<End>> ELSE <<>>)
  \o <<Need("="), Expr, Item("lead", "", <<>>), End>>

\* What follows `var', once the annotation ty has been read.
VarRest(ts, i, flavour, ty) ==
  LET annotated == ty # NoTy \/ flavour = "static"
  IN CASE OneOf(ts, i, {"[", "{"}) /\ flavour = "view" -> <<Wrong>>
       [] Is(ts, i, "[") -> Destructuring("Destructure", "]", <<Name>>, annotated)
       [] Is(ts, i, "{") -> Destructuring("Destructure", "}",
                              <<Name, Opt(":", <<In("Alias", <<Name>>)>>)>>, annotated)
       [] OTHER -> <<Name, May("=", <<Expr>>), End>>

(***************************************************************************)
(* Statements.                                                             *)
(***************************************************************************)
Branch == Paren \o <<Newlines, Stmt>>
Catch  == May("catch", <<Need("("), Name, Need(")"), Newlines, Stmt>>)

IfRule      == <<Adv>> \o Branch \o <<Star("elif", Branch), May("else", <<Newlines, Stmt>>)>>
WhileRule   == <<Adv>> \o Branch
DoWhileRule == <<Adv, Newlines, Stmt, Need("while")>> \o Paren \o <<End>>
SayRule     == <<Adv>> \o Paren \o <<End>>
TryRule     == <<Adv, Newlines, Stmt, Catch, May("finally", <<Newlines, Stmt>>)>>
RetryRule   == <<Adv, Expr, Newlines, Stmt, Catch>>
ThrowRule   == <<Adv, Expr, End>>
UnsafeRule  == <<Adv, Newlines, Stmt>>
JumpRule    == <<Adv, End>>
ReturnRule  == <<Adv, Pick(<< <<{"nl", ";"}, <<Push(None)>> >>, <<{}, <<Expr>> >> >>), End>>
ExpressionRule == <<Expr, End>>

QuietRule ==
  LET names == Pick(<< <<{"]"}, <<Wrong>> >>, <<{}, Sep(",", <<Bind>>)>> >>)
  IN <<Adv, Newlines, Opt("[", <<names, Need("]"), Newlines>>), Stmt>>

GoRule == <<Adv, Newlines, Pick(<< <<{"{"}, <<Push(Nil), In("Block", Braces)>> >>,
                                   <<{}, <<Expr, Push(None)>> >> >>)>>

MatchRule ==
  LET arm == Pick(<< <<{"default"}, <<In("Default", <<Adv, Need("=>"), Stmt>>)>> >>,
                     <<{}, <<Adv, Expr, May("if", <<Expr>>), Need("=>"), Stmt>> >> >>)
  IN <<Adv>> \o Paren \o <<Newlines, Need("{"), Newlines, Until("}", <<arm, Newlines>>), Need("}"),
                           Item("settle", "Default", <<>>)>>

\* parse_for_statement: a stream, a channel, a collection or a counted loop.
Stream == <<Name, Need("in"), Expr, Newlines, In("Block", Braces)>>
ForRule(ts, i) ==
  LET absent == <<End, Push(None)>>
      counted ==
        <<Pick(<< <<{"var"}, <<In("Var", VarRule)>> >>, <<{";", "nl"}, absent>>,
                  <<{}, <<In("Expression", ExpressionRule)>> >> >>),
          Pick(<< <<{";", "nl"}, absent>>, <<{}, ExpressionRule>> >>),
          Pick(<< <<{")"}, <<Push(None)>> >>, <<{}, <<Expr>> >> >>)>>
  IN CASE Is(ts, i + 1, "await") -> <<Kind("ForAwait"), Adv, Adv>> \o Stream
       [] Peek(ts, i + 1).k = "id" /\ Is(ts, i + 2, "in") -> <<Kind("ChanRecvFor"), Adv>> \o Stream
       [] /\ Is(ts, i + 1, "(") /\ Is(ts, i + 2, "var") /\ Peek(ts, i + 3).k = "id"
          /\ Is(ts, i + 4, "in") ->
            <<Kind("ForIn"), Adv, Need("("), Need("var"), Name, Need("in"), Expr, Need(")"),
              Newlines, Stmt>>
       [] OTHER -> <<Adv, Need("(")>> \o counted \o <<Need(")"), Newlines, Stmt>>

\* parse_use_statement and parse_selective_use.  A quoted library is a file.
UseRule ==
  LET library == Pick(<< <<{"str"}, <<Take, SetTy(T("file"))>> >>, <<{}, <<Name>> >> >>)
      selective == <<Adv>> \o List(")", <<In("Import", <<Name>>)>>)
                   \o <<Need(")"), Need("="), Need("from"), library, End>>
  IN <<Adv, Pick(<< <<{"("}, selective>>, <<{}, <<library, Opt("as", <<Bind>>), End>> >> >>)>>

AsyncRule ==
  <<Adv, Pick(<< <<{"fun"}, <<Kind("AsyncFunction")>> \o AsyncFunctionRule>>,
                 <<{"{", "->"}, <<Kind("Expression"), In("AsyncBlock", AsyncBlockBody)>> >>,
                 <<{}, <<Wrong>> >> >>)>>

\* parse_statement: the kind of statement its first tokens announce.
Announced(ts, i) ==
  LET k == Peek(ts, i).k
  IN CASE k = "view" /\ (Is(ts, i + 1, "var") \/ (Is(ts, i + 1, "mut") /\ Is(ts, i + 2, "var"))) ->
            [k |-> "ViewVar", r |-> ViewVarRule]
       [] k = "fun" /\ Peek(ts, i + 1).k \in {"id"} \cup Operators ->
            [k |-> "Function", r |-> FunctionRule]
       [] k = "var" -> [k |-> "Var", r |-> VarRule]
       [] k = "static" -> [k |-> "StaticVar", r |-> StaticVarRule]
       [] k = "shared" -> [k |-> "Var", r |-> SharedVarRule]
       [] k = "async" -> [k |-> "", r |-> AsyncRule]
       [] k = "go" -> [k |-> "Go", r |-> GoRule]
       [] k = "class" -> [k |-> "Class", r |-> ClassRule]
       [] k = "enum" -> [k |-> "Enum", r |-> EnumRule]
       [] k = "type" -> [k |-> "TypeAlias", r |-> TypeAliasRule]
       [] k = "trait" -> [k |-> "Trait", r |-> TraitRule]
       [] k = "impl" -> [k |-> "Impl", r |-> ImplRule]
       [] k = "if" -> [k |-> "If", r |-> IfRule]
       [] k = "while" -> [k |-> "While", r |-> WhileRule]
       [] k = "do" -> [k |-> "DoWhile", r |-> DoWhileRule]
       [] k = "for" -> [k |-> "For", r |-> ForRule(ts, i)]
       [] k = "match" -> [k |-> "Match", r |-> MatchRule]
       [] k = "try" -> [k |-> "Try", r |-> TryRule]
       [] k = "throw" -> [k |-> "Throw", r |-> ThrowRule]
       [] k = "retry" -> [k |-> "Retry", r |-> RetryRule]
       [] k = "unsafe" -> [k |-> "Unsafe", r |-> UnsafeRule]
       [] k = "quiet" -> [k |-> "Quiet", r |-> QuietRule]
       [] k = "return" -> [k |-> "Return", r |-> ReturnRule]
       [] k = "break" -> [k |-> "Break", r |-> JumpRule]
       [] k = "continue" -> [k |-> "Continue", r |-> JumpRule]
       [] k = "use" -> [k |-> "Use", r |-> UseRule]
       [] k = "test" -> [k |-> "Test", r |-> TestRule]
       [] k = "{" -> [k |-> "Block", r |-> Braces]
       [] k = "say" -> [k |-> "Say", r |-> SayRule]
       [] OTHER -> [k |-> "Expression", r |-> ExpressionRule]

(***************************************************************************)
(* Types.  parse_type_annotation answers an Option: a failure keeps the    *)
(* position it reached, except that a parenthesis which opens no tuple is  *)
(* given back.                                                             *)
(***************************************************************************)
\* type_source and mangle_applied_type: the spelling of an applied name.
RECURSIVE TypeSource(_)
Joined(ts) == FoldLeft(LAMBDA acc, t : IF acc = "" THEN t ELSE acc \o "," \o t, "",
                       [i \in DOMAIN ts |-> TypeSource(ts[i])])
TypeSource(t) ==
  CASE t.k = "class" -> t.n
    [] t.k \in {"array", "option", "result", "slice"} /\ t.of # <<>> ->
         t.k \o "[" \o Joined(t.of) \o "]"
    [] t.k \in {"shared", "own", "view"} -> t.k \o " " \o TypeSource(Inner(t))
    [] t.k = "viewmut" -> "view mut " \o TypeSource(Inner(t))
    [] t.k = "str" -> "string"
    [] OTHER -> t.k
Mangle(base, args) == base \o "<" \o Joined(args) \o ">"

TypeArguments == <<Need("<")>> \o Sep(",", <<ArgTy>>) \o <<Need(">")>>
Bracketed     == <<Need("["), ArgTy, Need("]")>>

\* The rule for the type that starts at i, and the constructor it makes.
TypeRule(ts, i, named) ==
  LET k == Peek(ts, i).k
      mut(as) == Opt("mut", <<Kind(as)>>)
      as(c, r) == [k |-> c, r |-> <<Adv>> \o r]
      applied == <<{"<"}, TypeArguments \o <<Item("mangle", "", <<>>)>> >>
      plain == <<{}, <<>> >>
      member == <<{":"}, <<Adv, Need(":"), Item("associated", "", <<>>)>> >>
      dyn == Is(ts, i, "dyn") /\ Peek(ts, i + 1).k = "id"
  IN CASE k = "own" -> as("own", <<ArgTy>>)
       [] k = "&" -> as("ref", <<mut("refmut"), ArgTy>>)
       [] k = "*" -> as("raw", <<Pick(<< <<{"mut"}, <<Adv, Kind("rawmut")>> >>, <<{"const"}, <<Adv>> >>,
                                         <<{"id"}, <<Adv, Wrong>> >>, <<{}, <<Wrong>> >> >>), ArgTy>>)
       [] k = "view" -> as("view", <<mut("viewmut"), ArgTy>>)
       [] k = "shared" -> as("shared", <<ArgTy>>)
       [] k \in {"array", "slice"} -> as(k, <<Opt("[", <<ArgTy, Need("]")>>)>>)
       [] k \in {"option", "chan"} -> as(k, Bracketed)
       [] k = "result" -> as(k, <<Need("["), ArgTy, Need(","), ArgTy, Need("]")>>)
       [] k = "string" -> as("str", <<>>)
       [] k \in TypeWords -> as(k, <<>>)
       [] k = "id" /\ named /\ dyn -> as("dyn", <<Take, Pick(<<applied, plain>>)>>)
       [] k = "id" /\ named ->
            [k |-> "class", r |-> <<Take, Pick(<<applied, member, plain>>)>>]
       [] OTHER -> [k |-> "", r |-> <<Wrong>>]

\* A named type annotates a declaration only in front of another name.
NamedAhead(ts, i) ==
  LET id(j) == Peek(ts, i + j).k = "id"
  IN /\ id(0)
     /\ \/ id(1) \/ Is(ts, i + 1, "<")
        \/ Is(ts, i + 1, ":") /\ Is(ts, i + 2, ":") /\ id(3) /\ id(4)

(***************************************************************************)
(* Expressions: a Pratt parser.                                            *)
(***************************************************************************)
Levels ==
  <<{"="}, {"?"}, {"||"}, {"&&"}, {"==", "!="}, {">", ">=", "<", "<="}, {"|"}, {"^"}, {"&"},
    {"<<", ">>", "<|", "|>"}, {"+", "-"}, {"*", "/", "%"}, {},
    {"++", "--", ".", "?.", "(", "["}>>
Unary    == 13
CallPrec == 14
InfixPrecedence(ts, i) ==
  LET at == {p \in DOMAIN Levels : Peek(ts, i).k \in Levels[p]}
  IN IF at = {} THEN 0 ELSE CHOOSE p \in at : TRUE
\* Mutant: an operator takes its own level on the right.
NextHigherSame(p) == p

NextHigher(p) == IF p = CallPrec THEN CallPrec ELSE p + 1

BinaryOps == {"+", "-", "*", "/", "%", "==", "!=", ">", ">=", "<", "<=", "&&", "||", "&", "|", "^",
              "<<", ">>"}

CanStartExpression ==
  {"num", "str", "seg", "true", "false", "nil", "id", "this", "-", "!", "~", "++", "--", "...",
   "(", "[", "{", "fun", "int", "float", "string", "bool", "array", "object", "any", "pointer",
   "slice"}

\* looks_like_generic_call: the "<" at i is closed on this line, before "(".
RECURSIVE ClosesCall(_, _, _)
ClosesCall(ts, i, depth) ==
  LET k == Peek(ts, i).k
  IN CASE k \in {"eof", "nl", ";"} -> FALSE
       [] k = ">" /\ depth <= 1 -> Is(ts, i + 1, "(")
       [] OTHER -> ClosesCall(ts, i + 1, CASE k = "<" -> depth + 1 [] k = ">" -> depth - 1
                                           [] OTHER -> depth)
LooksLikeGenericCall(ts, i) == Is(ts, i, "<") /\ ClosesCall(ts, i, 0)

\* lookahead_struct_literal_fields: the "{" at i opens fields.
StructAhead(ts, i) ==
  /\ Is(ts, i, "{")
  /\ \/ Is(ts, i + 1, "..")
     \/ Peek(ts, i + 1).k \in {"id", "str"} /\ OneOf(ts, i + 2, {":", ",", "}"})

KeyName == Pick(<< <<{"str"}, <<Take>> >>, <<{}, <<Name>> >> >>)
MemberName == Pick(<< <<{"id"} \cup Keywords, <<Take>> >>, <<{}, <<Wrong>> >> >>)

StructLiteralRule ==
  LET update == <<Item("once", "Update", <<>>),
                  In("Update", <<Adv, Newlines, Pick(<< <<{"}", ","}, <<Wrong>> >>, <<{}, <<Expr>> >> >>)>>)>>
      field == <<In("Field", <<KeyName, Pick(<< <<{":"}, <<Adv, Expr>> >>,
                                                <<{}, <<Item("short", "", <<>>)>> >> >>)>>)>>
      member == <<Pick(<< <<{".."}, update>>, <<{}, field>> >>)>>
  IN <<Adv, Newlines, Unless("}", member \o <<Star(",", <<Newlines, Unless("}", member)>>)>>),
       Need("}"), Item("settle", "Update", <<>>)>>

ObjectLiteralRule ==
  LET property == <<In("Field", <<KeyName, Need(":"), Expr>>)>>
  IN <<Adv, Newlines, Unless("}", property \o <<Star(",", <<Newlines>> \o property)>>), Need("}")>>

ArrayLiteralRule == <<Adv>> \o List("]", <<Expr>>) \o <<Need("]")>>

\* A parenthesis: a grouping, or a tuple when a comma follows.
ParenRule ==
  <<Adv, Expr, Pick(<< <<{","}, <<Kind("TupleLiteral"), Star(",", <<Unless(")", <<Expr>>)>>)>> >>,
                       <<{}, <<>> >> >>), Need(")")>>

Arguments ==
  List(")", <<Pick(<< <<{"..."}, <<In("Spread", <<Adv, Prec(Unary)>>)>> >>, <<{}, <<Expr>> >> >>)>>)
  \o <<Need(")")>>

\* parse_prefix, where a rule tells it all.
PrefixRule(ts, i) ==
  LET k == Peek(ts, i).k
      unary == <<Adv, Prec(Unary)>>
      mut(as) == <<Adv, Opt("mut", <<Kind(as)>>), Prec(Unary)>>
      block == OneOf(ts, i + 1, {"{", "->"})
      ns == Is(ts, i + 1, ".")
  IN CASE k = "num" -> [k |-> "Num", r |-> <<Take>>]
       [] k = "str" -> [k |-> "Str", r |-> <<Take>>]
       [] k \in {"true", "false"} -> [k |-> "Bool", r |-> <<Take>>]
       [] k = "nil" -> [k |-> "Nil", r |-> <<Adv>>]
       [] k = "this" -> [k |-> "This", r |-> <<Adv>>]
       [] k = "close" -> [k |-> "Close", r |-> <<Adv>> \o Paren]
       [] k = "copy" -> [k |-> "Copy", r |-> <<Adv>> \o Paren]
       [] k \in {"-", "!", "~", "++", "--"} -> [k |-> "Unary", r |-> <<Take, Prec(Unary)>>]
       [] k = "..." -> [k |-> "Spread", r |-> unary]
       [] k = "*" -> [k |-> "RawDeref", r |-> unary]
       [] k = "view" -> [k |-> "View", r |-> mut("ViewMut")]
       [] k = "&" -> [k |-> "Borrow", r |-> mut("BorrowMut")]
       [] k = "(" -> [k |-> "Grouping", r |-> ParenRule]
       [] k = "[" -> [k |-> "ArrayLiteral", r |-> ArrayLiteralRule]
       [] k = "{" -> [k |-> "ObjectLiteral", r |-> ObjectLiteralRule]
       [] k = "fun" -> [k |-> "Lambda", r |-> LambdaRule]
       [] k = "async" /\ block -> [k |-> "AsyncBlock", r |-> <<Adv>> \o AsyncBlockBody]
       [] k \in {"async", "chan"} /\ ns -> [k |-> "Variable", r |-> <<Take>>]
       [] OTHER -> [k |-> "", r |-> <<Wrong>>]

(***************************************************************************)
(* The interpreter of rules and the functions that are more than a rule.   *)
(***************************************************************************)
RECURSIVE Run(_, _, _, _), Climb(_, _, _, _), Pieces(_, _, _), ParseType(_, _, _)

Begun(k) == N(k, "", <<>>)

\* parse_string_with_interpolation: segments and expressions, until neither
\* can start, added up.
Pieces(ts, i, parts) ==
  CASE Is(ts, i, "seg") -> Pieces(ts, i + 1, Append(parts, N("Str", Peek(ts, i).n, <<>>)))
    [] Peek(ts, i).k \in CanStartExpression \ {"seg"} ->
         LET e == Run(ts, i, <<Expr>>, Begun("")) IN
         IF e.ok THEN Pieces(ts, e.i, parts \o e.v.c) ELSE e
    [] OTHER -> Done(i, FoldLeft(LAMBDA acc, e : N("Binary", "+", <<acc, e>>), Head(parts), Tail(parts)))

ParsePrefix(ts, i) ==
  LET rule == PrefixRule(ts, i)
      args == Run(ts, i + 1, TypeArguments, Begun("Variable"))
      generic == LooksLikeGenericCall(ts, i + 1)
      name == IF generic THEN Mangle(Peek(ts, i).n, args.v.c) ELSE Peek(ts, i).n
      after == IF generic THEN args.i ELSE i + 1
      operand == Run(ts, i + 1, <<Prec(CallPrec)>>, Begun("")) IN
  CASE Is(ts, i, "seg") -> Pieces(ts, i, <<>>)
    [] Peek(ts, i).k = "id" ->
         (CASE generic /\ ~args.ok -> args
            [] StructAhead(ts, after) -> Run(ts, after, StructLiteralRule, N("StructLiteral", name, <<>>))
            [] OTHER -> Done(after, V(name)))
    [] Is(ts, i, "await") /\ Is(ts, i + 1, "async") /\ OneOf(ts, i + 2, {"{", "->"}) ->
         Run(ts, i + 1, <<In("AsyncBlock", <<Adv>> \o AsyncBlockBody)>>, Begun("Await"))
    [] Is(ts, i, "await") ->
         (CASE ~operand.ok -> operand
            [] operand.v.c[1].k = "Call" -> Done(operand.i, N("Await", "", operand.v.c[1].c))
            [] OTHER -> Fail(operand.i))
    [] OTHER -> Run(ts, i, rule.r, Begun(rule.k))

\* The target a value is assigned to: the node it becomes.
Assigned(left, value) ==
  CASE left.k = "Variable" -> N("Assign", left.n, <<value>>)
    [] left.k = "Member"   -> N("MemberSet", left.n, left.c \o <<value>>)
    [] left.k = "IndexGet" -> N("IndexSet", "", left.c \o <<value>>)
    [] left.k = "RawDeref" -> N("RawDerefSet", "", left.c \o <<value>>)
    [] OTHER -> None

\* parse_infix: `?' is a ternary if the rest of one parses, else propagation.
ParseInfix(ts, i, left) ==
  LET k == Peek(ts, i).k
      node(kind) == N(kind, "", <<left>>)
      right == Run(ts, i + 1, <<Prec(NextHigher(InfixPrecedence(ts, i)))>>, Begun(""))
      value == Run(ts, i + 1, <<Expr>>, Begun(""))
      ternary == Run(ts, i, <<Adv, Expr, Need(":"), Expr>>, node("Ternary"))
  IN CASE k \in BinaryOps ->
            IF right.ok THEN Done(right.i, N("Binary", k, <<left>> \o right.v.c)) ELSE right
       [] k = "|>" ->
            IF right.ok THEN Done(right.i, N("ChanSend", "", right.v.c \o <<left>>)) ELSE right
       [] k = "<|" ->
            (CASE ~right.ok -> right
               [] IsVar(left) -> Done(right.i, N("ChanRecv", left.n, right.v.c))
               [] OTHER -> Fail(right.i))
       [] k = "=" ->
            (CASE ~value.ok -> value
               [] IsNone(Assigned(left, value.v.c[1])) -> Fail(value.i)
               [] OTHER -> Done(value.i, Assigned(left, value.v.c[1])))
       [] k \in {"++", "--"} -> Run(ts, i, <<Take>>, node("PostfixUnary"))
       [] k = "?" -> IF ternary.ok THEN ternary ELSE Done(i + 1, node("Propagate"))
       [] k = "." -> IF Peek(ts, i + 1).k = "num" THEN Run(ts, i, <<Adv, Take>>, node("TupleIndex"))
                     ELSE Run(ts, i, <<Adv, MemberName>>, node("Member"))
       [] k = "?." -> Run(ts, i, <<Adv, MemberName>>, node("OptionalMember"))
       [] k = "(" -> Run(ts, i, <<Adv>> \o Arguments, node("Call"))
       [] k = "[" -> Run(ts, i, <<Adv, Expr, Need("]")>>, node("IndexGet"))

\* parse_precedence, from a left operand on.
Climb(ts, i, left, p) ==
  IF Is(ts, i, "eof") \/ InfixPrecedence(ts, i) < p THEN Done(i, left)
  ELSE LET r == ParseInfix(ts, i, left) IN IF r.ok THEN Climb(ts, r.i, r.v, p) ELSE r

ParsePrecedence(ts, i, p) ==
  LET r == ParsePrefix(ts, i) IN IF r.ok THEN Climb(ts, r.i, r.v, p) ELSE r

ParseStatement(ts, i) ==
  LET j == SkipNewlines(ts, i)
      a == Announced(ts, j)
  IN Run(ts, j, a.r, Begun(a.k))

\* parse_type_annotation.  In a tuple a type that does not parse is passed over.
ParseType(ts, i, named) ==
  LET rule == TypeRule(ts, i, named)
      plain == Run(ts, i, rule.r, Begun(rule.k))
      first == ParseType(ts, i + 1, TRUE)
      tuple == Run(ts, first.i, <<Star(",", <<Unless(")", <<Item("softty", "", <<>>)>>)>>), Need(")")>>,
                   N("tuple", "", <<first.v>>))
      result == IF Is(ts, i, "(") /\ ~Is(ts, i + 1, ")") /\ first.ok /\ Is(ts, first.i, ",")
                THEN tuple ELSE plain
  IN IF result.ok THEN [result EXCEPT !.v = Ty(result.v.k, result.v.n, result.v.c)] ELSE result

ParseDeclaredType(ts, i) == ParseType(ts, i, NamedAhead(ts, i))

Run(ts, i, rule, node) ==
  IF rule = <<>> THEN Done(i, node)
  ELSE
    LET x == Head(rule)
        t == Peek(ts, i)
        on(j, e) == Run(ts, j, Tail(rule), e)
        into(j, r) == Run(ts, j, r \o Tail(rule), node)
        add(e) == [node EXCEPT !.c = Append(@, e)]
        child(r) == IF r.ok THEN on(r.i, add(r.v)) ELSE r
        type == ParseType(ts, i, TRUE)
        decl == ParseDeclaredType(ts, i)
    IN CASE x.op = "adv" -> on(i + 1, node)
         [] x.op = "need" -> IF Is(ts, i, x.a) THEN on(i + 1, node) ELSE Fail(i)
         [] x.op = "name" -> IF t.k = "id" THEN on(i + 1, [node EXCEPT !.n = t.n]) ELSE Fail(i)
         [] x.op = "take" -> on(i + 1, [node EXCEPT !.n = Lexeme(t)])
         [] x.op = "newlines" -> on(SkipNewlines(ts, i), node)
         [] x.op = "end" -> on(Terminator(ts, i), node)
         [] x.op = "wrong" -> Fail(i)
         [] x.op = "prec" -> child(ParsePrecedence(ts, i, x.a))
         [] x.op = "stmt" -> child(ParseStatement(ts, i))
         [] x.op = "type" -> IF type.ok THEN on(type.i, [node EXCEPT !.ty = type.v]) ELSE Fail(type.i)
         [] x.op = "decl" -> on(decl.i, IF decl.ok THEN [node EXCEPT !.ty = decl.v] ELSE node)
         [] x.op = "argty" -> child(type)
         [] x.op = "softty" -> on(type.i, IF type.ok THEN add(type.v) ELSE node)
         [] x.op = "implty" -> IF t.k = "id" THEN on(i + 1, [node EXCEPT !.ty = Ty("impl", t.n, <<>>)])
                               ELSE Fail(i)
         [] x.op = "associated" -> IF t.k = "id" THEN on(i + 1, [node EXCEPT !.n = @ \o "::" \o t.n])
                                   ELSE Fail(i)
         [] x.op = "mangle" -> on(i, [node EXCEPT !.n = Mangle(@, node.c), !.c = <<>>])
         [] x.op = "push" -> on(i, add(x.a))
         [] x.op = "short" -> on(i, add(V(node.n)))
         [] x.op = "kind" -> on(i, [node EXCEPT !.k = x.a])
         [] x.op = "setty" -> on(i, [node EXCEPT !.ty = x.a])
         [] x.op = "opt" -> IF Is(ts, i, x.a) THEN into(i + 1, x.r) ELSE on(i, node)
         [] x.op = "may" -> IF Is(ts, i, x.a) THEN into(i + 1, x.r) ELSE on(i, add(None))
         [] x.op = "star" -> IF Is(ts, i, x.a) THEN into(i + 1, Append(x.r, x)) ELSE on(i, node)
         [] x.op = "until" -> IF OneOf(ts, i, {x.a, "eof"}) THEN on(i, node) ELSE into(i, Append(x.r, x))
         [] x.op = "unless" -> IF Is(ts, i, x.a) THEN on(i, node) ELSE into(i, x.r)
         [] x.op = "in" -> child(Run(ts, i, x.r, Begun(x.a)))
         [] x.op = "pick" -> into(i, SelectSeq(x.r, LAMBDA c : c[1] = {} \/ OneOf(ts, i, c[1]))[1][2])
         [] x.op = "lead" -> on(i, [node EXCEPT !.c = <<Last(@)>> \o Front(@)])
         [] x.op = "settle" -> on(i, [node EXCEPT !.c = Settled(@, x.a)])
         [] x.op = "once" -> IF \E j \in DOMAIN node.c : node.c[j].k = x.a THEN Fail(i) ELSE on(i, node)
         [] x.op = "vartail" ->
              (CASE TupleAhead(ts, i) /\ x.a = "plain" ->
                      into(i, Destructuring("TupleDestructure", ")", <<Name>>, FALSE))
                 [] TupleAhead(ts, i) /\ x.a = "view" -> Fail(i)
                 [] OTHER -> into(i, <<DeclTy, Item("varrest", x.a, <<>>)>>))
         [] x.op = "varrest" -> into(i, VarRest(ts, i, x.a, node.ty))
         [] x.op = "where" ->
              LET p == Run(ts, i, <<Name, Need(":")>>, Begun(""))
                  of == {j \in DOMAIN node.c : node.c[j].k = "Generic" /\ node.c[j].n = p.v.n}
                  j == CHOOSE j \in of : \A h \in of : j <= h
                  b == Run(ts, p.i, Sep("+", <<Bind>>), node.c[j])
              IN CASE ~p.ok -> p
                   [] of = {} -> Fail(p.i)
                   [] ~b.ok -> b
                   [] OTHER -> on(b.i, [node EXCEPT !.c[j] = b.v])

\* Mutant: a catch is taken for the start of a statement.
StartersAndCatch == {"class", "fun", "async", "var", "static", "for", "if", "while", "return", "match",
                     "try", "throw", "unsafe", "quiet", "enum", "type", "use", "test", "catch"}

(***************************************************************************)
(* Parser::parse: statements until the end of file.  A statement that does *)
(* not parse is an error, and synchronize skips to the next line, or to a  *)
(* word that starts a statement.                                           *)
(***************************************************************************)
Starters == {"class", "fun", "async", "var", "static", "for", "if", "while", "return", "match",
             "try", "throw", "unsafe", "quiet", "enum", "type", "use", "test"}
RECURSIVE Synchronize(_, _)
Synchronize(ts, i) ==
  CASE Is(ts, i, "eof") \/ OneOf(ts, i, Starters) -> i
    [] OneOf(ts, i, {"nl", ";"}) -> i + 1
    [] OTHER -> Synchronize(ts, i + 1)

\* One turn of the loop at a state [i, out, errs].
ParseTurn(ts, s) ==
  LET r == ParseStatement(ts, s.i)
  IN CASE Is(ts, s.i, "nl") -> [s EXCEPT !.i = @ + 1]
       [] r.ok -> [s EXCEPT !.i = r.i, !.out = Append(@, r.v)]
       [] OTHER -> [s EXCEPT !.i = Synchronize(ts, r.i), !.errs = Append(@, r.i)]

Start == [i |-> 1, out |-> <<>>, errs |-> <<>>]

RECURSIVE ParseFrom(_, _)
ParseFrom(ts, s) == IF Is(ts, s.i, "eof") THEN s ELSE ParseFrom(ts, ParseTurn(ts, s))
Parse(ts) == ParseFrom(ts, Start)
=============================================================================
