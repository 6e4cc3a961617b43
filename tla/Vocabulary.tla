----------------------------- MODULE Vocabulary -----------------------------
(***************************************************************************)
(* What the programs that MCPrograms writes are made of: a prelude of      *)
(* functions, and families of statements, one per feature of the language. *)
(***************************************************************************)
EXTENDS Syntax

Param(x, ty)        == Node("Param", x, ty, <<>>)
Fn(f, ps, ret, ss)  == Node("Function", f, ret, Append(ps, Block(ss)))
Async(f, ps, r, ss) == Node("AsyncFunction", f, r, Append(ps, Block(ss)))
Maybe               == N("Bool", "", <<>>)
Cat(a, b)           == N("Binary", "+", <<a, b>>)
Made                == Cat(Lit, Lit)
Member(m, f)        == N("Member", f, <<V(m)>>)
Lib(m, f, args)     == N("Call", "", <<Member(m, f)>> \o args)
Throw1(e)           == N("Throw", "", <<e>>)
Return(e)           == N("Return", "", <<e>>)
Elem(a)             == N("IndexGet", "", <<a, Num>>)
Arr(es)             == N("ArrayLiteral", "", es)
CopyOf(e)           == N("Copy", "", <<e>>)
Field(x)            == Member(x, "f")
SetField(x, e)      == N("MemberSet", "f", <<V(x), e>>)
Res                 == Ty("result", "", <<StrT, StrT>>)
Await(f, args)      == N("Await", "", <<f>> \o args)
Sleep               == Ex(Await(V("sleep"), <<Num>>))
Send(e)             == Ex(N("ChanSend", "", <<V("c"), e>>))
Recv(x)             == Ex(Node("ChanRecv", x, StrT, <<V("c")>>))
Drain(x)            == Node("ChanRecvFor", x, StrT, <<V("c"), Block(<<Say(V(x))>>)>>)
Close               == Ex(N("Close", "", <<V("c")>>))
GoCall(f, args)     == N("Go", "", <<Call(f, args), None>>)
GoBlock(g, ps, ss)  == N("Go", g, <<None, Block(ss)>> \o ps)
AsyncBlock(b, r, ss) == Node("AsyncBlock", b, r, ss)
Captures            == <<Param("c", ChanT(StrT))>>
Instant(i)          == AsyncBlock(<<"b1", "b2", "b3", "b4">>[i], IntT, <<Return(Num)>>)

Prelude ==
  <<Fn("take", <<Param("x", StrT)>>, NoTy, <<Say(V("x"))>>),
    Fn("id", <<Param("x", StrT)>>, StrT, <<Return(V("x"))>>),
    Fn("peek", <<Param("x", ViewT(StrT))>>, NoTy, <<Say(V("x"))>>),
    Fn("risky", <<Param("x", StrT)>>, StrT,
       <<If(Maybe, Block(<<Throw1(Lit)>>), None), Return(V("x"))>>),
    Fn("keep", <<Param("x", ArrT(StrT))>>, NoTy, <<Say(Elem(V("x")))>>),
    Fn("hold", <<Param("x", SharedT(StrT))>>, NoTy, <<Say(V("x"))>>),
    Fn("try1", <<Param("x", StrT)>>, Res,
       <<If(Maybe, Block(<<Return(Call("Err", <<V("x")>>))>>), None), Return(Call("Ok", <<V("x")>>))>>),
    Node("Class", "P", NoTy,
         <<Decl("f", StrT, Lit),
           Fn("put", <<Param("x", StrT)>>, NoTy, <<Ex(N("MemberSet", "f", <<N("This", "", <<>>), V("x")>>))>>)>>)>>

AsyncPrelude ==
  <<Async("get", <<>>, StrT, <<Return(Made)>>),
    Async("slow", <<Param("x", StrT)>>, StrT, <<Sleep, Return(V("x"))>>),
    Async("twice", <<>>, StrT,
          <<Decl("a", NoTy, Await(V("get"), <<>>)), Decl("b", NoTy, Await(V("slow"), <<Made>>)), Return(V("b"))>>),
    Async("put", <<Param("c", ChanT(StrT))>>, NoTy, <<Send(Made), Send(Made)>>)>>

Families == [
  strings |->
    {Decl("s", NoTy, Lit), Decl("t", NoTy, V("s")),
     Ex(Set("s", V("t"))), Ex(Set("s", Cat(V("s"), V("t")))),
     Ex(Call("take", <<V("s")>>)), Ex(Set("s", Call("id", <<V("s")>>))), Ex(Call("id", <<V("s")>>)),
     Ex(Call("peek", <<V("s")>>)), Ex(Call("peek", <<Cat(V("s"), Lit)>>)),
     Ex(Set("s", Call("risky", <<V("s")>>))), Throw1(V("s")), Return(None)},
  arrays |->
    {Decl("s", NoTy, Lit), Decl("a", NoTy, Arr(<<Lit>>)), Decl("a", NoTy, Arr(<<V("s")>>)),
     Decl("b", NoTy, V("a")), Ex(Set("a", V("b"))),
     Ex(Lib("arrays", "push", <<V("a"), V("s")>>)), Ex(Lib("arrays", "push", <<V("a"), Lit>>)),
     Ex(Set("s", Lib("arrays", "pop", <<V("a")>>))),
     Ex(Set("a", Lib("arrays", "reverse", <<V("a")>>))), Ex(Call("keep", <<V("a")>>)),
     Ex(N("IndexSet", "", <<V("a"), Num, V("s")>>)),
     Ex(Set("s", CopyOf(Elem(V("a"))))), Node("ViewVar", "v", NoTy, <<Elem(V("a"))>>),
     Say(V("v")),
     Block(<<Ex(Lib("arrays", "length", <<V("a")>>)),
             N("ForIn", "x", <<V("a"), Block(<<Say(V("x"))>>)>>)>>)},
  cells |->
    {Decl("s", NoTy, Lit), Decl("o", OptT(StrT), V("s")), Decl("o", OptT(StrT), Lit),
     Decl("o", OptT(StrT), Nil), Ex(Set("o", Nil)), Ex(Set("o", V("s"))),
     Decl("q", OptT(StrT), V("o")), Ex(Set("o", V("q"))),
     Decl("h", SharedT(StrT), V("s")), Decl("g", SharedT(StrT), V("h")),
     Ex(Set("h", V("g"))), Ex(Set("h", V("s"))), Ex(Call("hold", <<V("h")>>)), Say(V("h"))},
  results |->
    {Decl("s", NoTy, Lit), Decl("r", Res, Call("try1", <<V("s")>>)), Ex(Call("try1", <<V("s")>>)),
     Decl("q", Res, V("r")), Ex(Set("r", Call("try1", <<Lit>>))),
     N("Match", "", <<V("r"), N("Pattern", "Ok", <<N("Bind", "x", <<>>)>>), None,
                      Block(<<Ex(Call("take", <<V("x")>>))>>),
                      N("Pattern", "Err", <<N("Bind", "x", <<>>)>>), None,
                      Block(<<Say(V("x"))>>), None>>),
     N("Match", "", <<Call("try1", <<Lit>>), N("Pattern", "Ok", <<N("Bind", "x", <<>>)>>), None,
                      Block(<<Say(V("x"))>>),
                      N("Pattern", "Err", <<>>), None, Block(<<Say(Lit)>>), None>>)},
  objects |->
    {Decl("s", NoTy, Lit), Decl("p", NoTy, Call("P", <<>>)), Decl("q", NoTy, V("p")),
     Ex(SetField("p", V("s"))), Ex(SetField("p", Lit)), Ex(Set("s", CopyOf(Field("p")))),
     Say(Field("p")), Ex(Lib("p", "put", <<CopyOf(V("s"))>>)),
     Ex(SetField("q", V("s"))), Say(Field("q")), Ex(Set("p", Call("P", <<>>))),
     Node("ViewVar", "v", NoTy, <<V("p")>>), Say(Field("v"))},
  \* moves the checker does not see
  hidden |->
    {Decl("s", NoTy, Lit), Decl("p", NoTy, Call("P", <<>>)), Say(V("s")),
     Ex(Lib("p", "put", <<V("s")>>)),
     Decl("a", NoTy, Arr(<<Lit>>)), Decl("b", NoTy, V("a")),
     N("ForIn", "x", <<V("a"), Block(<<Say(V("x"))>>)>>)},
  awaits |->
    {Decl("s", NoTy, Await(V("get"), <<>>)), Decl("t", NoTy, Await(V("slow"), <<Made>>)),
     Decl("u", NoTy, Await(V("twice"), <<>>)), Sleep, Decl("v", StrT, Await(Member("http", "get_async"), <<Lit>>)),
     Decl("w", NoTy, Await(AsyncBlock("b1", StrT, <<Sleep, Return(Made)>>), <<>>)),
     Say(V("s")), If(Maybe, Block(<<Say(V("t"))>>), None)},
  channels |->
    {Decl("s", StrT, Made), GoCall("put", <<V("c")>>), GoBlock("__ntsc_go_1", Captures, <<Drain("y")>>),
     GoBlock("__ntsc_go_2", Captures, <<Recv("z"), Say(V("z"))>>),
     Send(V("s")), Send(Made), Recv("x"), Drain("x"), Close},
  \* branches that do not suspend, in a main that does not suspend afterwards
  waits |->
    {Decl("m", IntT, Call("wait_any", <<Instant(1), Instant(2)>>)), Decl("n", IntT, Call("wait_all", <<Instant(3), Instant(4)>>)),
     Decl("s", StrT, Made), Say(V("s"))},
  races |-> {Decl("m", IntT, Call("wait_any", <<Instant(1), Instant(2)>>)), Sleep}]

AsyncFamilies == {"awaits", "channels", "waits", "races"}

\* What a program of a family begins with.
Opening == [f \in DOMAIN Families |->
  IF f = "channels" THEN <<Decl("c", ChanT(StrT), Lib("chan", "new", <<Num>>))>> ELSE <<>>]

\* Constructs whose compiled code is known not to keep the rules.  Faulty:
\*   "catch"  a catch block that names what its try block names
\* Leaky:
\*   "exit"   a return out of a loop
\*   "again"  a declaration in a loop of a result, or of a shared handle
\*            from another one, or of an instance whose name is declared at
\*            the top too: the slot's last value is not released
\*   "alias"  a second name for an instance, or another instance under its
\*            name: the first is not dropped
Faulty == {"catch"}
Leaky  == {"exit", "again", "alias"}
RECURSIVE Nodes(_)
Nodes(s) == {s} \cup UNION {Nodes(s.c[i]) : i \in DOMAIN s.c}
Tags(s) ==
  LET all   == Nodes(s)
      loops == UNION {Nodes(n) : n \in {n \in all : n.k \in {"While", "ForIn"}}}
      again(n) == /\ n.k = "Var"
                  /\ \/ n.ty.k = "result"
                     \/ n.ty.k = "shared" /\ IsVar(n.c[1])
                     \/ n.n = "p" /\ n \in Range(Last(s.c).c)
      alias(n) == \/ n.k = "Assign" /\ n.n = "p"
                  \/ /\ n.k \in {"Var", "ViewVar"} /\ n.ty = NoTy
                     /\ IsVar(n.c[1]) /\ n.c[1].n = "p"
  IN {t \in Faulty \cup Leaky :
        CASE t = "catch" -> \E n \in all : n.k = "Try" /\ Uses(n.c[1]) \cap Uses(n.c[2]) # {}
          [] t = "exit"  -> \E n \in loops : n.k = "Return"
          [] t = "again" -> \E n \in loops : again(n)
          [] t = "alias" -> \E n \in all : alias(n)}
=============================================================================
