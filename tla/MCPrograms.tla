---------------------------- MODULE MCPrograms ----------------------------
(***************************************************************************)
(* Programs written statement by statement, compiled and run.  The body of *)
(* `main' grows by statements of a vocabulary and, if it is not async, by  *)
(* branches, loops and try blocks around the last ones; what the ownership *)
(* checker accepts is compiled by the emitter and executed by Machine, an  *)
(* async one by Executor with every order of the goroutines' turns.        *)
(***************************************************************************)
EXTENDS Executor, Vocabulary

CONSTANTS MaxStmts,  \* a bound on the statements of a body and the blocks around them
          MaxWraps,  \* a bound on these blocks
          MaxAsync,  \* a bound on the statements of an async body after its opening
          MaxGo,     \* a bound on its go statements
          Capacity,  \* a bound on the capacity of the channels
          Chosen,    \* the vocabularies to write with
          Allow      \* constructs allowed although their code is known to go wrong

VARIABLES family,  \* the vocabulary in use
          stmts,   \* the statements of main
          wraps,   \* blocks put around statements so far
          tags     \* what the compiled program has of the leaky constructs

vars == <<family, stmts, wraps, tags, code, stack, heap, fuel>>

Checker == INSTANCE Ownership

IsAsync == family \in AsyncFamilies

\* The names in scope after ss, which may use those of `names'; "?" is among
\* them if ss uses another one or declares one twice.
Global == {Prelude[i].n : i \in DOMAIN Prelude} \cup {AsyncPrelude[i].n : i \in DOMAIN AsyncPrelude}
          \cup {"arrays", "Ok", "Err", "sleep", "http", "chan", "wait_any", "wait_all"}
RECURSIVE Scope(_, _)
Scope(ss, names) ==
  LET bound(s)    == IF s.k \in {"Try", "ForIn", "ChanRecvFor"} THEN {s.n} ELSE {}
      declared(s) == IF s.k \in {"Var", "ViewVar", "ViewMutVar"} THEN {s.n}
                     ELSE IF ChanOp(s) = "recv" THEN {s.c[1].n} ELSE {}
      assigned(s) == IF s.k = "Assign" THEN {s.n} ELSE {}
      uses(s)     == UNION {IF e.k = "Block" THEN {} ELSE Uses(e) : e \in Range(s.c)} \ declared(s)
      fits(s, ns) == /\ uses(s) \cup assigned(s) \subseteq ns \cup Global
                     /\ declared(s) \cap ns = {}
                     /\ \A e \in Range(s.c) : e.k = "Block" => "?" \notin Scope(e.c, ns \cup bound(s))
  IN Fold(LAMBDA ns, s : IF fits(s, ns) THEN ns \cup declared(s) ELSE ns \cup {"?"}, names, ss)

MainOf(async, ss) == IF async THEN Async("main", <<>>, NoTy, ss) ELSE Fn("main", <<>>, NoTy, ss)
Main(ss)          == MainOf(IsAsync, ss)
PreludeOf(async)  == IF async THEN AsyncPrelude ELSE Prelude

\* The functions of a program are checked one after another, main last: the
\* checker before it is the same for every main.
BeforeMain ==
  [async \in BOOLEAN |->
     LET p == PreludeOf(async)
     IN Checker!CheckSequence(Checker!PushScope(Checker!NewChecker(Append(p, MainOf(async, <<>>)))), p)]
Accepted(ss) ==
  /\ Tags(Main(ss)) \cap Faulty \subseteq Allow
  /\ "?" \notin Scope(ss, {})
  /\ Checker!CheckSequence(BeforeMain[IsAsync], <<Main(ss)>>).errs = {}

\* The code of a function: what the emitter knew of it is forgotten.
Bare(c)  == [code |-> c.code, regs |-> c.regs, slots |-> c.slots, bad |-> IllFormed(c)]
Link(fs) == [f \in DOMAIN fs |-> Bare(fs[f])]

\* The preludes as modules, the async one under TRUE: their code does not
\* depend on that of main, which is emitted into them.
Std == [f \in {"arrays.push", "arrays.pop", "arrays.reverse", "arrays.length", "chan.new"} |-> AnyT]
Preloaded ==
  [async \in BOOLEAN |->
     LET p == PreludeOf(async)
     IN EmitWith(NewModule(Declare(Append(p, MainOf(async, <<>>)), Std).env), p)]
Library   == [async \in BOOLEAN |-> Link(Preloaded[async].code @@ Runtime)]

Writing == code = <<>>
Grow(ss, w) ==
  /\ Writing /\ Accepted(ss)
  /\ stmts' = ss /\ wraps' = w
  /\ UNCHANGED <<family, tags, code, stack, heap, fuel>>

Write == \E s \in Families[family] :
  /\ IF IsAsync THEN /\ Len(stmts) < Len(Opening[family]) + MaxAsync
                     /\ Len(GoStmts(Block(Append(stmts, s)))) <= MaxGo
     ELSE Len(stmts) + wraps < MaxStmts
  /\ Grow(Append(stmts, s), wraps)

Wrapped(ss) ==
  LET n == Len(ss) IN
  IF n = 1 THEN {If(Maybe, Block(ss), None), N("While", "", <<Maybe, Block(ss)>>), Block(ss)}
  ELSE {If(Maybe, Block(ss), None), If(Maybe, Block(<<ss[1]>>), Block(<<ss[2]>>)),
        N("While", "", <<Maybe, Block(ss)>>), Block(ss),
        N("Try", "e", <<Block(<<ss[1]>>), Block(<<ss[2]>>), None>>)}

Wrap ==
  /\ ~IsAsync /\ wraps < MaxWraps
  /\ \E k \in 1..2 : k <= Len(stmts) /\
       LET rest == SubSeq(stmts, 1, Len(stmts) - k) IN
       \E w \in Wrapped(SubSeq(stmts, Len(stmts) - k + 1, Len(stmts))) :
         Grow(Append(rest, w), wraps + 1)

Start(main) == <<[fn |-> "main", blk |-> 1, pc |-> 1, dst |-> 0, objs |-> {},
                  regs |-> [r \in 0..main.regs |-> 0], slots |-> [s \in DOMAIN main.slots |-> 0]]>>
LoadSync(m) ==
  /\ ~IsAsync
  /\ stack' = Start(m.code["main"]) /\ heap' = NewHeap(m.env.cls)
LoadAsync(m) ==
  /\ IsAsync
  /\ stack' = Start(CMain)
  /\ \E n \in 0..Capacity : heap' = [NewHeap(<<>>) EXCEPT !.rt.cap = n]

Compile ==
  /\ Writing /\ stmts # <<>>
  /\ \E m \in {EmitWith(NewModule(Preloaded[IsAsync].env), <<Main(stmts)>>)} :
       code' = Link(m.code) /\ (LoadSync(m) \/ LoadAsync(m))
  /\ fuel' = Fuel /\ stmts' = <<>> /\ wraps' = 0 /\ tags' = Tags(Main(stmts)) \cap Leaky
  /\ UNCHANGED family

Execute ==
  /\ ~Writing /\ stack # <<>>
  /\ \E lib \in {Library[IsAsync]} : \E b \in {Current(lib)} :
       \/ Step(lib, b) /\ fuel' = IF IsAsync THEN fuel ELSE fuel - 1
       \/ IsAsync /\ Turn(lib, b) /\ fuel' = fuel
  /\ UNCHANGED <<family, stmts, wraps, tags>>

Init ==
  /\ family \in Chosen /\ stmts = Opening[family] /\ wraps = 0 /\ tags = {}
  /\ code = <<>> /\ stack = <<>> /\ heap = NewHeap(<<>>) /\ fuel = 0

Next == Write \/ Wrap \/ Compile \/ Execute
Spec == Init /\ [][Next]_vars

\* What the ownership checker accepts and the emitter compiles never reads a
\* value that was moved, sent or freed, frees none twice, uses no future after
\* its storage is gone and takes no result before the poll that makes it has
\* returned 1, whichever way branches and loops go, calls return or throw, and
\* goroutines take their turns (ownership.rs, emit/).
NoFault == heap.faults = {}

\* The operands of goroutines that never ended.
Undelivered(h) ==
  UNION {{h.rt.gs[g].send, h.rt.gs[g].got} : g \in DOMAIN h.rt.gs}

\* A program that is over has released everything it made, in all but the
\* constructs of Leaky: each value is dropped by the scope, assignment, call,
\* container, future or channel that owned it last (emit_drop_all_owned,
\* end_block_scope, emit_cleanup).  An exception that leaves the program has
\* unwound it, and only its message is left (emit_exception_return); after
\* shutdown only the value an abandoned goroutine was sending or given is.
NoLeak == (~Writing /\ stack = <<>> /\ tags \subseteq Allow)
            => Leaked(heap) \subseteq {heap.pend} \cup Undelivered(heap)

\* A goroutine is done when its own future is, whatever sub-futures,
\* operations and channel waits came and went on its task stack
\* (poll_async_tasks_once, drive).
RootDone == \A g \in DOMAIN heap.rt.gs :
              heap.rt.gs[g].st = "done" => heap.rt.gs[g].fut \in heap.rt.ended

\* The code of an accepted program passes module.verify(): every block has one
\* terminator and nothing after it, no construct is left uncompiled, and a
\* local that lives across a suspension has a field in the future.
WellFormed == \A f \in DOMAIN code : code[f].bad = {}
=============================================================================
