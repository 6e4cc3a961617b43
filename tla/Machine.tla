------------------------------ MODULE Machine ------------------------------
(***************************************************************************)
(* Execution of an emitted module.  A step runs the straight-line code of  *)
(* the current block up to its next call or to its terminator; conditions  *)
(* on scalars go either way.  A run that would not end stops without fuel. *)
(***************************************************************************)
EXTENDS Tasks

CONSTANT Fuel  \* a bound on the steps of one execution

ASSUME FuelAssumption == Fuel \in Nat

VARIABLES code,   \* the functions of the program: name -> code
          stack,  \* the activation records, innermost last
          heap,   \* a heap of Heap.tla
          fuel    \* steps left

\* `lib' are the functions emitted beforehand, which do not change.
CodeOf(lib, f) == IF f \in DOMAIN code THEN code[f] ELSE lib[f]

NewFut(h, ty) == [New(h, "fut", ty.n, [k \in DOMAIN ty.of |-> 0]) EXCEPT !.cells[Fresh1(h) + 1].rc = 0]

\* Slots start out null; the arguments arrive in the first of them.
Frame(lib, f, args, dst) ==
  LET c == CodeOf(lib, f) IN
  [fn |-> f, blk |-> 1, pc |-> 1, dst |-> dst, objs |-> {}, regs |-> [r \in 0..c.regs |-> 0],
   slots |-> [s \in DOMAIN c.slots |-> IF s \in DOMAIN args THEN args[s] ELSE 0]]

\* One instruction on p = [fr, h]: the registers and slots of the frame, the
\* heap.
Instr(p, i) ==
  LET h    == p.h
      fr   == p.fr
      a    == [n \in DOMAIN i.a |-> fr.regs[i.a[n]]]
      slot == fr.slots[i.a[1]]
      at(g, v)   == [h |-> g, fr |-> [fr EXCEPT !.regs[i.d] = v]]
      made(g)    == at(g, Fresh1(g))
      \* storage in the frame itself
      stacked(g) == [h |-> g, fr |-> [fr EXCEPT !.regs[i.d] = Fresh1(g), !.slots[i.a[1]] = Fresh1(g),
                                                !.objs = @ \cup {i.a[1]}]]
      only(g)    == [p EXCEPT !.h = g]
      put(s, v)  == [p EXCEPT !.fr.slots[s] = v]
      read(n)    == Touch(h, a[n])
      all        == Fold(Touch, h, a)
      idx        == IF Len(i.a) = 1 THEN 1 ELSE fr.slots[i.a[2]] + 1
      fld        == IF a[1] > 0 THEN CHOOSE n \in DOMAIN h.cls[h.cells[a[1]].n].fields :
                                       h.cls[h.cells[a[1]].n].fields[n].n = i.n ELSE 0
      kid(v, n)  == h.cells[v].kids[n]
  IN CASE i.op = "load"     -> at(h, slot)
       [] i.op = "store"    -> put(i.a[1], fr.regs[i.a[2]])
       [] i.op = "moved"    -> put(i.a[1], Gone)
       [] i.op = "inc"      -> put(i.a[1], slot + 1)
       [] i.op = "dropslot" -> only(DropVal(h, slot, i.ty))
       [] i.op = "dropold"  -> IF slot = fr.regs[i.a[2]] THEN p ELSE only(DropVal(h, slot, i.ty))
       [] i.op = "drop"     -> only(DropVal(h, a[1], i.ty))
       [] i.op = "free"     -> only(Free(h, a[1]))
       [] i.op = "use"      -> only(all)
       [] i.op = "retain"   -> IF a[1] <= 0 THEN only(read(1))
                               ELSE only([read(1) EXCEPT !.cells[a[1]].rc = @ + 1])
       [] i.op = "lit"      -> at(h, 1)
       [] i.op = "str"      -> made(New(all, "str", "", <<>>))
       [] i.op = "chan"     -> made(New(h, "chan", IF OwnedHandle(Inner(i.ty)) THEN "owns" ELSE "", <<>>))
       [] i.op = "clone"    -> made(Clone(h, a[1], i.ty))
       [] i.op = "copy"     -> LET q == Copy(h, a[1], i.ty) IN at(q[1], q[2])
       [] i.op = "tuple"    -> made(New(h, "tuple", "", a))
       [] i.op = "part"     -> at(h, IF fr.regs[i.a[1]] > 0 THEN kid(fr.regs[i.a[1]], i.a[2]) ELSE 0)
       [] i.op = "cell"     -> made(New(h, i.ty.k, "", <<a[1]>>))
       [] i.op = "tag"      -> only([h EXCEPT !.cells[a[1]].n = i.n])
       [] i.op = "inner"    -> at(read(1), IF a[1] > 0 THEN kid(a[1], 1) ELSE 0)
       [] i.op = "arr"      -> at(Fold(LAMBDA g, x : Push(g, Fresh1(h) + 1, x),
                                       New(h, "arr", Flag(i.ty), <<>>), a), Fresh1(h) + 1)
       [] i.op = "push"     -> only(Push(h, a[1], a[2]))
       [] i.op = "set"      -> only(SetFirst(h, a[1], a[2]))
       [] i.op = "setflag"  -> IF a[1] <= 0 THEN p ELSE only([h EXCEPT !.cells[a[1]].n = Flag(i.ty)])
       [] i.op = "len"      -> at(read(1), IF Live(h, a[1], "arr") THEN Len(h.cells[a[1]].kids) ELSE 0)
       [] i.op = "elem"     -> IF Live(h, a[1], "arr") /\ idx \in DOMAIN h.cells[a[1]].kids
                               THEN at(h, kid(a[1], idx)) ELSE at(Throw(read(1), 0), 0)
       [] i.op = "pop"      -> IF Live(h, a[1], "arr") /\ h.cells[a[1]].kids # <<>>
                               THEN at([h EXCEPT !.cells[a[1]].kids = Front(@)],
                                       Last(h.cells[a[1]].kids))
                               ELSE at(read(1), 0)
       [] i.op = "derive"   -> IF a[1] <= 0 THEN at(read(1), 0)
                               ELSE LET q == Derived(h, a[1], i.n) IN at(q[1], q[2])
       [] i.op = "fixup"    -> only(Fixup(h, a[1], i.ty))
       [] i.op = "new"      -> made(New(h, "class", i.ty.n, [n \in DOMAIN h.cls[i.ty.n].fields |-> 0]))
       [] i.op = "newstack" ->
            stacked(New(IF slot > 0 THEN Kill(h, slot) ELSE h, "class", i.ty.n,
                        [n \in DOMAIN h.cls[i.ty.n].fields |-> 0]))
       [] i.op = "field"    -> at(read(1), IF a[1] > 0 THEN kid(a[1], fld) ELSE 0)
       [] i.op = "setfield" -> IF a[1] <= 0 THEN p ELSE only([read(1) EXCEPT !.cells[a[1]].kids[fld] = a[2]])
       [] i.op = "dropfield" -> IF a[1] <= 0 THEN p ELSE only(DropVal(read(1), kid(a[1], fld), i.ty))
       [] i.op = "dropfieldold" ->
            IF a[1] <= 0 \/ kid(a[1], fld) = a[2] THEN p
            ELSE only(DropVal(read(1), kid(a[1], fld), i.ty))
       [] i.op = "newfut"   -> IF i.a = <<>> THEN made(NewFut(h, i.ty))
                               ELSE stacked(NewFut(IF slot > 0 THEN KillFuture(h, slot) ELSE h, i.ty))
       [] i.op = "loadfut"  -> [h |-> Touch(h, fr.slots[1]), fr |-> [fr EXCEPT !.slots =
                                 [s \in DOMAIN @ |-> IF s > 1 /\ fr.slots[1] > 0
                                                        /\ s - 1 \in DOMAIN h.cells[fr.slots[1]].kids
                                                     THEN kid(fr.slots[1], s - 1) ELSE @[s]]]]
       [] i.op = "savefut"  -> IF fr.slots[1] <= 0 THEN p
                               ELSE only([h EXCEPT !.cells[fr.slots[1]].kids =
                                            [n \in DOMAIN @ |-> fr.slots[n + 1]]])
       [] i.op = "state"    -> only([h EXCEPT !.cells[fr.slots[1]].rc = i.a[1]])
       [] i.op = "one"      -> at([h EXCEPT !.rt.ended = @ \cup {fr.slots[1]}], 1)
       [] i.op = "setfut"   -> only([h EXCEPT !.cells[fr.regs[i.a[1]]].kids[i.a[2]] = fr.regs[i.a[3]]])
       [] i.op = "futres"   -> LET v == fr.regs[i.a[1]] IN
                               IF v \in h.rt.ended THEN at(Touch(h, v), kid(v, i.a[2])) ELSE at(Fault(h, "early"), 0)
       [] i.op = "newop"    -> made(New(all, "op", i.n, <<0>>))
       [] i.op = "opres"    -> at([read(1) EXCEPT !.cells[a[1]].kids = <<0>>], kid(a[1], 1))
       [] i.op = "dropop"   -> only(RemoveId(h, a[1]))
       [] i.op = "pushtask" -> only(PushTask(h, a[1], i.n))
       [] i.op = "spawn"    -> only(Spawn(h, a[1], i.n))
       [] i.op = "park"     -> only(Park(h, a[1], a[Len(a)], i.n))
       [] i.op = "recvres"  -> at([h EXCEPT !.rt.gs[h.rt.cur].got = 0], h.rt.gs[h.rt.cur].got)
       [] i.op = "close"    -> only(ChanClose(h, a[1]))
       [] i.op = "branches" -> only(Branches(h, slot, fr.slots[i.a[2]]))
       [] i.op = "restore"  -> only(RestoreContext(h))
       [] i.op = "poptask"  -> only(PopTask(h, i.a[1] = 1))
       [] i.op = "complete" -> only(CompleteOp(h, slot))
       [] i.op = "rearm"    -> only([h EXCEPT !.pend = h.rt.gs[h.rt.root].exc, !.rt.gs[h.rt.root].exc = 0])
       [] i.op = "throw"    -> only(Throw(h, a[1]))
       [] i.op = "getmsg"   -> at(h, h.pend)
       [] i.op = "take"     -> at([h EXCEPT !.pend = 0], h.pend)
       [] i.op = "clear"    -> only([(IF h.pend = 0 THEN h ELSE TakeOut(h, h.pend, "str")) EXCEPT !.pend = 0])

\* The block b of the innermost frame, and the code ahead in it: up to the next
\* call, or to the end of the block.
Calls        == {"call", "dyncall", "callpoll"}
Top          == Last(stack)
Current(lib) == CodeOf(lib, Top.fn).code[Top.blk]
Stop(b)      == CHOOSE j \in Top.pc..(Len(b.ins) + 1) :
                  /\ j = Len(b.ins) + 1 \/ b.ins[j].op \in Calls
                  /\ \A m \in Top.pc..(j - 1) : b.ins[m].op \notin Calls
AtEnd(b)     == Stop(b) > Len(b.ins)
Ran(b)       == Fold(Instr, [fr |-> Top, h |-> heap], SubSeq(b.ins, Top.pc, Stop(b) - 1))

Running == stack # <<>> /\ fuel > 0 /\ heap.faults = {}

\* The function a call instruction names: a vtable slot holds the method of
\* the instance's class, a task its poll.
Enter(lib, h, i, args) ==
  LET obj  == h.cells[args[1]].kids[1]
      task == Last(TasksOf(h, i.a[1] = 1))
  IN CASE i.op = "call"     -> Frame(lib, i.n, args, i.d)
       [] i.op = "callpoll" -> Frame(lib, task.f, <<task.v>>, i.d)
       [] i.op = "dyncall"  -> Frame(lib, h.cells[obj].n \o "." \o i.n, [args EXCEPT ![1] = obj], i.d)

CallFunction(lib, b, p) ==
  LET i == b.ins[Stop(b)] IN
  /\ ~AtEnd(b)
  /\ stack' = Front(stack) \o <<[p.fr EXCEPT !.pc = Stop(b) + 1],
                                Enter(lib, p.h, i, [n \in DOMAIN i.a |-> p.fr.regs[i.a[n]]])>>
  /\ heap' = p.h

\* Where a terminator may go.
Targets(t, p) ==
  LET pick(b) == {t.to[IF b THEN 1 ELSE 2]}
      r(n) == p.fr.regs[t.a[n]]
  IN CASE t.k = "br"    -> {t.to[1]}
       [] t.k = "any"   -> Range(t.to)
       [] t.k = "exc"   -> pick(p.h.pend # 0)
       [] t.k = "tag"   -> pick(r(1) > 0 /\ p.h.cells[r(1)].n = "Ok")
       [] t.k = "null"  -> pick(r(1) <= 0)
       [] t.k = "each"  -> pick(p.fr.slots[t.a[2]] < r(1))
       [] t.k = "first" -> pick(p.fr.slots[t.a[1]] = 0)
       [] t.k = "one"   -> pick(r(1) = 1)
       [] t.k = "switch" -> {t.to[p.h.cells[p.fr.slots[1]].rc + 1]}
       [] t.k = "got"   -> pick(p.h.rt.gs[p.h.rt.cur].ok)
       [] t.k = "notask" -> pick(TasksOf(p.h, t.a[1] = 1) = <<>>)
       \* ntask_join, the end of the program, and of shutdown
       [] t.k = "join"  -> {b \in Range(t.to) : p.h.rt.cur = 0 /\ p.h.rt.gs[p.h.rt.root].st = "done"}
       [] t.k = "exit"  -> {b \in Range(t.to) : p.h.rt.cur = 0}
       [] t.k = "reap"  -> {b \in Range(t.to) : \A g \in DOMAIN p.h.rt.gs : p.h.rt.gs[g].st = "gone"}

Jump(b, p) ==
  /\ AtEnd(b) /\ b.term.k # "ret"
  /\ \E to \in Targets(b.term, p) : stack' = Front(stack) \o <<[p.fr EXCEPT !.blk = to, !.pc = 1]>>
  /\ heap' = IF b.term.k = "tag" THEN Touch(p.h, p.fr.regs[b.term.a[1]]) ELSE p.h

\* ret: the frame's stack-allocated instances and futures are gone.
ReturnFrom(b, p) ==
  LET v    == p.fr.regs[b.term.a[1]]
      rest == Front(stack)
      back == [Last(rest) EXCEPT !.regs[Top.dst] = IF Top.dst = 0 THEN 0 ELSE v]
  IN /\ AtEnd(b) /\ b.term.k = "ret"
     /\ stack' = IF rest = <<>> THEN <<>> ELSE Front(rest) \o <<back>>
     /\ heap' = Fold(KillFuture, p.h, Listed({p.fr.slots[s] : s \in p.fr.objs}))

Step(lib, b) == /\ Running
                /\ \E p \in {Ran(b)} : CallFunction(lib, b, p) \/ Jump(b, p) \/ ReturnFrom(b, p)
                /\ UNCHANGED code
=============================================================================
