------------------------------- MODULE Loader -------------------------------
(***************************************************************************)
(* load_program of crates/ntsc-build/src/modules.rs: the files an entry    *)
(* imports are discovered depth first by scanning their tokens, parsed by  *)
(* one thread each, joined in the order of discovery and merged into one   *)
(* program.  Reading a file is abstracted to its tokens, `text'; a path    *)
(* that names no file of the project, or one outside its root, is a member *)
(* of Missing or of Outside.                                               *)
(***************************************************************************)
EXTENDS Parser, Aliases

CONSTANTS Projects,  \* the projects loaded: [text: file -> tokens, about: what was written]
          Entry,     \* the file loading starts from
          Missing, Outside

VARIABLES project, \* the project being loaded
          phase,   \* "start", "discover", "parse", "merge", "done" or "failed"
          stack,   \* the visits under way, outermost first: [file, todo]
          seen, files, edges, aliases,  \* the ModuleGraph under construction
          threads, \* per discovered file, the state of Parser::parse on it
          joined,  \* how many parser threads have been joined
          program, origins, \* the merged statements, the file of each
          failure  \* [why, file], once loading has failed
vars == <<project, phase, stack, seen, files, edges, aliases, threads, joined, program, origins,
          failure>>

Text(f) == project.text[f]
NoFailure == [why |-> "", file |-> ""]
Threads(fs) == [f \in ToSet(fs) |-> Start]

Init ==
  /\ project \in Projects
  /\ phase = "start" /\ stack = <<>> /\ seen = {} /\ files = <<>> /\ edges = <<>>
  /\ aliases = <<>> /\ threads = <<>> /\ joined = 0
  /\ program = <<>> /\ origins = <<>> /\ failure = NoFailure

(***************************************************************************)
(* file_imports: after each `use', the string and the alias before the end *)
(* of the line or a semicolon.  Of several the last one counts.            *)
(***************************************************************************)
RECURSIVE ScanUse(_, _, _), Imports(_, _)
ScanUse(ts, i, u) ==
  CASE i > Len(ts) \/ OneOf(ts, i, {";", "nl"}) -> [u EXCEPT !.i = i + 1]
    [] Is(ts, i, "str") -> ScanUse(ts, i + 1, [u EXCEPT !.file = ts[i].n])
    [] Is(ts, i, "as") -> ScanUse(ts, i + 2, [u EXCEPT !.alias = Peek(ts, i + 1).n])
    [] OTHER -> ScanUse(ts, i + 1, u)
Imports(ts, i) ==
  CASE i > Len(ts) -> <<>>
    [] Peek(ts, i).k = "use" ->
         LET u == ScanUse(ts, i + 1, [i |-> i, file |-> "", alias |-> ""])
         IN (IF u.file = "" THEN <<>> ELSE <<[file |-> u.file, alias |-> u.alias]>>) \o Imports(ts, u.i)
    [] OTHER -> Imports(ts, i + 1)
\* Mutant: imports under an alias are missed.
FileImportsBare(f) == SelectSeq(Imports(Text(f), 1), LAMBDA im : im.alias = "")

FileImports(f) == Imports(Text(f), 1)

\* resolve_import, for every import of f in turn: the first that does not
\* resolve fails the load.
Unresolved(f) == SelectSeq(FileImports(f), LAMBDA im : im.file \in Missing \cup Outside)

Fails(why, f) == phase' = "failed" /\ failure' = [why |-> why, file |-> f] /\ UNCHANGED stack

\* The head of visit: f is read, scanned and put on the stack of visits.
Enter(f, below) ==
  LET bad == Unresolved(f)
  IN /\ seen' = seen \cup {f}
     /\ IF bad = <<>>
        THEN /\ stack' = Append(below, [file |-> f, todo |-> FileImports(f)])
             /\ phase' = "discover"
             /\ UNCHANGED failure
        ELSE Fails(IF Head(bad).file \in Missing THEN "io" ELSE "escapes", Head(bad).file)

Discover ==
  /\ phase = "start"
  /\ Enter(Entry, <<>>)
  /\ UNCHANGED <<project, files, edges, aliases, threads, joined, program, origins>>

\* Mutant: any file seen before closes a cycle.
OnStackSeen(f) == f \in seen

OnStack(f) == \E i \in DOMAIN stack : stack[i].file = f

\* The body of visit's loop: the edge and the alias are recorded, a file on
\* the stack closes a cycle, one already seen is skipped.
VisitImport ==
  /\ phase = "discover" /\ Last(stack).todo # <<>>
  /\ LET top  == Last(stack)
         im   == Head(top.todo)
         rest == [stack EXCEPT ![Len(stack)].todo = Tail(@)]
     IN /\ edges' = Append(edges, <<top.file, im.file>>)
        /\ aliases' = IF im.alias = "" THEN aliases ELSE (im.file :> im.alias) @@ aliases
        /\ CASE OnStack(im.file) -> Fails("cycle", top.file) /\ UNCHANGED seen
             [] im.file \in seen /\ ~OnStack(im.file) ->
                  stack' = rest /\ UNCHANGED <<phase, seen, failure>>
             [] OTHER -> Enter(im.file, rest)
  /\ UNCHANGED <<project, files, threads, joined, program, origins>>

\* The end of visit; after the entry's, one parser thread per file starts.
FinishFile ==
  /\ phase = "discover" /\ Last(stack).todo = <<>>
  /\ files' = Append(files, Last(stack).file)
  /\ stack' = Front(stack)
  /\ phase' = IF Len(stack) = 1 THEN "parse" ELSE phase
  /\ threads' = IF Len(stack) = 1 THEN Threads(files') ELSE threads
  /\ UNCHANGED <<project, seen, edges, aliases, joined, program, origins, failure>>

\* One turn of the loop of Parser::parse, on the thread of file f.
ParseFile(f) ==
  /\ phase = "parse"
  /\ ~Is(Text(f), threads[f].i, "eof")
  /\ threads' = [threads EXCEPT ![f] = ParseTurn(Text(f), @)]
  /\ UNCHANGED <<project, phase, stack, seen, files, edges, aliases, joined, program, origins, failure>>

\* handle.join(), in the order of the files: collect() stops at the first
\* error, whatever the threads after it found.
JoinNext ==
  /\ phase = "parse" /\ joined < Len(files)
  /\ LET f == files[joined + 1]
     IN /\ Is(Text(f), threads[f].i, "eof")
        /\ IF threads[f].errs = <<>>
           THEN /\ joined' = joined + 1
                /\ phase' = IF joined' = Len(files) THEN "merge" ELSE phase
                /\ UNCHANGED failure
           ELSE /\ phase' = "failed" /\ failure' = [why |-> "parse", file |-> f]
                /\ UNCHANGED joined
  /\ UNCHANGED <<project, stack, seen, files, edges, aliases, threads, program, origins>>

\* A file's own statements, under the alias it was imported with.
Contribution(f) ==
  LET ss == threads[f].out
  IN IF f \in DOMAIN aliases THEN Namespaced(ss, aliases[f], TopLevelNames(ss)) ELSE ss

\* An import of a file without an alias is dropped.
Kept(s) == s.k = "Use" /\ s.ty.k = "file" => \E i \in DOMAIN s.c : s.c[i].k = "Bind"

Merge ==
  /\ phase = "merge"
  /\ LET of(f) == SelectSeq(Contribution(f), Kept)
     IN /\ program' = FlattenSeq([i \in DOMAIN files |-> of(files[i])])
        /\ origins' = FlattenSeq([i \in DOMAIN files |-> [j \in DOMAIN of(files[i]) |-> files[i]]])
  /\ phase' = "done"
  /\ UNCHANGED <<project, stack, seen, files, edges, aliases, threads, joined, failure>>

\* load_program has returned.
Returned == phase \in {"done", "failed"} /\ UNCHANGED vars

Next ==
  \/ Discover \/ VisitImport \/ FinishFile
  \/ \E f \in DOMAIN threads : ParseFile(f)
  \/ JoinNext \/ Merge \/ Returned

Spec == Init /\ [][Next]_vars
=============================================================================
