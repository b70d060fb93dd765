------------------------------- MODULE GoCode ------------------------------
(***************************************************************************)
(* What the Go code does that gengo/gen.go writes for basic blocks.        *)
(*                                                                         *)
(* Memory is a sequence of cells; an address is a position in it, 0 is     *)
(* nil.  A value of a simple type has one cell, a function a pair of the   *)
(* number of its code and the address of what it captured, an or-type its  *)
(* tag and its cases, a block's captures their addresses and the token of  *)
(* the home function.  An allocation that may be on the stack is gone when *)
(* its function returns, which is what Alloc.Stack promises; the Go code   *)
(* itself leaves that to the Go compiler.                                  *)
(***************************************************************************)
EXTENDS Basic

RECURSIVE Size(_)
SizeOfAll(ts) == SeqX!FoldLeft(LAMBDA n, t : n + Size(t), 0, ts)
Size(t) ==
  CASE t.k \in {"Int", "Bool", "Ref"} -> 1
    [] t.k = "Nil" -> 0
    [] t.k = "Fun" -> 2
    [] t.k = "And" -> SizeOfAll(t.parts)
    [] t.k \in {"Or", "Block"} -> 1 + SizeOfAll(t.parts)
\* Where part i of a t starts.
Offset(t, i) == (IF t.k = "Or" THEN 1 ELSE 0) + SizeOfAll(SubSeq(t.parts, 1, i - 1))

Zeros(n) == [i \in 1..n |-> 0]

(***************************************************************************)
(* A machine: memory, the cells that are gone, what was written by out:,   *)
(* the last token, and how the run goes on: "go", "far" (a far return to   *)
(* token to), "panic", "crash" or "hang".                                  *)
(***************************************************************************)
Machine ==
  [mem |-> <<>>, dead |-> {}, log |-> <<>>, tok |-> 0, out |-> "go", to |-> 0]

Good(s, a, n)  == a > 0 /\ a + n - 1 <= Len(s.mem) /\ (a..(a + n - 1)) \cap s.dead = {}
Cells(s, a, n) == SubSeq(s.mem, a, a + n - 1)
Crash(s)       == [s EXCEPT !.out = "crash"]
Write(s, a, cells) ==
  IF ~Good(s, a, Len(cells)) THEN Crash(s)
  ELSE [s EXCEPT !.mem = SubSeq(@, 1, a - 1) \o cells \o SubSeq(@, a + Len(cells), Len(@))]
New(s, n) == [s EXCEPT !.mem = @ \o Zeros(n)]

(***************************************************************************)
(* A frame r: the function, its arguments, its token, its values, the      *)
(* cells it has on the stack, the statement at which it is, the frame that *)
(* called it, and the machine.                                             *)
(***************************************************************************)
Known(r, vs) == \A v \in vs : v \in DOMAIN r.regs
Set(r, stmt, x) == [r EXCEPT !.regs = (stmt.id :> x) @@ @]
\* A part of a value that is made: of a type that is not simple it is copied.
PartCells(r, t, v) ==
  IF v = 0 THEN Zeros(Size(t)) ELSE IF SimpleType(t) THEN <<r.regs[v]>> ELSE Cells(r.s, r.regs[v], Size(t))
PartGood(r, t, v) == v = 0 \/ SimpleType(t) \/ Good(r.s, r.regs[v], Size(t))
TypeIn(r, v) == StmtOf(r.f, v).type

\* Values: genVal and genOp
GenVal(r, stmt) ==
  LET x(i) == r.regs[stmt.args[i]]
      From(a, n) == IF Good(r.s, a, n) THEN Set(r, stmt, Cells(r.s, a, n)[1]) ELSE [r EXCEPT !.s = Crash(@)]
  IN CASE stmt.op = "Int" -> Set(r, stmt, stmt.n)
       [] stmt.op = "Alloc" ->
            LET n == IF Size(RefElem(stmt)) = 0 THEN 1 ELSE Size(RefElem(stmt))
                a == Len(r.s.mem) + 1
            IN [Set(r, stmt, a) EXCEPT !.s = New(@, n),
                                       !.own = IF stmt.flag THEN @ \cup (a..(a + n - 1)) ELSE @]
       [] stmt.op = "Arg" ->
            IF stmt.n < Len(r.args) THEN Set(r, stmt, r.args[stmt.n + 1]) ELSE [r EXCEPT !.s = Crash(@)]
       [] stmt.op = "Load" -> From(x(1), 1)
       [] stmt.op = "Field" ->
            IF x(1) = 0 THEN [r EXCEPT !.s = Crash(@)]
            ELSE Set(r, stmt, x(1) + Offset(TypeIn(r, stmt.args[1]).t, stmt.n))
       [] stmt.op = "Op" ->
            CASE stmt.name = "+"   -> Set(r, stmt, x(1) + x(2))
              [] stmt.name = "-"   -> Set(r, stmt, x(1) - x(2))
              [] stmt.name = "<="  -> Set(r, stmt, IF x(1) <= x(2) THEN 1 ELSE 0)
              [] stmt.name = "="   -> Set(r, stmt, IF x(1) = x(2) THEN 1 ELSE 0)
              [] stmt.name = "tag" -> From(x(1), 1)

GenMake(r, stmt) ==
  LET dst == r.regs[stmt.args[1]]
      t == TypeIn(r, stmt.args[1]).t
      Into(cells) == [r EXCEPT !.s = Write(@, dst, cells)]
      fields == Tail(stmt.args)
      Part(i) == IF i <= Len(fields) THEN fields[i] ELSE 0
  IN CASE stmt.op = "MakeAnd" ->
            IF \A i \in DOMAIN t.parts : PartGood(r, t.parts[i], Part(i))
            THEN Into(SeqX!FlattenSeq([i \in DOMAIN t.parts |-> PartCells(r, t.parts[i], Part(i))])
                      \o IF t.k = "Block" THEN <<r.token>> ELSE <<>>)
            ELSE [r EXCEPT !.s = Crash(@)]
       [] stmt.op = "MakeOr" ->
            IF fields = <<>> \/ PartGood(r, t.parts[stmt.n], fields[1])
            THEN Into(<<stmt.n - 1>> \o SeqX!FlattenSeq([i \in DOMAIN t.parts |->
                        PartCells(r, t.parts[i], IF fields # <<>> /\ i = stmt.n THEN fields[1] ELSE 0)]))
            ELSE [r EXCEPT !.s = Crash(@)]
       [] stmt.op = "MakeVirt" ->
            Into(<<CHOOSE i \in DOMAIN r.names : r.names[i] = stmt.name, r.regs[stmt.args[2]]>>)

\* What comes after a statement that leaves the machine as s.
After(r, s) == [r EXCEPT !.s = s, !.i = @ + 1]

\* genFunDef: a call.  A function that can far return has a token of its own; the body
\* of out:, which the program only declares, writes its argument.
Enter(funs, r, name, args) ==
  LET f == funs[name]
      Home(a) == With(Size(f.parms[1].type.t) - 1, LAMBDA n : IF Good(r.s, a, n + 1) THEN r.s.mem[a + n] ELSE 0)
      token == CASE f.canFarRet -> r.s.tok + 1
                 [] ~f.canFarRet /\ f.block -> Home(args[1])
                 [] OTHER -> 0
      frame == [r EXCEPT !.f = f, !.args = args, !.token = token, !.regs = <<>>, !.own = {}, !.k = 1, !.i = 1,
                         !.s.tok = IF f.canFarRet THEN @ + 1 ELSE @, !.caller = <<r>>]
  IN IF name = "out:" THEN After(r, [r.s EXCEPT !.log = Append(@, args[1])])
     ELSE IF name \notin DOMAIN funs THEN After(r, Crash(r.s))
     ELSE IF f.bblks = <<>> THEN After(r, Crash(r.s)) ELSE frame
\* The frame ends.  If it is the home of a far return the run goes on after the call.
Leave(r) ==
  LET caught == r.s.out = "far" /\ r.f.canFarRet /\ r.s.to = r.token
  IN After(r.caller[1], [r.s EXCEPT !.dead = @ \cup r.own, !.out = IF caught THEN "go" ELSE @])

\* genVirtCall
GenVirtCall(funs, r, args) ==
  IF ~Good(r.s, args[1], 2) THEN After(r, Crash(r.s))
  ELSE With(Cells(r.s, args[1], 2), LAMBDA fun :
         IF fun[1] = 0 THEN After(r, Crash(r.s)) ELSE Enter(funs, r, r.names[fun[1]], <<fun[2]>> \o Tail(args)))

\* genStmt; args are the values that stmt uses.
GenStmt(funs, r, stmt, args) ==
  CASE stmt.op = "Store" -> After(r, Write(r.s, args[1], <<args[2]>>))
    [] stmt.op = "Copy" ->
         With(Size(TypeIn(r, stmt.args[1]).t), LAMBDA n :
              After(r, IF Good(r.s, args[2], n) THEN Write(r.s, args[1], Cells(r.s, args[2], n)) ELSE Crash(r.s)))
    [] stmt.op \in Makes  -> After(r, GenMake(r, stmt).s)
    [] stmt.op = "Call"   -> Enter(funs, r, stmt.name, args)
    [] stmt.op = "VirtCall" -> GenVirtCall(funs, r, args)
    [] stmt.op = "Panic"  -> After(r, [r.s EXCEPT !.out = "panic"])
    [] stmt.op = "Ret" ->
         IF stmt.flag THEN Leave([r EXCEPT !.s.out = "far", !.s.to = r.token]) ELSE Leave(r)
    [] OTHER ->   \* a Jmp or a Switch; the numbers of Bool are the other way round
         LET id == CASE stmt.op = "Jmp" -> stmt.to[1]
                     [] stmt.op = "Switch" -> stmt.to[IF stmt.flag THEN 2 - args[1] ELSE args[1] + 1]
         IN [r EXCEPT !.k = CHOOSE k \in DOMAIN r.f.bblks : r.f.bblks[k].id = id, !.i = 1]

\* The statement at which the frame is.
RunAt(funs, r) ==
  With(r.f.bblks[r.k].stmts[r.i], LAMBDA stmt :
    CASE stmt.del -> After(r, r.s)
      [] ~stmt.del /\ ~Known(r, Uses(stmt)) -> After(r, Crash(r.s))
      [] ~stmt.del /\ Known(r, Uses(stmt)) /\ IsVal(stmt) -> With(GenVal(r, stmt), LAMBDA t : After(t, t.s))
      [] OTHER -> GenStmt(funs, r, stmt, Each(stmt.args, LAMBDA v : r.regs[v])))
\* 2^d steps, or as many as there are.
RECURSIVE RunMany(_, _, _)
RunMany(funs, r, d) ==
  CASE r.caller = <<>> \/ r.s.out \in {"panic", "crash"} -> r
    [] r.caller # <<>> /\ r.s.out \in {"go", "far"} /\ d = 0 -> IF r.s.out = "far" THEN Leave(r) ELSE RunAt(funs, r)
    [] OTHER -> With(RunMany(funs, r, d - 1), LAMBDA t : RunMany(funs, t, d - 1))

\* The result of a call of main with numbers, in 2^Fuel steps.
Fuel == 12
Result(funs, names, args) ==
  LET outside == [f |-> funs["main"], names |-> names, args |-> <<>>, token |-> 0, regs |-> <<>>, own |-> {},
                  k |-> 1, i |-> 1, caller |-> <<>>, s |-> New(Machine, 1)]
  IN With(RunMany(funs, Enter(funs, outside, "main", args \o <<1>>), Fuel), LAMBDA r :
          [out |-> IF r.s.out = "go" /\ r.caller # <<>> THEN "hang" ELSE r.s.out, log |-> r.s.log,
           val |-> IF r.s.out = "go" THEN r.s.mem[1] ELSE 0])
=============================================================================
