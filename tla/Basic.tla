------------------------------- MODULE Basic -------------------------------
(***************************************************************************)
(* basic/basic.go: functions as basic blocks of statements.                *)
(*                                                                         *)
(* A function has a sequence of blocks, of which the first holds its       *)
(* allocations, and a block a sequence of statements, the last of which    *)
(* ends it.  Statements and blocks have ids, unique within the function;   *)
(* a statement that is a value is used by its id.  (The code numbers the   *)
(* values and the blocks anew all the time; nothing depends on it.)        *)
(***************************************************************************)
EXTENDS Integers, Sequences, FiniteSets, TLC

SeqX == INSTANCE SequencesExt

\* F of e, which has a name in F; e comes first.
With(e, F(_)) == CHOOSE y \in {F(x) : x \in {e}} : TRUE

(***************************************************************************)
(* Types                                                                   *)
(***************************************************************************)
IntT      == [k |-> "Int"]
BoolT     == [k |-> "Bool"]
NilT      == [k |-> "Nil"]
FunT      == [k |-> "Fun"]
Ref(t)    == [k |-> "Ref", t |-> t]
AndT(ts)  == [k |-> "And", parts |-> ts]
OrT(ts)   == [k |-> "Or", parts |-> ts]     \* NilT for a case without a value
BlockT(ts) == [k |-> "Block", parts |-> ts]

RECURSIVE EmptyType(_)
EmptyType(t)  == t.k = "Nil" \/ (t.k = "And" /\ \A i \in DOMAIN t.parts : EmptyType(t.parts[i]))
SimpleType(t) == t.k \in {"Int", "Bool", "Ref", "Block"}

(***************************************************************************)
(* Statements                                                              *)
(***************************************************************************)
\* args are the ids of what is used, of which 0 is none; name is that of a variable,
\* an operation or a function, n a number, and to are the ids of blocks.  flag says
\* that an Alloc may be on the stack, or that a Ret is far.  gone says that the users
\* of what is used do not count this statement any more.
Stmt(op, args) ==
  [id |-> 0, op |-> op, args |-> args, name |-> "", n |-> 0, type |-> NilT, to |-> <<>>,
   flag |-> FALSE, del |-> FALSE, gone |-> FALSE]

Values == {"Alloc", "Arg", "Int", "Op", "Load", "Field"}
Terms  == {"Ret", "Jmp", "Switch", "Panic"}
Makes  == {"MakeAnd", "MakeOr", "MakeVirt"}

IsVal(s)   == s.op \in Values
Uses(s)    == {s.args[i] : i \in DOMAIN s.args} \ {0}
\* The first argument of these is where they store to.
StoresTo(s, v) == s.op \in {"Store", "Copy"} \cup Makes /\ s.args[1] = v
RefElem(s) == s.type.t

(***************************************************************************)
(* Functions                                                               *)
(***************************************************************************)
\* A parameter: its position, type, whether it is a copy, self, and its variable.
Parm(n, type, value, self, var) == [n |-> n, type |-> type, value |-> value, self |-> self, var |-> var]

StmtsOf(f)  == UNION {{f.bblks[i].stmts[j] : j \in DOMAIN f.bblks[i].stmts} : i \in DOMAIN f.bblks}
Users(f, v) == {s \in StmtsOf(f) : v \in Uses(s) /\ ~s.gone}
StmtOf(f, v) == CHOOSE s \in StmtsOf(f) : s.id = v

Last(b) == b.stmts[Len(b.stmts)]
Out(b)  == IF b.stmts = <<>> \/ Last(b).del THEN <<>> ELSE Last(b).to
Ins(f, b) == {i \in DOMAIN f.bblks : \E j \in DOMAIN Out(f.bblks[i]) : Out(f.bblks[i])[j] = b.id}

\* s with F(x) for each x; a sequence added to the empty one is one of values for TLC.
Each(s, F(_)) == <<>> \o [i \in DOMAIN s |-> F(s[i])]
MapStmts(f, F(_)) ==
  [f EXCEPT !.bblks = Each(@, LAMBDA b : [b EXCEPT !.stmts = Each(@, F)])]

\* addStmt, with an id of its own.
AddStmt(f, k, s) ==
  [f EXCEPT !.bblks[k].stmts = Append(@, [s EXCEPT !.id = f.top]), !.top = @ + 1]
\* The first block gets its allocations before its end, if it has one.
AddAlloc(f, type, var) ==
  [f EXCEPT !.bblks[1].stmts = Append(@, [Stmt("Alloc", <<>>) EXCEPT !.id = f.top, !.type = Ref(type), !.name = var]),
            !.top = @ + 1]
NewBBlk(f) == [f EXCEPT !.bblks = Append(@, [id |-> f.top, stmts |-> <<>>]), !.top = @ + 1]
=============================================================================
