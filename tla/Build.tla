------------------------------- MODULE Build -------------------------------
(***************************************************************************)
(* basic/build.go: from the checked tree of a module to basic blocks.      *)
(*                                                                         *)
(* The tree (types.Fun, types.Call and so on) is given with all            *)
(* conversions, as the checker leaves it.  Of expressions there are        *)
(* integers, variables, calls with the built-in operators, the case method *)
(* of or-types, panic:, values of blocks, constructors of and- and         *)
(* or-types, references and dereferences, and block literals.              *)
(***************************************************************************)
EXTENDS Basic

(***************************************************************************)
(* The tree                                                                *)
(***************************************************************************)
V(name, type)         == [n |-> name, t |-> type, field |-> 0]
FieldV(name, type, i) == [n |-> name, t |-> type, field |-> i]   \* a field of self
IntE(i)               == [e |-> "Int", i |-> i]
Id(v)                 == [e |-> "Id", v |-> v]                \* its address
Call(recv, msgs)      == [e |-> "Call", recv |-> recv, msgs |-> msgs]
Msg(fun, args, type)  == [fun |-> fun, args |-> args, type |-> type]
Ctor(type, args)      == [e |-> "Ctor", type |-> type, args |-> args]
CaseOf(type, i, args) == [e |-> "Case", type |-> type, i |-> i, args |-> args]
RefTo(x)              == [e |-> "Ref", of |-> x]
Deref(x)              == [e |-> "Deref", of |-> x]
BlockE(id, parms, locals, type, stmts) ==
  [e |-> "Block", id |-> id, parms |-> parms, locals |-> locals, type |-> type, stmts |-> stmts]
Return(x)             == [e |-> "Return", of |-> x]
Assign(v, x)          == [e |-> "Assign", v |-> v, of |-> x]
\* A function; type is NilT if it returns nothing, decl says that it has no body, and test that it is a test.
FunE(self, parms, locals, type, stmts) ==
  [self |-> self, parms |-> parms, locals |-> locals, type |-> type, stmts |-> stmts, decl |-> FALSE, test |-> FALSE]

OpNames == {"+", "-", "<=", "="}

RECURSIVE TypeOf(_)
TypeOf(x) ==
  CASE x.e = "Int"   -> IntT
    [] x.e = "Id"    -> Ref(x.v.t)
    [] x.e = "Call"  -> x.msgs[Len(x.msgs)].type
    [] x.e \in {"Ctor", "Case"} -> Ref(x.type)
    [] x.e = "Ref"   -> Ref(TypeOf(x.of))
    [] x.e = "Deref" -> TypeOf(x.of).t
    [] x.e = "Block" -> FunT

\* The variables that are used in x, in order.
RECURSIVE UsedIn(_)
UsedInAll(xs) == SeqX!FlattenSeq([i \in DOMAIN xs |-> UsedIn(xs[i])])
Unbound(vs, x) ==
  LET bound == {p.n : p \in SeqX!ToSet(x.parms) \cup SeqX!ToSet(x.locals)}
  IN SelectSeq(vs, LAMBDA v : v.n \notin bound)
UsedIn(x) ==
  CASE x.e = "Int" -> <<>>
    [] x.e = "Id"  -> <<x.v>>
    [] x.e = "Call" -> UsedInAll(x.recv) \o SeqX!FlattenSeq([i \in DOMAIN x.msgs |-> UsedInAll(x.msgs[i].args)])
    [] x.e \in {"Ctor", "Case"} -> UsedInAll(x.args)
    [] x.e \in {"Ref", "Deref", "Return"} -> UsedIn(x.of)
    [] x.e = "Assign" -> UsedIn(x.of) \o <<x.v>>
    [] x.e = "Block" -> Unbound(UsedInAll(x.stmts), x)
\* types.Block.Captures
Captures(x) ==
  LET all == UsedIn(x) IN
  SeqX!FoldLeft(LAMBDA caps, v : IF v \in SeqX!ToSet(caps) THEN caps ELSE Append(caps, v), <<>>, all)

(***************************************************************************)
(* Functions.  A builder has the function, the position of the current     *)
(* block, the value of the last expression (0 if it has none) and the      *)
(* functions of the block literals it has met.                             *)
(***************************************************************************)
\* newFun.  Parameters of empty types are left out, but count for the others' n.
NewFun(name, self, parms, type) ==
  LET kept == SelectSeq([i \in DOMAIN parms |-> i], LAMBDA i : ~EmptyType(parms[i].t))
      P(i) == LET t == parms[i].t byRef == (i = 1 /\ self) \/ ~SimpleType(t) IN
              Parm(i - 1, IF byRef THEN Ref(t) ELSE t, ~(i = 1 /\ self) /\ ~SimpleType(t),
                   i = 1 /\ self, parms[i].n)
      ps == [j \in DOMAIN kept |-> P(kept[j])]
  IN [name |-> name, parms |-> ps,
      ret |-> IF EmptyType(type) THEN <<>> ELSE <<Parm(Len(ps), Ref(type), FALSE, FALSE, "")>>,
      bblks |-> <<[id |-> 1, stmts |-> <<>>]>>, top |-> 2, canInline |-> FALSE, canFarRet |-> FALSE,
      block |-> FALSE, caps |-> <<>>, homeType |-> type]

Parms(f) == f.parms \o f.ret

At(b, k)   == [b EXCEPT !.cur = k]
None(b)    == [b EXCEPT !.v = 0]
Emit(b, s) == [b EXCEPT !.f = AddStmt(@, b.cur, s), !.v = b.f.top]
AllocOf(b, type) == [b EXCEPT !.f = AddAlloc(@, type, ""), !.v = b.f.top]
\* A new block, which becomes the current one.
Fresh(b)   == [b EXCEPT !.f = NewBBlk(@), !.cur = Len(b.f.bblks) + 1]
IdOf(b)    == b.f.bblks[b.cur].id

Val(op, args, type) == [Stmt(op, args) EXCEPT !.type = type]
\* Of the last value: what it refers to, and the address of its part i.
Load(b)      == Emit(b, Val("Load", <<b.v>>, RefElem(StmtOf(b.f, b.v))))
LoadOf(b, v) == Load([b EXCEPT !.v = v])
FieldOf(b, v, i) == Emit(b, [Val("Field", <<v>>, Ref(RefElem(StmtOf(b.f, v)).parts[i])) EXCEPT !.n = i])
ArgOf(b, p)  == Emit(b, [Val("Arg", <<>>, p.type) EXCEPT !.n = p.n])
\* The last value is where v goes to, or what goes into a new allocation.
Put(b, type, v)   == Emit(b, Stmt(IF SimpleType(type) THEN "Store" ELSE "Copy", <<b.v, v>>))
Into(b, op, args) == [Emit(b, [op EXCEPT !.args = <<b.v>> \o args]) EXCEPT !.v = b.v]
Jmp(b, id)   == Emit(b, [Stmt("Jmp", <<>>) EXCEPT !.to = <<id>>])

\* findParm and findLocal: the variable's allocation, or else the argument.
FindVar(b, name) ==
  LET allocs == SelectSeq(b.f.bblks[1].stmts, LAMBDA s : s.op = "Alloc" /\ s.name = name)
  IN IF allocs # <<>> THEN [b EXCEPT !.v = allocs[1].id]
     ELSE ArgOf(b, CHOOSE p \in SeqX!ToSet(b.f.parms) : p.var = name)
SelfParm(b) == Load(FindVar(b, b.f.parms[1].var))
SelfField(b, i) == With(SelfParm(b), LAMBDA self : FieldOf(self, self.v, i))

IndexOfCapture(f, v) == SeqX!SelectInSeq(f.caps, LAMBDA c : c = v)
BuildCapture(b, i) == Load(SelfField(b, i))

\* buildVar: the address of a variable, or none.
BuildVar(b, v) ==
  CASE EmptyType(v.t) -> None(b)
    [] ~EmptyType(v.t) /\ IndexOfCapture(b.f, v) > 0 -> BuildCapture(b, IndexOfCapture(b.f, v))
    [] ~EmptyType(v.t) /\ IndexOfCapture(b.f, v) = 0 /\ v.field > 0 -> SelfField(b, v.field)
    [] OTHER -> With(FindVar(b, v.n), LAMBDA a :
         IF \E p \in SeqX!ToSet(b.f.parms) : p.var = v.n /\ p.self THEN Load(a) ELSE a)

(***************************************************************************)
(* Statements and expressions                                              *)
(***************************************************************************)
RECURSIVE BuildExpr(_, _), BuildStmts(_, _), BuildBody(_, _, _)

\* Expressions one after the other, and the list of their values.
BuildAll(b, xs) ==
  SeqX!FoldLeft(LAMBDA r, x : With(BuildExpr(r.b, x), LAMBDA c : [b |-> c, vs |-> Append(r.vs, c.v)]),
                [b |-> b, vs |-> <<>>], xs)
NonEmpty(vs) == SelectSeq(vs, LAMBDA v : v # 0)

\* buildFunBody: the first block is ended when the body is there.
BuildBody(f, locals, stmts) ==
  LET kept == SelectSeq(f.parms, LAMBDA p : ~p.value)
      vars == [i \in DOMAIN kept |-> V(kept[i].var, kept[i].type)] \o locals
      allocs == SeqX!FoldLeft(LAMBDA g, v : AddAlloc(g, v.t, v.n), f, vars)
      StoreArg(b, i) == With(ArgOf(b, kept[i]), LAMBDA a :
                             Emit(a, Stmt("Store", <<a.f.bblks[1].stmts[i].id, a.v>>)))
      args == SeqX!FoldLeft(StoreArg, [f |-> allocs, cur |-> 1, v |-> 0, lits |-> <<>>], [i \in DOMAIN kept |-> i])
  IN With(Fresh(args), LAMBDA b : Jmp(At(BuildStmts(b, stmts), 1), IdOf(b)))

\* buildRet: to the caller's place, which a block has captured last.
BuildReturn(b, x) ==
  LET Dst(r) == IF r.f.block THEN BuildCapture(r, Len(r.f.caps) + 1) ELSE ArgOf(r, r.f.ret[1])
      Set(r) == IF r.v = 0 THEN r ELSE Put(Dst(r), r.f.homeType, r.v)
  IN Emit(With(BuildExpr(b, x), Set), [Stmt("Ret", <<>>) EXCEPT !.flag = b.f.block])

\* buildBlockFunRet
BuildBlockFunRet(b) ==
  IF b.f.ret = <<>> THEN b ELSE Emit(Put(ArgOf(b, b.f.ret[1]), b.f.ret[1].type.t, b.v), Stmt("Ret", <<>>))

BuildAssign(b, x) ==
  With(BuildExpr(b, x.of), LAMBDA r : IF r.v = 0 THEN r ELSE Put(BuildVar(r, x.v), TypeOf(x.of), r.v))

\* buildStmts: a block returns the value of its last expression.
BuildStmt(b, x, final) ==
  CASE x.e = "Return" -> With(BuildReturn(b, x.of), LAMBDA r : IF final THEN r ELSE Fresh(r))
    [] x.e = "Assign" -> BuildAssign(b, x)
    [] OTHER -> With(BuildExpr(b, x), LAMBDA r :
                     IF final /\ r.v # 0 /\ r.f.block THEN BuildBlockFunRet(r) ELSE r)
BuildStmts(b, stmts) ==
  CASE stmts # <<>> -> BuildStmts(BuildStmt(b, Head(stmts), Len(stmts) = 1), Tail(stmts))
    [] stmts = <<>> /\ b.f.bblks[b.cur].stmts # <<>> /\ Last(b.f.bblks[b.cur]).op \in Terms -> b
    [] OTHER -> Emit(b, Stmt("Ret", <<>>))

\* buildOp: the receiver is loaded before the arguments are built.
BuildOp(b, recv, m) ==
  With(LoadOf(b, recv), LAMBDA l : With(BuildAll(l, m.args), LAMBDA r :
       Emit(r.b, [Val("Op", <<l.v>> \o r.vs, m.type) EXCEPT !.name = m.fun])))

\* Where a message leaves its result, if any, and the result once it is there.
RetOf(b, m)     == IF EmptyType(m.type) THEN None(b) ELSE AllocOf(b, m.type)
RetValue(b, ret, m) ==
  IF ret # 0 /\ SimpleType(m.type) THEN LoadOf(b, ret) ELSE [b EXCEPT !.v = ret]

\* buildMsg: arguments that are not simple are copied, each before the next is built.
BuildMsg(b, recv, m) ==
  LET Copied(c, x) ==
        IF c.v = 0 \/ SimpleType(TypeOf(x)) THEN c
        ELSE Into(AllocOf(c, TypeOf(x)), Stmt("Copy", <<>>), <<c.v>>)
      PassOne(r, x) == With(BuildExpr(r.b, x), LAMBDA e : With(Copied(e, x), LAMBDA c :
                            [b |-> c, vs |-> r.vs \o NonEmpty(<<c.v>>)]))
      recvs == SelectSeq(<<recv>>, LAMBDA v : v # 0 /\ ~EmptyType(RefElem(StmtOf(b.f, v))))
      op == [Stmt(IF m.fun = "value" THEN "VirtCall" ELSE "Call", <<>>) EXCEPT !.name = m.fun]
  IN With(SeqX!FoldLeft(PassOne, [b |-> b, vs |-> recvs], m.args), LAMBDA args :
     With(RetOf(args.b, m), LAMBDA ret :
     RetValue(Emit(ret, [op EXCEPT !.args = args.vs \o NonEmpty(<<ret.v>>)]), ret.v, m)))

\* buildCaseMeth: the function for the case is called in a block of its own.
Cases(b, recv, orType, funs) ==
  LET enum == SimpleType(orType)
      Part(c, i) ==
        IF enum THEN None(c) ELSE IF orType.parts[i].k = "Nil" THEN None(c)
        ELSE With(FieldOf(c, recv, i), LAMBDA field :
             IF SimpleType(orType.parts[i]) THEN Load(field)
             ELSE Into(AllocOf(field, orType.parts[i]), Stmt("Copy", <<>>), <<field.v>>))
      OneCase(c, i) ==
        With(Part(Fresh(c), i), LAMBDA val :
             [Emit(val, [Stmt("VirtCall", <<funs[i]>> \o NonEmpty(<<val.v, b.v>>)) EXCEPT !.name = "value"])
              EXCEPT !.v = b.v])
  IN SeqX!FoldLeft(OneCase, b, [i \in DOMAIN funs |-> i])
\* The blocks of n cases, from block first on, are entered by a switch and left for one after them.
Switched(b, cur, tag, first, n, bool) ==
  LET ids == [i \in 1..n |-> b.f.bblks[first + i].id]
      sw == [Stmt("Switch", <<tag>>) EXCEPT !.to = ids, !.flag = bool]
  IN With(Fresh(Emit(At(b, cur), sw)), LAMBDA done :
          At(SeqX!FoldLeft(LAMBDA c, i : Jmp(At(c, first + i), IdOf(done)), done, [i \in 1..n |-> i]), done.cur))
BuildCaseMeth(b, recv, m) ==
  LET orType == RefElem(StmtOf(b.f, recv))
      Tag(c) == IF SimpleType(orType) THEN LoadOf(c, recv)
                ELSE Emit(c, [Val("Op", <<recv>>, IntT) EXCEPT !.name = "tag"])
  IN With(BuildAll(b, m.args), LAMBDA r :
     With(RetOf(r.b, m), LAMBDA ret :
     With(Tag(ret), LAMBDA tag :
     RetValue(Switched(Cases([tag EXCEPT !.v = ret.v], recv, orType, r.vs), tag.cur, tag.v, Len(tag.f.bblks),
                       Len(r.vs), orType.k = "Bool"), ret.v, m))))

\* buildCall: every message goes to the same receiver.
BuildCall(b, x) ==
  LET Send(c, recv, m) ==
        CASE m.fun \in OpNames -> BuildOp(c, recv, m)
          [] m.fun = "case"    -> BuildCaseMeth(c, recv, m)
          [] m.fun = "panic:"  -> With(BuildExpr(c, m.args[1]), LAMBDA p : None(Fresh(Emit(p, Stmt("Panic", <<p.v>>)))))
          [] OTHER             -> BuildMsg(c, recv, m)
  IN With(IF x.recv = <<>> THEN None(b) ELSE BuildExpr(b, x.recv[1]), LAMBDA r :
          SeqX!FoldLeft(LAMBDA c, m : Send(c, r.v, m), r, x.msgs))

\* buildBlockFun
BuildBlockFun(home, x) ==
  LET caps == Captures(x)
      fields == [i \in DOMAIN caps |-> Ref(caps[i].t)] \o IF EmptyType(home.homeType) THEN <<>> ELSE <<Ref(home.homeType)>>
      f == NewFun(x.id, FALSE, x.parms, x.type)
      ps == <<Parm(0, Ref(BlockT(fields)), FALSE, TRUE, "")>> \o f.parms
      g == [f EXCEPT !.parms = [i \in DOMAIN ps |-> [ps[i] EXCEPT !.n = i - 1]],
                     !.ret = [i \in DOMAIN @ |-> [@[i] EXCEPT !.n = Len(ps)]],
                     !.block = TRUE, !.caps = caps, !.homeType = home.homeType]
  IN BuildBody(g, x.locals, x.stmts)

\* buildBlockLit
BuildBlockLit(b, x) ==
  LET Capture(r, v) == With(BuildVar(r.b, v), LAMBDA c : [b |-> c, vs |-> Append(r.vs, c.v)])
      Far(c) == CASE ~c.f.block /\ c.f.ret # <<>> -> ArgOf(c, c.f.ret[1])
                  [] c.f.block /\ ~EmptyType(c.f.homeType) -> BuildCapture(c, Len(c.f.caps) + 1)
                  [] OTHER -> None(c)
      Named(op) == [Stmt(op, <<>>) EXCEPT !.name = x.id]
      Object(c, vs, lit) ==
        Into(AllocOf([c EXCEPT !.lits = <<lit.f>> \o lit.lits \o @], lit.f.parms[1].type.t), Named("MakeAnd"), vs)
  IN With(SeqX!FoldLeft(Capture, [b |-> b, vs |-> <<>>], Captures(x)), LAMBDA r :
     With(Far(r.b), LAMBDA far :
     With(Object(far, r.vs \o NonEmpty(<<far.v>>), BuildBlockFun(b.f, x)), LAMBDA obj :
     Into(AllocOf(obj, FunT), Named("MakeVirt"), <<obj.v>>))))

BuildConvert(b, x) ==
  LET t == TypeOf(x.of) IN
  With(BuildExpr(b, x.of), LAMBDA r :
    CASE r.v # 0 /\ x.e = "Ref" /\ SimpleType(t) -> Into(AllocOf(r, t), Stmt("Store", <<>>), <<r.v>>)
      [] r.v # 0 /\ x.e = "Deref" /\ SimpleType(t.t) -> Load(r)
      [] OTHER -> r)

BuildCtor(b, x) ==
  LET Tag(c, n) == Emit(c, [Val("Int", <<>>, x.type) EXCEPT !.n = n])
      Make(c, vs) ==
        CASE x.e = "Ctor" -> Into(c, Stmt("MakeAnd", <<>>), vs)
          [] x.e = "Case" /\ x.type.k = "Bool" ->   \* true is case 1 and the number 1, false case 2 and 0
               With(Tag(c, 2 - x.i), LAMBDA t : Into([t EXCEPT !.v = c.v], Stmt("Store", <<>>), <<t.v>>))
          [] OTHER -> Into(c, [Stmt("MakeOr", <<>>) EXCEPT !.n = x.i], vs)
  IN IF EmptyType(x.type) THEN None(b)
     ELSE With(BuildAll(b, x.args), LAMBDA r : Make(AllocOf(r.b, x.type), r.vs))

BuildExpr(b, x) ==
  CASE x.e = "Int"  -> Emit(b, [Val("Int", <<>>, IntT) EXCEPT !.n = x.i])
    [] x.e = "Id"   -> BuildVar(b, x.v)
    [] x.e = "Call" -> BuildCall(b, x)
    [] x.e \in {"Ctor", "Case"} -> BuildCtor(b, x)
    [] x.e \in {"Ref", "Deref"} -> BuildConvert(b, x)
    [] x.e = "Block" -> BuildBlockLit(b, x)

(***************************************************************************)
(* A module                                                                *)
(***************************************************************************)
\* canFarRet: a block that is created here, or in such a block, returns far.
RECURSIVE CanFarRet(_, _)
CanFarRet(funs, f) ==
  \E s \in StmtsOf(f) : s.op = "MakeAnd" /\ s.name # "" /\
     LET block == funs[s.name] IN
     (\E r \in StmtsOf(block) : r.op = "Ret" /\ r.flag) \/ CanFarRet(funs, block)

\* The functions of src and of their blocks, by name.
BuildFun(name, x) ==
  With(BuildBody(NewFun(name, x.self, x.parms, x.type), x.locals, x.stmts), LAMBDA b :
       {IF x.decl THEN [b.f EXCEPT !.bblks = <<>>] ELSE b.f} \cup SeqX!ToSet(b.lits))
BuildMod(src) ==
  With(UNION {BuildFun(name, src[name]) : name \in DOMAIN src}, LAMBDA all :
  With([name \in {f.name : f \in all} |-> CHOOSE f \in all : f.name = name], LAMBDA funs :
    [name \in DOMAIN funs |-> [funs[name] EXCEPT !.canFarRet = ~funs[name].block /\ CanFarRet(funs, funs[name])]]))

\* topoSortFuns: what a function calls and the blocks it creates come before it.
RECURSIVE AppendSorted(_, _, _)
AppendSorted(funs, r, name) ==
  IF name \in r.done THEN r
  ELSE LET stmts == SeqX!FlattenSeq([i \in DOMAIN funs[name].bblks |-> funs[name].bblks[i].stmts])
           next == SelectSeq(stmts, LAMBDA s : s.op \in {"Call", "MakeVirt"})
           s == SeqX!FoldLeft(LAMBDA q, t : AppendSorted(funs, q, t.name), [r EXCEPT !.done = @ \cup {name}], next)
       IN [s EXCEPT !.order = Append(@, name)]
TopoSort(funs, names) ==
  SeqX!FoldLeft(LAMBDA r, name : AppendSorted(funs, r, name), [done |-> {}, order |-> <<>>], names).order
=============================================================================
