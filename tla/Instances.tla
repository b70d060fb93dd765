------------------------------ MODULE Instances -----------------------------
(***************************************************************************)
(* check, of types/check.go: the definitions of a module are checked in    *)
(* order, and then the bodies of the instances of its functions are made,  *)
(* which may call for more.  A module is checked after those it imports,   *)
(* the built-in module first; of these it sees the checked trees.          *)
(***************************************************************************)
EXTENDS Checking

CONSTANT Programs

VARIABLES
  pc,        \* "gather", "check", "inst", "done" or "refused"
  st,        \* the state of the checker
  mod,       \* the module that is being checked, an index of prog.mods
  next,      \* the definition to check next
  bodies     \* of instances
vars == <<prog, pc, st, mod, next, bodies>>

(***************************************************************************)
(* Built-in methods (builtin.go): of an or-type the method that tells its  *)
(* cases apart, and those of a virtual type.  Their bodies call themselves *)
(***************************************************************************)
SelfCall(f) ==
  LET id(i) == Ident(VarOf("parm", Parms(f)[i].n, 1, i), FALSE, Parms(f)[i].t)
      args  == <<>> \o [i \in 1..Len(Parms(f)) - 1 |-> id(i + 1)]
  IN <<RetS(Call(<<Cvt(id(1), 1, <<>>, RefTo(f.recv))>>,
                 <<Msg(Def(f.def).sel, args, f, IF Ret(f) = <<>> THEN NoType ELSE Ret(f)[1])>>))>>

BuiltInMeth(d, id, tparms, sel, parms, ret, builtin) ==
  LET vars1 == <<>> \o [i \in DOMAIN d.parms |-> Var("", d.parms[i].n, id)]
      sub   == SubMap(VarsOf(d), vars1)
  IN [d EXCEPT !.k = "fun", !.id = id, !.recv = <<[t |-> Ty(d.mod, d.n, vars1), parms |-> d.parms]>>, !.tparms = tparms,
               !.sel = sel, !.parms = [i \in DOMAIN parms |-> [n |-> "x" \o ToString(i - 1), t |-> SubType(sub, parms[i])]],
               !.ret = SubTypes(sub, ret), !.builtin = builtin]
CaseMeth(d) ==
  LET id  == "case " \o d.id
      ret == Var(d.mod, "$" \o d.id, id)
  IN BuiltInMeth(d, id, <<[n |-> ret.n, ifaces |-> <<>>]>>,
       [i \in DOMAIN d.cases |-> "if" \o d.cases[i].n[1]] \o <<"">>,
       [i \in DOMAIN d.cases |-> FunT(d.cases[i].t, ret)], <<ret>>, "case")
VirtMeth(d, sig) == BuiltInMeth(d, "virt " \o d.id \o ToString(sig.sel), <<>>, sig.sel, sig.parms, sig.ret, "virt")
BuiltInMeths(d) ==
  IF d.cases # <<>> THEN <<CaseMeth(d)>>
  ELSE <<>> \o [i \in DOMAIN d.virts |-> VirtMeth(d, d.virts[i])]

(***************************************************************************)
(* The body of an instance from that of its definition (inst.go, sub.go).  *)
(* Variables, references and the methods of type variables are found anew. *)
(* An error here is a panic of the checker.                                *)
(***************************************************************************)
RECURSIVE SubExpr(_, _, _)

\* A variable of the name of v, which must be of its kind and have its index.
SameVar(s, v, w) ==
  /\ w.k = v.k /\ w.i = v.i
  /\ v.k = "parm" => (w.d = 1) = (v.d = 1)
  /\ TypeOfVar(s, w) # NoType
LookedUp(s, v, found) ==
  IF Len(found) = 1 /\ SameVar(s, v, found[1]) THEN Done(MarkCapture(s, found[1]), found[1]) ELSE Fail(s, "impossible")
LookUpVar(s, v) == LookedUp(s, v, FindIdent(s, IF v.k = "val" THEN Def(v.n).n ELSE v.n))

\* The method that is found may want more or fewer references than that of the constraint.
RECURSIVE Unconverted(_)
Unconverted(x) == IF x.k = "Convert" THEN Unconverted(x.x) ELSE x
SubArg(s, want, x) == IF x.t = want THEN Done(s, x) ELSE ConvertExpr(s, want, Unconverted(x))

SubMsg(s, sub, infer, recv, m, ofVar) ==
  Then(Each(s, m.args, LAMBDA s1, a : SubExpr(s1, sub, a)), LAMBDA s1, xs :
    LET args == [i \in DOMAIN xs |-> Checked(xs[i])]
    IN Then(IF ofVar THEN FindFunInst(s1, infer, recv, m.sel, args)
            ELSE InstRecvAndFun(s1, recv, infer, DefFun(m.fun.def), args), LAMBDA s2, r :
         Then(Each(s2, [i \in DOMAIN xs |-> i], LAMBDA s3, i : SubArg(s3, ArgParms(r.fun)[i].t, xs[i])), LAMBDA s3, ys :
           Done(s3, Msg(m.sel, ys, r.fun, RetType(r.fun))))))
\* Whether the receiver is of a type variable in the definition.
TypeVarCallSubbed(x, r) == r # <<>> /\ IsVar(r[1].t.args[1])
TypeVarCall(x, r) == r # <<>> /\ IsVar(x.recv[1].t.args[1])
SubCall(s, sub, x) ==
  Then(Each(s, x.recv, LAMBDA s1, r : SubExpr(s1, sub, r)), LAMBDA s1, r :
    LET recv  == [i \in DOMAIN r |-> IF RefCount(r[i].t) > 1 THEN OneRef(r[i]) ELSE r[i]]
        base  == IF r = <<>> THEN NoType ELSE BaseType(r[1].t)
        infer(i) == IF i = Len(x.msgs) THEN SubType(sub, x.t) ELSE NoType
    IN IF r # <<>> /\ ~IsRef(r[1].t) THEN Fail(s1, "impossible")
       ELSE Then(Each(s1, [i \in DOMAIN x.msgs |-> i], LAMBDA s2, i : SubMsg(s2, sub, infer(i), base, x.msgs[i], TypeVarCall(x, r))),
                 LAMBDA s2, ms : Done(s2, Call(recv, ms))))

SubLocals(sub, locals) == <<>> \o [i \in DOMAIN locals |-> [locals[i] EXCEPT !.t = SubType(sub, @)]]
SubFrame(kind, sub, x) == [Frame(kind, SubVars(sub, x.parms)) EXCEPT !.locals = SubLocals(sub, x.locals)]
SubStmts(s, sub, stmts) == Each(s, stmts, LAMBDA s1, stmt : SubExpr(s1, sub, stmt))

SubParts(s, sub, x) ==
  CASE x.k = "Lit"     -> Done(s, x)
    [] x.k = "Convert" -> SubExpr(s, sub, x.x)
    [] x.k = "Call"    -> SubCall(s, sub, x)
    [] x.k = "Ident"   -> Then(LookUpVar(s, x.v), LAMBDA s1, v :
                            Done(s1, Ident(v, Captures(s1, v), RefTo(TypeOfVar(s1, v)))))
    [] x.k = "Ctor"    -> Then(Each(s, x.args, LAMBDA s1, a : SubExpr(s1, sub, a)), LAMBDA s1, xs :
                            Done(s1, Ctor(x.cas, xs, SubType(sub, x.t))))
    [] x.k = "Block"   -> Then(SubStmts(Enter(s, SubFrame("block", sub, x)), sub, x.stmts), LAMBDA s1, stmts :
                            Done(Leave(s1), Block(TopFrame(s1), stmts, SubType(sub, x.t))))
    [] x.k = "Ret"     -> Then(SubExpr(s, sub, x.x), LAMBDA s1, y : Done(s1, RetS(y)))
    [] x.k = "Assign"  -> Then(LookUpVar(s, x.v), LAMBDA s1, v :
                            Then(SubExpr(s1, sub, x.x), LAMBDA s2, y : Done(s2, Assign(v, y))))
SubExpr(s, sub, x) ==
  Then(SubParts(s, sub, x), LAMBDA s1, y : IF IsExpr(x) THEN ConvertExpr(s1, SubType(sub, x.t), y) ELSE Done(s1, y))

\* In the scope of the file that calls the instance.
InstFunBody(s, f) ==
  LET d     == Def(f.def)
      body  == s.bodies[f.def]
      frame == [Frame("fun", Parms(f)) EXCEPT !.locals = SubLocals(FunSub(f), body.locals)]
      begun == [s EXCEPT !.x = [file |-> f.file, fun |-> <<f>>, frames |-> <<frame>>]]
  IN IF d.recv # <<>> /\ ~Unify(RecvOf(d), f.recv, SeqX!ToSet(RecvVars(d)), [ok |-> TRUE, sub |-> NoSub]).ok
     THEN Fail(s, "impossible")
     ELSE Then(SubStmts(begun, FunSub(f), body.stmts), LAMBDA s1, stmts :
            Done([s1 EXCEPT !.x = NoScope], Body(s1, stmts)))

(***************************************************************************)
(* The passes                                                              *)
(***************************************************************************)
Ids == DefsOf(prog.mods[mod])
ValTypes(ids) == [id \in {i \in SeqX!ToSet(ids) : Def(i).k = "val"} |-> IF Def(id).t = <<>> THEN NoType ELSE Def(id).t[1]]

\* The built-in methods come after the definitions of the source.
Gather ==
  /\ pc = "gather"
  /\ LET types == SelectSeq(Ids, LAMBDA id : Def(id).k = "type")
         meths == SeqX!FlattenSeq([i \in DOMAIN types |-> BuiltInMeths(Def(types[i]))])
         ids   == {meths[i].id : i \in DOMAIN meths}
     IN /\ prog' = [prog EXCEPT !.defs = @ @@ [id \in ids |-> meths[CHOOSE i \in DOMAIN meths : meths[i].id = id]],
                                !.order = @ \o [i \in DOMAIN meths |-> meths[i].id]]
        /\ st' = [st EXCEPT !.valTypes = @ @@ ValTypes(Ids),
                            !.bodies = @ @@ [id \in ids |-> [locals |-> <<>>, stmts |-> SelfCall(DefFun(id))']]]
  /\ pc' = "check" /\ next' = 1
  /\ UNCHANGED <<mod, bodies>>

Check ==
  /\ pc = "check" /\ next <= Len(Ids)
  /\ \E r \in {CheckDef(st, Ids[next])} :
       /\ st' = r.s
       /\ pc' = IF r.s.err = "" THEN "check" ELSE "refused"
  /\ next' = next + 1
  /\ UNCHANGED <<prog, mod, bodies>>
AllChecked ==
  /\ pc = "check" /\ next > Len(Ids)
  /\ pc' = "inst"
  /\ UNCHANGED <<prog, st, mod, next, bodies>>

\* The instance that was called for last is done first.  Those of declarations have no bodies.
InstBody ==
  /\ pc = "inst" /\ st.err = "" /\ st.todo # <<>>
  /\ LET f    == Last(st.todo)
         left == [st EXCEPT !.todo = SubSeq(@, 1, Len(@) - 1)]
     IN IF IsGroundFun(f) /\ f.def \in DOMAIN st.bodies
        THEN \E r \in {InstFunBody(left, f)} :
               /\ st' = r.s
               /\ bodies' = IF r.s.err = "" THEN bodies @@ (f :> r.v) ELSE bodies
        ELSE st' = left /\ UNCHANGED bodies
  /\ UNCHANGED <<prog, pc, mod, next>>

\* Of the module's functions the instances that are not ground are dropped.
RmLifted ==
  /\ pc = "inst" /\ st.err = "" /\ st.todo = <<>>
  /\ st' = [st EXCEPT !.insts = {f \in @ : Def(f.def).mod = prog.mods[mod] => IsGroundFun(f)}]
  /\ IF mod < Len(prog.mods) THEN pc' = "gather" /\ mod' = mod + 1 ELSE pc' = "done" /\ UNCHANGED mod
  /\ UNCHANGED <<prog, next, bodies>>

Init ==
  /\ prog \in Programs
  /\ pc = "gather" /\ mod = 1 /\ next = 1 /\ st = Empty /\ bodies = <<>>
Next == Gather \/ Check \/ AllChecked \/ InstBody \/ RmLifted
Spec == Init /\ [][Next]_vars
=============================================================================
