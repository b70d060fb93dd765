---------------------------- MODULE MCInstances -----------------------------
(***************************************************************************)
(* The type checker on the sample sources.                                 *)
(***************************************************************************)
EXTENDS Instances, TypedSamples

(***************************************************************************)
(* A judgement of trees of its own: whether a tree is well typed in the    *)
(* frames fs around it, of the function f, if any, that it is of.  A block *)
(* captures the variables of the frames around it that are used in it.     *)
(***************************************************************************)
TypeIn(fs, f, v) ==
  CASE v.k = "local" -> fs[v.d].locals[v.i].t
    [] v.k = "parm"  -> fs[v.d].parms[v.i].t
    [] v.k = "field" -> Fields(f[1].recv)[v.i].t
    [] v.k = "val"   -> st.valTypes[v.n]
Fits(x, t) == x.t = t \/ IsPanic(x)
AllFit(xs, ts) == Len(xs) = Len(ts) /\ \A i \in DOMAIN xs : Fits(xs[i], ts[i])
TypesOf(vs) == <<>> \o [i \in DOMAIN vs |-> vs[i].t]
\* A method is one of t's, or of a constraint of the variable t.
MethodOf(t, f) == f.recv = t \/ (IsVar(t) /\ f.recv \in SeqX!ToSet(Ifaces(t)))
Implements(t, fs, sigs) ==
  /\ Len(fs) = Len(sigs)
  /\ \A i \in DOMAIN fs : MethodOf(t, fs[i]) /\ SigEq(fs[i], sigs[i])

\* The variables that are used in a tree.
RECURSIVE VarsIn(_)
AllVarsIn(xs) == UNION {VarsIn(xs[i]) : i \in DOMAIN xs}
VarsIn(x) ==
  CASE x.k = "Lit" -> {}
    [] x.k = "Ident" -> {x.v}
    [] x.k \in {"Convert", "Ret"} -> VarsIn(x.x)
    [] x.k = "Assign" -> {x.v} \cup VarsIn(x.x)
    [] x.k = "Ctor" -> AllVarsIn(x.args)
    [] x.k = "Block" -> AllVarsIn(x.stmts)
    [] x.k = "Call" -> AllVarsIn(x.recv) \cup UNION {AllVarsIn(x.msgs[i].args) : i \in DOMAIN x.msgs}

RECURSIVE WellTyped(_, _, _)
AllWell(xs, fs, f) == \A i \in DOMAIN xs : WellTyped(xs[i], fs, f)
WellSent(recv, m, fs, f) ==
  /\ AllWell(m.args, fs, f)
  /\ AllFit(m.args, TypesOf(ArgParms(m.fun)))
  /\ m.t = RetType(m.fun)
  /\ IF recv = <<>> THEN Def(m.fun.def).recv = <<>>
     ELSE IsRef(recv[1].t) /\ MethodOf(recv[1].t.args[1], m.fun)
WellTyped(x, fs, f) ==
  CASE x.k = "Lit"     -> TRUE
    [] x.k = "Ident"   -> x.t = RefTo(TypeIn(fs, f, x.v))
    [] x.k = "Convert" ->
         /\ WellTyped(x.x, fs, f)
         /\ x.ref = 1  => x.t = RefTo(x.x.t)
         /\ x.ref = -1 => x.x.t = RefTo(x.t)
         /\ x.ref = 0  => Implements(x.x.t, x.virts, Virts(x.t))
    [] x.k = "Call"    -> AllWell(x.recv, fs, f) /\ (\A i \in DOMAIN x.msgs : WellSent(x.recv, x.msgs[i], fs, f))
    [] x.k = "Ctor"    ->
         /\ AllWell(x.args, fs, f)
         /\ IsRef(x.t)
         /\ IF Cases(x.t.args[1]) = <<>> THEN x.args = <<>> \/ AllFit(x.args, TypesOf(Fields(x.t.args[1])))
            ELSE AllFit(x.args, Cases(x.t.args[1])[x.cas].t)
    [] x.k = "Block"   ->
         /\ AllWell(x.stmts, Append(fs, [parms |-> x.parms, locals |-> x.locals]), f)
         /\ x.t = FunT(TypesOf(x.parms), Last(x.t.args))
         /\ SeqX!ToSet(x.captures) = {v \in AllVarsIn(x.stmts) : v.k # "val" /\ v.d <= Len(fs)}
         /\ IsExpr(Last(x.stmts)) => Fits(Last(x.stmts), Last(x.t.args))
    [] x.k = "Assign"  -> WellTyped(x.x, fs, f) /\ Fits(x.x, TypeIn(fs, f, x.v))
    [] x.k = "Ret"     -> WellTyped(x.x, fs, f) /\ Fits(x.x, RetType(f[1]))

(***************************************************************************)
(* The trees                                                               *)
(***************************************************************************)
Source == {id \in DOMAIN st.bodies : Def(id).builtin = ""}
FunOf(id) == IF Def(id).k = "fun" THEN <<DefFun(id)>> ELSE <<>>
FramesOf(f, body) == <<[parms |-> IF f = <<>> THEN <<>> ELSE Parms(f[1]), locals |-> body.locals]>>
\* Those that code is made of, and the files that they are called from.
Compiled ==
  {[f |-> <<f>>, file |-> f.file, body |-> bodies[f]] : f \in DOMAIN bodies}
    \cup {[f |-> FunOf(id), file |-> Def(id).file, body |-> st.bodies[id]] :
             id \in {i \in Source : Def(i).k = "val" \/ IsGroundFun(DefFun(i))}}

RECURSIVE Messages(_)
MessagesOf(xs) == SeqX!FlattenSeq([i \in DOMAIN xs |-> Messages(xs[i])])
\* In order, and with the type of the receiver.
Messages(x) ==
  CASE x.k \in {"Lit", "Ident"} -> <<>>
    [] x.k \in {"Convert", "Assign", "Ret"} -> Messages(x.x)
    [] x.k = "Ctor" -> MessagesOf(x.args)
    [] x.k = "Block" -> MessagesOf(x.stmts)
    [] x.k = "Call" ->
         MessagesOf(x.recv) \o SeqX!FlattenSeq([i \in DOMAIN x.msgs |->
           MessagesOf(x.msgs[i].args) \o
             <<[sel |-> x.msgs[i].sel, fun |-> x.msgs[i].fun, recv |-> IF x.recv = <<>> THEN NoType ELSE BaseType(x.recv[1].t)]>>])
(***************************************************************************)
(* Properties                                                              *)
(***************************************************************************)
\* What the checker accepts is well typed: the sources with their type variables and every instance.
TreesWellTyped ==
  pc = "done" =>
    /\ \A id \in Source : AllWell(st.bodies[id].stmts, FramesOf(FunOf(id), st.bodies[id]), FunOf(id))
    /\ \A f \in DOMAIN bodies : AllWell(bodies[f].stmts, FramesOf(<<f>>, bodies[f]), <<f>>)

\* What the comment in check.go:115-121 says: once a module is accepted, the bodies of the instances
\* are made without an error.  A constraint that is not met refutes it (UnmetConstraint.cfg).
InstancesNeverFail == pc = "inst" => st.err = ""

\* The methods that the names in file can be of.
SeenFrom(file, t, sel) ==
  LET all == {imp.mod : imp \in SeqX!ToSet(ImportedAll(file))}
  IN {id \in DOMAIN prog.defs :
        /\ Def(id).sel = sel /\ RecvOf(Def(id)) # NoType
        /\ RecvOf(Def(id)).m = t.m /\ RecvOf(Def(id)).n = t.n
        /\ Def(id).mod \in all \cup {prog.files[file].mod, "", t.m}}
\* A constraint of a type variable of f asks for a method that its type argument does not have there.
IsUnmet(f) ==
  LET d     == Def(f.def)
      parms == (IF d.recv = <<>> THEN <<>> ELSE d.recv[1].parms) \o d.tparms
      args  == f.recv.args \o f.targs
  IN \E i \in DOMAIN parms : \E iface \in SeqX!ToSet(parms[i].ifaces) : \E sig \in SeqX!ToSet(Virts(iface)) :
       SeenFrom(f.file, args[i], sig.sel) = {}
\* The source uses two variables of one name.
UsesNameTwice(f) ==
  LET used    == AllVarsIn(st.bodies[f.def].stmts)
      name(v) == IF v.k = "val" THEN Def(v.n).n ELSE v.n
  IN \E v, w \in used : v # w /\ name(v) = name(w)

\* Whatever compiled code calls is compiled, too: for no type variable, and for the same file.
CallsAreCompiled ==
  pc = "done" => \A c \in Compiled : \A m \in SeqX!ToSet(MessagesOf(c.body.stmts)) :
    /\ IsGroundFun(m.fun)
    /\ m.fun.file \in {"", c.file}
    /\ m.fun \in DOMAIN bodies \/ m.fun = DefFun(m.fun.def) \/ m.fun.def \notin DOMAIN st.bodies

\* An instance sends what its source sends: to what was a type variable, by the methods that are seen where
\* it is called, and to others by the same ones, for the types that the variables stand for.
InstancesFollowSource ==
  pc = "inst" => \A f \in {g \in DOMAIN bodies : g.def \in Source} :
    LET src == MessagesOf(st.bodies[f.def].stmts)
        got == MessagesOf(bodies[f].stmts)
    IN /\ Len(src) = Len(got)
       /\ \A i \in DOMAIN src :
            /\ src[i].sel = got[i].sel
            /\ got[i].recv = SubType(FunSub(f), src[i].recv)
            /\ IF IsVar(src[i].recv) THEN got[i].fun.def \in SeenFrom(f.file, got[i].recv, got[i].sel)
               ELSE got[i].fun.def = src[i].fun.def /\ got[i].fun.targs = SubTypes(FunSub(f), src[i].fun.targs)
=============================================================================
