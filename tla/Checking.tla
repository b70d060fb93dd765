------------------------------ MODULE Checking ------------------------------
(***************************************************************************)
(* types/check.go and the parts of types/inst.go that it calls: from the   *)
(* source of a definition to its checked tree.                             *)
(*                                                                         *)
(* An operator stands for the function of its name.  It takes the state s  *)
(* of the checker and gives the next state and a result.  The first error  *)
(* ends a check: the code goes on only to report more of them.  Left out   *)
(* are the texts of errors, module tags, tests, the limits of integers,    *)
(* floats and arrays, and the record of uses that InitOrder is about.      *)
(***************************************************************************)
EXTENDS Types

CONSTANT MaxValueParms    \* a block has fewer parameters

(***************************************************************************)
(* The state: an error, or ""; the checked definitions, their bodies and   *)
(* the types of values; the instances of functions and those whose bodies  *)
(* are still to do; and the scope x: the file, the function, if any, and   *)
(* one frame for it or the value and for each block around.                *)
(***************************************************************************)
NoScope == [file |-> "", fun |-> <<>>, frames |-> <<>>]
Empty   == [err |-> "", checked |-> {}, bodies |-> <<>>, valTypes |-> <<>>, insts |-> {}, todo |-> <<>>,
            x |-> NoScope]

Done(s, v)   == [s |-> s, v |-> v]
Fail(s, why) == [s |-> [s EXCEPT !.err = why], v |-> <<>>]
\* Go on with the result of r, unless it is an error.
Then(r, F(_, _)) == CHOOSE res \in {IF q.s.err # "" THEN q ELSE F(q.s, q.v) : q \in {r}} : TRUE
\* The results of F for the members of xs, from left to right.
Each(s, xs, F(_, _)) ==
  LET RECURSIVE From(_, _)
      From(r, i) ==
        IF i > Len(xs) THEN r
        ELSE From(Then(r, LAMBDA s1, done : Then(F(s1, xs[i]), LAMBDA s2, v : Done(s2, Append(done, v)))), i + 1)
  IN From(Done(s, <<>>), 1)

(***************************************************************************)
(* The checked tree; t is the type of an expression                        *)
(***************************************************************************)
Ident(v, captured, t)        == [k |-> "Ident", v |-> v, captured |-> captured, t |-> t]
Lit(t)                       == [k |-> "Lit", t |-> t]
Cvt(x, ref, virts, t)        == [k |-> "Convert", x |-> x, ref |-> ref, virts |-> virts, t |-> t]
Msg(sel, args, fun, t)       == [sel |-> sel, args |-> args, fun |-> fun, t |-> t]
Call(recv, msgs)             ==
  [k |-> "Call", recv |-> recv, msgs |-> msgs, t |-> IF msgs = <<>> THEN NoType ELSE Last(msgs).t]
Ctor(cas, args, t)           == [k |-> "Ctor", cas |-> cas, args |-> args, t |-> t]
Block(frame, stmts, t)       ==
  [k |-> "Block", parms |-> frame.parms, locals |-> frame.locals, captures |-> frame.captures, stmts |-> stmts, t |-> t]
RetS(x)                      == [k |-> "Ret", x |-> x]
Assign(v, x)                 == [k |-> "Assign", v |-> v, x |-> x]

IsExpr(stmt)  == stmt.k \notin {"Ret", "Assign"}
IsPanic(stmt) == stmt.k = "Call" /\ stmt.msgs # <<>> /\ Def(Last(stmt.msgs).fun.def).builtin = "panic:"
NilLiteral    == Cvt(Ctor(0, <<>>, RefTo(NilT)), -1, <<>>, NilT)

Ref(x)   == IF x.k = "Convert" /\ x.ref = -1 THEN x.x ELSE Cvt(x, 1, <<>>, RefTo(x.t))
Deref(x) == IF x.k = "Convert" /\ x.ref = 1 THEN x.x ELSE Cvt(x, -1, <<>>, x.t.args[1])
RECURSIVE RefTimes(_, _)
RefTimes(x, n) == IF n = 0 THEN x ELSE IF n > 0 THEN RefTimes(Ref(x), n - 1) ELSE RefTimes(Deref(x), n + 1)

(***************************************************************************)
(* Variables.  A variable is told by its kind, name, frame and index       *)
(***************************************************************************)
VarOf(kind, name, frame, i) == [k |-> kind, n |-> name, d |-> frame, i |-> i]
Frame(kind, parms)          == [kind |-> kind, parms |-> parms, locals |-> <<>>, captures |-> <<>>]
Local(name, t, typed)       == [n |-> name, t |-> t, typed |-> typed, used |-> FALSE]
Enter(s, frame)             == [s EXCEPT !.x.frames = Append(@, frame)]
Leave(s)                    == [s EXCEPT !.x.frames = SubSeq(@, 1, Len(@) - 1)]
TopFrame(s)                 == Last(s.x.frames)

MaxOf(is) == CHOOSE i \in is : \A j \in is : j <= i
Named(vs, name) == {i \in DOMAIN vs : vs[i].n = name}
\* The last of a name, in the frames from the d'th outwards.
RECURSIVE FindInFrames(_, _, _)
FindInFrames(s, name, d) ==
  IF d = 0 THEN <<>>
  ELSE LET f      == s.x.frames[d]
           locals == Named(f.locals, name)
           parms  == Named(f.parms, name)
       IN IF locals # {} THEN <<VarOf("local", name, d, MaxOf(locals))>>
          ELSE IF parms # {} THEN <<VarOf("parm", name, d, MaxOf(parms))>>
          ELSE FindInFrames(s, name, d - 1)
SelfFields(s)        == IF s.x.fun = <<>> THEN <<>> ELSE Fields(s.x.fun[1].recv)
FindField(fs, name)  == {i \in DOMAIN fs : fs[i].n = name}
\* A variable, or the definitions that the file sees by the name.
FindIdent(s, name) ==
  LET v == FindInFrames(s, name, Len(s.x.frames))
      i == FindField(SelfFields(s), name)
      ids == FindIdentSeen(s.x.file, name)
  IN IF v # <<>> THEN v
     ELSE IF i # {} THEN <<VarOf("field", name, 0, CHOOSE j \in i : \A l \in i : j <= l)>>
     ELSE <<>> \o [j \in DOMAIN ids |-> VarOf(Def(ids[j]).k, ids[j], 0, 0)]
TypeOfVar(s, v) ==
  CASE v.k = "local" -> s.x.frames[v.d].locals[v.i].t
    [] v.k = "parm"  -> s.x.frames[v.d].parms[v.i].t
    [] v.k = "field" -> SelfFields(s)[v.i].t
    [] v.k = "val"   -> s.valTypes[v.n]
\* Whether the source gives the type.
HasTypeName(s, v) ==
  CASE v.k = "local" -> s.x.frames[v.d].locals[v.i].typed
    [] v.k = "parm"  -> v.d = 1 \/ s.x.frames[v.d].parms[v.i].typed
    [] v.k = "field" -> TRUE
    [] v.k = "val"   -> Def(v.n).t # <<>>
SetLocalType(s, v, t) == [s EXCEPT !.x.frames[v.d].locals[v.i].t = t]
MarkUsed(s, v)        == IF v.k = "local" THEN [s EXCEPT !.x.frames[v.d].locals[v.i].used = TRUE] ELSE s

\* Every block between the use of v and its definition captures it.
Captures(s, v)    == v.k # "val" /\ \E d \in DOMAIN s.x.frames : d > v.d /\ s.x.frames[d].kind = "block"
AddCapture(vs, v) == IF \E i \in DOMAIN vs : vs[i] = v THEN vs ELSE Append(vs, v)
MarkCaptureInner(s, v) ==
  IF v.k = "val" \/ v.d = Len(s.x.frames) \/ TopFrame(s).kind # "block" THEN s
  ELSE [s EXCEPT !.x.frames[Len(s.x.frames)].captures = AddCapture(@, v)]
MarkCapture(s, v) ==
  IF v.k = "val" THEN s
  ELSE [s EXCEPT !.x.frames = <<>> \o [d \in DOMAIN @ |->
          IF d > v.d /\ @[d].kind = "block" THEN [@[d] EXCEPT !.captures = AddCapture(@, v)] ELSE @[d]]]
AddLocal(s, local) == [s EXCEPT !.x.frames[Len(s.x.frames)].locals = Append(@, local)]
NewLocal(s, name)  == VarOf("local", name, Len(s.x.frames), Len(TopFrame(s).locals) + 1)

(***************************************************************************)
(* Instances of functions (inst.go).  An argument of a message is an       *)
(* expression e that is not checked yet, or a tree x; of an argument that  *)
(* findVirt asks for, x has nothing but its type.                          *)
(***************************************************************************)
\* checkExpr, if convert, or _checkExpr, is defined last: all recursion is through it.
RECURSIVE Expr(_, _, _, _)
CheckExpr(s, infer, e) == Expr(s, infer, e, TRUE)
PlainExpr(s, infer, e) == Expr(s, infer, e, FALSE)
CheckDef(s, id)        == Expr(s, NoType, [k |-> "def", id |-> id], FALSE)
CheckStmts(s, want, stmts) == Expr(s, want, [k |-> "stmts", stmts |-> stmts], FALSE)

Unchecked(e) == [e |-> <<e>>, x |-> <<>>]
Checked(x)   == [e |-> <<>>, x |-> <<x>>]
ArgTypes(ts) == [i \in DOMAIN ts |-> Checked([t |-> ts[i]])]

CheckArg(s, args, i) ==
  IF args[i].x # <<>> THEN Done(s, args)
  ELSE Then(PlainExpr(s, NoType, args[i].e[1]), LAMBDA s1, x : Done(s1, [args EXCEPT ![i].x = <<x>>]))

\* Finds type arguments of f in the types of the arguments; those with a type to find are checked.
RECURSIVE UnifyParms(_, _, _, _, _)
UnifyParms(s, f, args, r, i) ==
  IF ~r.ok THEN Fail(s, "type mismatch")
  ELSE IF i > Len(args) THEN Done(s, [sub |-> r.sub, args |-> args])
  ELSE LET want == SubType(r.sub, ArgParms(f)[i].t)
           vars == SeqX!ToSet(FunVars(f))
       IN IF ~HasVar(vars, want) THEN UnifyParms(s, f, args, r, i + 1)
          ELSE Then(CheckArg(s, args, i), LAMBDA s1, as :
                 UnifyParms(s1, f, as, IF as[i].x[1].t = NoType THEN r ELSE Unify(want, as[i].x[1].t, vars, r), i + 1))
UnifyFunTParms(s, infer, f, args) ==
  LET vars  == SeqX!ToSet(FunVars(f))
      none  == [ok |-> TRUE, sub |-> NoSub]
      first == IF Ret(f) # <<>> /\ infer # NoType /\ HasVar(vars, RetType(f))
               THEN Unify(RetType(f), infer, vars, none) ELSE none
  IN Then(UnifyParms(s, f, args, first, 1), LAMBDA s1, u :
       IF vars \subseteq DOMAIN u.sub THEN Done(s1, u) ELSE Fail(s1, "unable to infer type parameter"))

\* The instance f of the file, which is new or found.
InstanceAnyFile(s, f) ==
  IF [f EXCEPT !.file = ""] \in {[g EXCEPT !.file = ""] : g \in s.insts} THEN s
  ELSE [s EXCEPT !.insts = @ \cup {f}, !.todo = Append(@, f)]
Instance(s, f) == IF f \in s.insts THEN s ELSE [s EXCEPT !.insts = @ \cup {f}, !.todo = Append(@, f)]
InstFun(s, infer, f, args) ==
  Then(UnifyFunTParms(s, infer, f, args), LAMBDA s1, u :
    LET inst == Fun(f.def, f.recv, SubTypes(u.sub, FunVars(f)), s.x.file)
    IN Done(Instance(s1, inst), [fun |-> inst, args |-> u.args]))

InstRecv(s, recv, f) ==
  LET pat   == f.recv
      u     == Unify(pat, recv, SeqX!ToSet(RecvVars(Def(f.def))), [ok |-> TRUE, sub |-> NoSub])
      found == {g \in s.insts : g.def = f.def /\ g.targs = <<>> /\ g.file = s.x.file /\ g.recv.args = recv.args}
      inst  == IF found = {} THEN Fun(f.def, recv, <<>>, s.x.file) ELSE CHOOSE g \in found : TRUE
  IN IF pat.args # <<>> /\ ~u.ok THEN Fail(s, "type mismatch") ELSE Done(Instance(s, inst), inst)

InstRecvAndFun(s, recv, infer, f, args) ==
  Then(IF recv # NoType /\ ~IsVar(recv) /\ recv # f.recv THEN InstRecv(s, recv, f) ELSE Done(s, f), LAMBDA s1, g :
    IF Def(g.def).tparms = <<>> THEN Done(s1, [fun |-> g, args |-> args]) ELSE InstFun(s1, infer, g, args))

(***************************************************************************)
(* Methods (check.go)                                                      *)
(***************************************************************************)
\* The methods seen of a type; of a type variable, those of the first constraint that has one.
Found(t, ids) == [t |-> t, ids |-> ids]
HasVirt(t, sel) == sel \in {Virts(t)[i].sel : i \in DOMAIN Virts(t)}
FindMeths(s, recv, sel) ==
  LET seen == [i \in DOMAIN Ifaces(recv) |->
                 Found(Ifaces(recv)[i], IF HasVirt(Ifaces(recv)[i], sel) THEN FindFunSeen(s.x.file, Ifaces(recv)[i], sel) ELSE <<>>)]
  IN IF IsVar(recv) THEN Head(Append(SelectSeq(seen, LAMBDA f : f.ids # <<>>), Found(recv, <<>>)))
     ELSE Found(recv, FindFun(s.x.file, recv, sel))
InstFound(s, infer, found, args) ==
  CASE found.ids = <<>>   -> Fail(s, "not found")
    [] Len(found.ids) > 1 -> Fail(s, "ambiguous")
    [] Len(found.ids) = 1 -> InstRecvAndFun(s, found.t, infer, DefFun(found.ids[1]), args)
FindFunInst(s, infer, recv, sel, args) == InstFound(s, infer, FindMeths(s, recv, sel), args)

\* The types of f's parameters and result are those of sig, or have the same base types.
SigAs(f, sig, As(_)) ==
  /\ Len(ArgParms(f)) = Len(sig.parms)
  /\ \A i \in DOMAIN sig.parms : As(ArgParms(f)[i].t) = As(sig.parms[i])
  /\ Len(Def(f.def).ret) = Len(sig.ret)
  /\ \A i \in DOMAIN sig.ret : As(Ret(f)[i]) = As(sig.ret[i])
SigEq(f, sig)      == SigAs(f, sig, LAMBDA t : t)
SigConvert(f, sig) == SigAs(f, sig, BaseType)
FindVirt(s, recv, sig, allowConvert) ==
  Then(FindFunInst(s, IF sig.ret = <<>> THEN NoType ELSE sig.ret[1], recv, sig.sel, ArgTypes(sig.parms)), LAMBDA s1, r :
    IF SigEq(r.fun, sig) \/ (allowConvert /\ SigConvert(r.fun, sig))
    THEN Done(s1, r.fun) ELSE Fail(s1, "wrong type for method"))
FindVirts(s, recv, virts, allowConvert) == Each(s, virts, LAMBDA s1, sig : FindVirt(s1, recv, sig, allowConvert))

\* convertExpr: references are counted anew, and a virtual type takes what has its methods.
ConvertExpr(s, want, x) ==
  LET y    == IF x.k = "Convert" /\ x.ref # 0 THEN x.x ELSE x
      base == BaseType(y.t)
  IN CASE x.t = NoType \/ want = NoType \/ IsPanic(x) -> Done(s, x)
       [] x.t # NoType /\ want # NoType /\ ~IsPanic(x) ->
            IF base = BaseType(want) THEN Done(s, RefTimes(y, RefCount(want) - RefCount(y.t)))
            ELSE IF Virts(want) = <<>> THEN Fail(s, "type mismatch")
            ELSE Then(FindVirts(s, base, Virts(want), FALSE), LAMBDA s1, funs :
                   Done(s1, Cvt(IF IsRef(y.t) THEN Deref(y) ELSE y, 0, funs, want)))

CheckTypeName(s, t) ==
  LET parm(i) == TypeDef(t).parms[i]
      ifaces  == SeqX!FlattenSeq([i \in DOMAIN t.args |->
                   [j \in DOMAIN parm(i).ifaces |->
                      [arg |-> t.args[i], virts |-> Virts(SubType(BodySub(t), parm(i).ifaces[j]))]]])
  IN IF IsVar(t) THEN Done(s, <<>>) ELSE Each(s, ifaces, LAMBDA s1, c : FindVirts(s1, c.arg, c.virts, TRUE))
CheckTypeNames(s, ts) == Each(s, ts, CheckTypeName)

(***************************************************************************)
(* Expressions                                                             *)
(***************************************************************************)
\* The receiver of messages is a reference to what is not one.
OneRef(x) == RefTimes(x, 1 - RefCount(x.t))

CheckMsgArgs(s, f, sel, args) ==
  Then(Each(s, [i \in DOMAIN args |-> i], LAMBDA s1, i :
         IF args[i].x # <<>> THEN Done(s1, args[i].x[1]) ELSE CheckExpr(s1, ArgParms(f)[i].t, args[i].e[1])),
       LAMBDA s1, xs : Done(s1, Msg(sel, xs, f, RetType(f))))
CheckMsg(s, infer, recv, m) ==
  Then(FindFunInst(s, infer, recv, m.sel, [i \in DOMAIN m.args |-> Unchecked(m.args[i])]), LAMBDA s1, r :
    CheckMsgArgs(s1, r.fun, m.sel, r.args))
CheckMsgs(s, infer, recv, ms) == Each(s, ms, LAMBDA s1, m : CheckMsg(s1, infer, recv, m))

CheckCall(s, infer, e) ==
  Then(Each(s, e.recv, LAMBDA s1, x : CheckExpr(s1, NoType, x)), LAMBDA s1, recv :
    IF recv = <<>> THEN Then(CheckMsgs(s1, infer, NoType, e.msgs), LAMBDA s2, ms : Done(s2, Call(<<>>, ms)))
    ELSE IF recv[1].t = NoType
         THEN Then(Each(s1, e.msgs, LAMBDA s2, m : Each(s2, m.args, LAMBDA s3, a : CheckExpr(s3, NoType, a))),
                   LAMBDA s2, as : Done(s2, Call(<<>>, <<>>)))
    ELSE Then(CheckMsgs(s1, infer, BaseType(recv[1].t), e.msgs), LAMBDA s2, ms :
           Done(s2, Call(<<OneRef(recv[1])>>, ms))))

\* The fields of an and-type come in any order, and are checked in that of the type.
CheckAndCtor(s, t, e) ==
  LET m == e.args[1].msgs[1]
      given(name) == {i \in DOMAIN m.args : m.sel[i] = name}
  IN CASE e.args = <<>> -> Done(s, Ctor(0, <<>>, RefTo(t)))
       [] e.args # <<>> /\ (Len(e.args) > 1 \/ e.args[1].k # "call" \/ e.args[1].recv # <<>> \/ Len(e.args[1].msgs) # 1) ->
            Fail(s, "malformed constructor")
       [] OTHER ->
            IF \E i \in DOMAIN m.args : FindField(Fields(t), m.sel[i]) = {} THEN Fail(s, "unknown field")
            ELSE IF \E i, j \in DOMAIN m.args : i # j /\ m.sel[i] = m.sel[j] THEN Fail(s, "duplicate field")
            ELSE IF \E i \in DOMAIN Fields(t) : given(Fields(t)[i].n) = {} THEN Fail(s, "missing field")
            ELSE Then(Each(s, Fields(t), LAMBDA s1, f : CheckExpr(s1, f.t, m.args[CHOOSE i \in given(f.n) : TRUE])),
                      LAMBDA s1, xs : Done(s1, Ctor(0, xs, RefTo(t))))
\* A constructor of an or-type: the name of a case, or a message without receiver to it.
CaseName(e) == IF e.k = "id" THEN <<e.n>> ELSE e.msgs[1].sel
CheckOrCtor(s, t, e) ==
  LET arg == e.args[1]
      i   == {j \in DOMAIN Cases(t) : Cases(t)[j].n = CaseName(arg)}
      cas == CHOOSE j \in i : TRUE
  IN IF Len(e.args) # 1 THEN Fail(s, "malformed constructor")
     ELSE IF arg.k # "id" /\ (arg.k # "call" \/ Len(arg.msgs) # 1 \/ Len(arg.msgs[1].args) # 1)
     THEN Fail(s, "malformed constructor")
     ELSE IF i = {} THEN Fail(s, "case not found")
     ELSE Then(Each(s, Cases(t)[cas].t, LAMBDA s1, ct : CheckExpr(s1, ct, arg.msgs[1].args[1])), LAMBDA s1, xs :
            Done(s1, Ctor(cas, xs, RefTo(t))))
CtorOf(s, t, e) ==
  IF HasDef(t) /\ TypeDef(t).priv /\ t.m \notin {"", prog.files[s.x.file].mod}
  THEN Fail(s, "cannot construct unexported type")
  ELSE IF Cases(t) # <<>> THEN CheckOrCtor(s, t, e)
  ELSE IF Virts(t) # <<>> THEN Fail(s, "cannot construct virtual type")
  ELSE IF HasDef(t) /\ t.m = "" /\ t # NilT THEN Fail(s, "cannot construct built-in type")
  ELSE CheckAndCtor(s, t, e)
CheckCtor(s, t, e) ==
  IF t = NoType THEN Fail(s, "cannot infer constructor type")
  ELSE Then(CtorOf(s, BaseType(t), e), LAMBDA s1, x :
         Done(s1, IF IsRef(t) THEN RefTimes(x, RefCount(t) - 1) ELSE x))

(***************************************************************************)
(* Statements                                                              *)
(***************************************************************************)
CheckRet(s, stmt) ==
  IF s.x.fun = <<>> THEN Fail(s, "return outside of a function")
  ELSE Then(CheckExpr(s, RetType(s.x.fun[1]), stmt.e), LAMBDA s1, x : Done(s1, <<RetS(x)>>))

\* A variable with a type is always new; one without is if there is none of its name.
NewVar(s, a) ==
  Done(AddLocal(s, Local(a.n, IF a.t = <<>> THEN NoType ELSE a.t[1], a.t # <<>>)),
       [v |-> NewLocal(s, a.n), new |-> TRUE])
Assigned(s, a, found) ==
  CASE found = <<>> -> NewVar(s, a)
    [] Len(found) > 1 -> Fail(s, "ambiguous")
    [] Len(found) = 1 /\ found[1].k = "fun" -> Fail(s, "assignment to a function")
    [] Len(found) = 1 /\ found[1].k # "fun" -> Done(MarkCapture(s, found[1]), [v |-> found[1], new |-> FALSE])
CheckAssignVar(s, a) == Assigned(s, a, IF a.t = <<>> THEN FindIdent(s, a.n) ELSE <<>>)
Inferred(s, a, t) == IF a.new /\ ~HasTypeName(s, a.v) THEN SetLocalType(s, a.v, t) ELSE s

\* x.newID
TmpName(s) == "$" \o ToString(<<Len(s.x.frames), Len(TopFrame(s).locals)>>)
\* As many variables as messages: each is assigned the result of its message to the one receiver.
CheckAssigns(s, vars, e) ==
  Then(CheckExpr(s, NoType, e.recv[1]), LAMBDA s1, recv :
    LET tmp == NewLocal(s1, TmpName(s1))
    IN Then(Each(AddLocal(s1, [Local(tmp.n, recv.t, TRUE) EXCEPT !.used = TRUE]), [i \in DOMAIN vars |-> i], LAMBDA s2, i :
              Then(CheckMsg(s2, IF HasTypeName(s2, vars[i].v) THEN TypeOfVar(s2, vars[i].v) ELSE NoType, recv.t, e.msgs[i]),
                   LAMBDA s3, m : Done(Inferred(s3, vars[i], m.t),
                                       Assign(vars[i].v, Call(<<Ident(tmp, FALSE, RefTo(recv.t))>>, <<m>>))))),
            LAMBDA s2, stmts : Done(s2, <<Assign(tmp, recv)>> \o stmts)))
CheckAssign(s, stmt) ==
  Then(Each(s, stmt.vars, CheckAssignVar), LAMBDA s1, vars :
    IF Len(vars) = 1
    THEN Then(CheckExpr(s1, TypeOfVar(s1, vars[1].v), stmt.e), LAMBDA s2, x :
           Done(Inferred(s2, vars[1], x.t), <<Assign(vars[1].v, x)>>))
    ELSE IF stmt.e.k # "call" \/ Len(stmt.e.msgs) # Len(vars) THEN Fail(s1, "assignment count mismatch")
    ELSE CheckAssigns(s1, vars, stmt.e))

\* Of the last expression, the result of a block or value, a Nil that is wanted is made.
CheckLast(s, want, e) ==
  Then(PlainExpr(s, want, e), LAMBDA s1, x :
    IF want = NilT /\ BaseType(x.t) # NilT THEN Done(s1, <<x, NilLiteral>>)
    ELSE Then(ConvertExpr(s1, want, x), LAMBDA s2, y : Done(s2, <<y>>)))
CheckStmt(s, want, stmt, last) ==
  CASE stmt.k = "ret" -> CheckRet(s, stmt)
    [] stmt.k = "asg" -> CheckAssign(s, stmt)
    [] OTHER -> IF last THEN CheckLast(s, want, stmt)
                ELSE Then(CheckExpr(s, NoType, stmt), LAMBDA s1, x : Done(s1, <<x>>))
UnusedLocal(s) == \E i \in DOMAIN TopFrame(s).locals : TopFrame(s).locals[i].n # "_" /\ ~TopFrame(s).locals[i].used
CheckAll(s, want, stmts) ==
  IF stmts = <<>> THEN Done(s, <<NilLiteral>>)
  ELSE Then(Each(s, [i \in DOMAIN stmts |-> i], LAMBDA s1, i : CheckStmt(s1, want, stmts[i], i = Len(stmts))),
            LAMBDA s1, checked :
              IF UnusedLocal(s1) THEN Fail(s1, "declared and not used") ELSE Done(s1, SeqX!FlattenSeq(checked)))

(***************************************************************************)
(* Definitions                                                             *)
(***************************************************************************)
Body(s, stmts) == [locals |-> TopFrame(s).locals, stmts |-> stmts]
IfacesOf(parms) == SeqX!FlattenSeq([i \in DOMAIN parms |-> parms[i].ifaces])
CheckVal(s, d) ==
  LET want == s.valTypes[d.id]
  IN Then(CheckTypeNames(Enter(s, Frame("val", <<>>)), d.t), LAMBDA s1, none : Then(CheckStmts(s1, want, d.stmts), LAMBDA s2, stmts :
       Done([s2 EXCEPT !.bodies = (d.id :> Body(s2, stmts)) @@ @,
                       !.valTypes[d.id] = IF want # NoType THEN want
                                          ELSE IF IsExpr(Last(stmts)) THEN Last(stmts).t ELSE NilT], <<>>)))

\* The types that the source of a statement or expression names.
RECURSIVE NamedTypes(_)
AllNamed(es) == UNION {NamedTypes(es[i]) : i \in DOMAIN es}
TypesOfVars(vs) == UNION {SeqX!ToSet(vs[i].t) : i \in DOMAIN vs}
NamedTypes(e) ==
  CASE e.k = "call"  -> AllNamed(e.recv) \cup UNION {AllNamed(e.msgs[i].args) : i \in DOMAIN e.msgs}
    [] e.k = "ctor"  -> AllNamed(e.args)
    [] e.k = "block" -> TypesOfVars(e.parms) \cup AllNamed(e.stmts)
    [] e.k = "asg"   -> TypesOfVars(e.vars) \cup NamedTypes(e.e)
    [] e.k = "ret"   -> NamedTypes(e.e)
    [] OTHER         -> {}
\* A type variable of a function must be named in it, but for a receiver's that is called _.
HasUnusedTypeVar(d) ==
  LET parms == (IF d.recv = <<>> THEN <<>> ELSE d.recv[1].parms) \o d.tparms
      named == SeqX!ToSet(IfacesOf(parms) \o d.ret) \cup {d.parms[i].t : i \in DOMAIN d.parms}
                 \cup UNION {AllNamed(d.stmts[i]) : i \in DOMAIN d.stmts}
      vars  == {v \in SeqX!ToSet(RecvVars(d)) : v.n # "_"} \cup SeqX!ToSet(OwnVars(d))
  IN \E v \in vars : \A t \in named : ~HasVar({v}, t)

NilRet == RetS(Deref(Ctor(0, <<>>, RefTo(NilT))))
WithNilRet(d, stmts) ==
  IF d.ret # <<>> THEN stmts ELSE IF d.stmts[1] = <<>> THEN <<NilRet>> ELSE Append(stmts, NilRet)
CheckFun(s, d) ==
  LET f     == DefFun(d.id)
      types == (IF d.recv = <<>> THEN <<>> ELSE IfacesOf(d.recv[1].parms)) \o IfacesOf(d.tparms)
                  \o [i \in DOMAIN Parms(f) |-> Parms(f)[i].t] \o Ret(f)
      start == [s EXCEPT !.x.fun = <<f>>, !.x.frames = <<Frame("fun", Parms(f))>>]
  IN IF IsRef(f.recv) THEN Fail(s, "cannot add a method to &")
     ELSE IF HasUnusedTypeVar(d) THEN Fail(s, "defined and not used")
     ELSE Then(CheckTypeNames(start, types), LAMBDA s1, none :
       IF d.stmts = <<>> THEN Done(s1, <<>>)
       ELSE Then(CheckStmts(s1, NoType, d.stmts[1]), LAMBDA s2, stmts :
         IF d.ret # <<>> /\ Last(stmts).k # "Ret" THEN Fail(s2, "missing return")
         ELSE Done([s2 EXCEPT !.bodies = (d.id :> Body(s2, WithNilRet(d, stmts))) @@ @],
                   <<>>)))

\* The names of the fields, cases (in lower case) or methods of a type differ, and the types in it, those of
\* its parameters' constraints included, are types.
Redefined(names) == \E i, j \in DOMAIN names : i # j /\ names[i] = names[j]
CheckType(s, d) ==
  LET names == [i \in DOMAIN d.fields |-> d.fields[i].n] \o [i \in DOMAIN d.cases |-> d.cases[i].n]
                 \o [i \in DOMAIN d.virts |-> d.virts[i].sel]
      sigs  == SeqX!FlattenSeq([i \in DOMAIN d.virts |-> d.virts[i].parms \o d.virts[i].ret])
  IN IF Redefined(names) THEN Fail(s, "redefined")
     ELSE CheckTypeNames(s, IfacesOf(d.parms) \o [i \in DOMAIN d.fields |-> d.fields[i].t]
                              \o SeqX!FlattenSeq([i \in DOMAIN d.cases |-> d.cases[i].t]) \o sigs)

\* A value is checked when it is first used, and then the definition that uses it goes on.
CheckDefBody(s, id) ==
  LET d == Def(id)
      begun == [s EXCEPT !.checked = @ \cup {id}, !.x = [NoScope EXCEPT !.file = d.file]]
  IN IF id \in s.checked \/ d.builtin \in {"case", "virt"} THEN Done(s, <<>>)
     ELSE Then(CASE d.k = "val"  -> CheckVal(begun, d)
                 [] d.k = "fun"  -> CheckFun(begun, d)
                 [] d.k = "type" -> CheckType(begun, d),
               LAMBDA s1, none : Done([s1 EXCEPT !.x = s.x], <<>>))

(***************************************************************************)
(* Blocks and identifiers                                                  *)
(***************************************************************************)
\* The type of a block that ends in stmt; one that does not end in a value has Nil added.
ResultType(stmt, infer) ==
  IF stmt.k = "Ret" \/ IsPanic(stmt) THEN (IF infer = NoType THEN NilT ELSE infer)
  ELSE IF IsExpr(stmt) THEN stmt.t ELSE NilT
WithResult(stmts) == IF Last(stmts).k = "Assign" THEN Append(stmts, NilLiteral) ELSE stmts
CheckBlock(s, infer, e) ==
  LET inferred(i) == IF IsFun(infer) /\ i <= Len(infer.args) THEN infer.args[i] ELSE NoType
      result      == IF IsFun(infer) THEN Last(infer.args) ELSE NoType
      parms       == <<>> \o [i \in DOMAIN e.parms |->
                       [n |-> e.parms[i].n, typed |-> e.parms[i].t # <<>>,
                        t |-> IF e.parms[i].t = <<>> THEN inferred(i) ELSE e.parms[i].t[1]]]
      types       == [i \in DOMAIN parms |-> parms[i].t]
  IN IF \E i \in DOMAIN parms : parms[i].t = NoType THEN Fail(s, "cannot infer block parameter type")
     ELSE Then(Each(s, e.parms, LAMBDA s1, p : CheckTypeNames(s1, p.t)), LAMBDA s1, none :
       Then(CheckStmts(Enter(s1, Frame("block", parms)), result, e.stmts), LAMBDA s2, stmts :
         IF Len(parms) >= MaxValueParms THEN Fail(s2, "too many block parameters")
         ELSE LET rt == ResultType(Last(stmts), result)
                  t  == IF rt = NoType THEN NoType ELSE FunT(types, rt)
              IN Done(Leave(s2), Block(TopFrame(s2), IF rt = NoType THEN stmts ELSE WithResult(stmts), t))))

ReadVar(s, v) ==
  LET t == TypeOfVar(s, v)
  IN IF t = NoType THEN Done(s, Ident(v, FALSE, NoType))
     ELSE Done(MarkCapture(s, v), Deref(Ident(v, Captures(s, v), RefTo(t))))
CheckFound(s, infer, name, found) ==
  CASE found = <<>>   -> Fail(s, "not found")
    [] Len(found) > 1 -> Fail(s, "ambiguous")
    [] Len(found) = 1 /\ found[1].k = "fun" -> Then(CheckMsg(s, infer, NoType, [sel |-> <<name>>, args |-> <<>>]), LAMBDA s1, m : Done(s1, Call(<<>>, <<m>>)))
    [] Len(found) = 1 /\ found[1].k # "fun" ->
         Then(IF found[1].k = "val" THEN CheckDef(s, found[1].n) ELSE Done(MarkUsed(s, found[1]), <<>>), LAMBDA s1, none :
           ReadVar(s1, found[1]))
CheckIdent(s, infer, e) == CheckFound(s, infer, e.n, FindIdent(s, e.n))

\* _checkExpr
Plain(s, infer, e) ==
  CASE e.k = "int"   -> Done(s, Lit(IntT))
    [] e.k = "str"   -> Done(s, Lit(StringT))
    [] e.k = "id"    -> CheckIdent(s, infer, e)
    [] e.k = "call"  -> CheckCall(s, infer, e)
    [] e.k = "ctor"  -> CheckCtor(s, infer, e)
    [] e.k = "block" -> CheckBlock(s, infer, e)
    [] e.k = "stmts" -> CheckAll(s, infer, e.stmts)
    [] e.k = "def"   -> CheckDefBody(s, e.id)
Expr(s, infer, e, convert) ==
  Then(Plain(s, infer, e), LAMBDA s1, x : IF convert THEN ConvertExpr(s1, infer, x) ELSE Done(s1, x))
=============================================================================
