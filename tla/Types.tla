------------------------------- MODULE Types -------------------------------
(***************************************************************************)
(* The types and definitions of package types: what tree.go, sub.go,       *)
(* builtin.go and scope.go say of them without changing anything.          *)
(*                                                                         *)
(* Types are values.  The code compares them as pointers; instType makes   *)
(* one Type of a definition and its arguments, so equal values stand for   *)
(* the same pointer.  The names of types are given resolved (findType),    *)
(* aliases by what they stand for.                                         *)
(***************************************************************************)
EXTENDS Integers, Sequences, TLC

SeqX == INSTANCE SequencesExt

VARIABLE prog    \* what is checked: the modules, their files and their definitions

(***************************************************************************)
(* Types: the module and name of the definition, and the arguments; or a   *)
(* type variable of the definition var[1].  Of the variables of a method   *)
(* with an instantiated receiver, var[2] is that receiver: subTypeParms    *)
(* makes new ones.                                                         *)
(***************************************************************************)
Ty(m, n, args)        == [m |-> m, n |-> n, args |-> args, var |-> <<>>]
Var(m, n, def)        == [m |-> m, n |-> n, args |-> <<>>, var |-> <<def>>]
VarCopy(v, recv)      == [m |-> "", n |-> v.n, args |-> <<>>, var |-> <<v.var[1], recv>>]
BuiltInType(n, args)  == Ty("", n, args)
RefTo(t)              == BuiltInType("&", <<t>>)
NilT                  == BuiltInType("Nil", <<>>)
IntT                  == BuiltInType("Int", <<>>)
StringT               == BuiltInType("String", <<>>)
FunT(parms, ret)      == BuiltInType("Fun", Append(parms, ret))
NoType                == Ty("", "", <<>>)      \* the nil *Type

IsVar(t) == t.var # <<>>
IsRef(t) == t.m = "" /\ t.n = "&"
IsFun(t) == t.m = "" /\ t.n = "Fun"
Last(s)  == s[Len(s)]

RECURSIVE BaseType(_), RefCount(_)
BaseType(t) == IF IsRef(t) THEN BaseType(t.args[1]) ELSE t
RefCount(t) == IF IsRef(t) THEN 1 + RefCount(t.args[1]) ELSE 0

RECURSIVE IsGround(_)
IsGround(t) == ~IsVar(t) /\ t # NoType /\ \A i \in DOMAIN t.args : IsGround(t.args[i])

(***************************************************************************)
(* Substitution: sub is a function on type variables.                      *)
(***************************************************************************)
NoSub == <<>>
RECURSIVE SubType(_, _)
SubTypes(sub, ts) == <<>> \o [i \in DOMAIN ts |-> SubType(sub, ts[i])]
SubType(sub, t) ==
  IF t \in DOMAIN sub THEN sub[t] ELSE IF t.args = <<>> THEN t ELSE [t EXCEPT !.args = SubTypes(sub, @)]
SubMap(vars, ts) == [v \in {vars[i] : i \in DOMAIN vars} |-> ts[CHOOSE i \in DOMAIN vars : vars[i] = v]]

RECURSIVE HasVar(_, _)
HasVar(vars, t) == t \in vars \/ \E i \in DOMAIN t.args : HasVar(vars, t.args[i])

(***************************************************************************)
(* What a substitution must be for the variables vars of pat to make it    *)
(* typ, given what it is already; ok is FALSE if there is none.            *)
(***************************************************************************)
RECURSIVE Unify(_, _, _, _), UnifyArgs(_, _, _, _, _)
Unify(pat, typ, vars, r) ==
  CASE ~r.ok -> r
    [] pat \in vars -> IF pat \notin DOMAIN r.sub THEN [r EXCEPT !.sub = @ @@ (pat :> typ)]
                       ELSE [r EXCEPT !.ok = r.sub[pat] = typ]
    [] pat = NoType \/ typ = NoType -> r
    [] OTHER -> IF pat.m = typ.m /\ pat.n = typ.n /\ Len(pat.args) = Len(typ.args)
                THEN UnifyArgs(pat, typ, vars, r, 1)
                ELSE [r EXCEPT !.ok = FALSE]
UnifyArgs(pat, typ, vars, r, i) ==
  IF i > Len(pat.args) THEN r
  ELSE UnifyArgs(pat, typ, vars, Unify(pat.args[i], typ.args[i], vars, r), i + 1)

(***************************************************************************)
(* Definitions                                                             *)
(***************************************************************************)
Def(id)    == prog.defs[id]
TypeDef(t) == Def(t.m \o "." \o t.n \o ToString(Len(t.args)))
HasDef(t)  == ~IsVar(t) /\ t # NoType
VarsOf(d)  == <<>> \o [i \in DOMAIN d.parms |-> Var(d.mod, d.parms[i].n, d.id)]
BodySub(t) == SubMap(VarsOf(TypeDef(t)), t.args)

\* The signature of a method of a virtual type, of its parameters without self.
SigSub(sub, sig) == [sel |-> sig.sel, parms |-> SubTypes(sub, sig.parms), ret |-> SubTypes(sub, sig.ret)]
SubVars(sub, vs) == <<>> \o [i \in DOMAIN vs |-> [n |-> vs[i].n, t |-> SubType(sub, vs[i].t)]]

Fields(t) == IF HasDef(t) THEN SubVars(BodySub(t), TypeDef(t).fields) ELSE <<>>
Virts(t)  == IF HasDef(t) THEN <<>> \o [i \in DOMAIN TypeDef(t).virts |-> SigSub(BodySub(t), TypeDef(t).virts[i])]
             ELSE <<>>
\* The type of a case is a sequence of none or one.
Cases(t)  ==
  IF HasDef(t) THEN <<>> \o [i \in DOMAIN TypeDef(t).cases |->
                               [n |-> TypeDef(t).cases[i].n, t |-> SubTypes(BodySub(t), TypeDef(t).cases[i].t)]]
  ELSE <<>>

(***************************************************************************)
(* Functions and their instances.  The instance of a definition is told    *)
(* by its receiver, type arguments and the file that calls it; file is ""  *)
(* of the definition itself.                                               *)
(***************************************************************************)
Fun(def, recv, targs, file) == [def |-> def, recv |-> recv, targs |-> targs, file |-> file]
RecvOf(d)      == IF d.recv = <<>> THEN NoType ELSE d.recv[1].t
DefFun(id)     == Fun(id, RecvOf(Def(id)), <<>>, "")
RecvVars(d)    == IF d.recv = <<>> THEN <<>> ELSE d.recv[1].t.args
OwnVars(d)     == <<>> \o [i \in DOMAIN d.tparms |-> Var(d.mod, d.tparms[i].n, d.id)]
IsCopied(f)    == f.recv # RecvOf(Def(f.def))
\* The type variables of f that a call has still to find.
FunVars(f) ==
  IF IsCopied(f) THEN <<>> \o [i \in DOMAIN OwnVars(Def(f.def)) |-> VarCopy(OwnVars(Def(f.def))[i], f.recv)]
  ELSE OwnVars(Def(f.def))
\* What the variables of the definition are in f.
FunSub(f) ==
  SubMap(RecvVars(Def(f.def)), f.recv.args) @@ SubMap(OwnVars(Def(f.def)), IF f.targs = <<>> THEN FunVars(f) ELSE f.targs)
\* The parameters, the first of a method being self, and none or one result type.
ArgParms(f) == SubVars(FunSub(f), Def(f.def).parms)
Parms(f)    == (IF Def(f.def).recv = <<>> THEN <<>> ELSE <<[n |-> "self", t |-> f.recv]>>) \o ArgParms(f)
Ret(f)      == SubTypes(FunSub(f), Def(f.def).ret)
RetType(f)  == IF Def(f.def).ret = <<>> THEN NilT ELSE Ret(f)[1]

IsGroundFun(f) ==
  /\ \A i \in DOMAIN f.targs : IsGround(f.targs[i])
  /\ Len(f.targs) = Len(Def(f.def).tparms)
  /\ Def(f.def).recv # <<>> => IsGround(f.recv)

\* The constraints of a type variable.
Ifaces(v) ==
  LET d     == Def(v.var[1])
      parms == (IF d.recv = <<>> THEN <<>> ELSE d.recv[1].parms) \o d.tparms
      i     == CHOOSE i \in DOMAIN parms : parms[i].n = v.n
      sub   == IF Len(v.var) = 1 THEN NoSub ELSE FunSub(Fun(d.id, v.var[2], <<>>, ""))
  IN SubTypes(sub, parms[i].ifaces)

(***************************************************************************)
(* Names                                                                   *)
(***************************************************************************)
DefsOf(mod)   == SelectSeq(prog.order, LAMBDA id : Def(id).mod = mod)
First(ids)    == IF ids = <<>> THEN <<>> ELSE <<ids[1]>>
Exported(ids) == SelectSeq(ids, LAMBDA id : ~Def(id).priv)

\* A method is told by the name and the number of parameters of its receiver's type alone.
FindFunInDefs(recv, sel, mod) ==
  First(SelectSeq(DefsOf(mod), LAMBDA id :
    /\ Def(id).k = "fun" /\ Def(id).sel = sel
    /\ (recv = NoType) = (Def(id).recv = <<>>)
    /\ recv # NoType => RecvOf(Def(id)).n = recv.n /\ Len(RecvOf(Def(id)).args) = Len(recv.args)))
FindIdentInDefs(name, mod) ==
  SelectSeq(DefsOf(mod), LAMBDA id :
    \/ Def(id).k = "fun" /\ Def(id).recv = <<>> /\ Def(id).sel = <<name>>
    \/ Def(id).k = "val" /\ Def(id).n = name)

\* The modules that file imports with all their names, and all that it imports.
ImportedAll(file) == SelectSeq(prog.files[file].imports, LAMBDA imp : imp.all)
Imported(file)    == {prog.files[file].imports[i].mod : i \in DOMAIN prog.files[file].imports}

\* What is seen from file: none, one, or several that it cannot choose from.
Seen(file, InMod(_), InImport(_)) ==
  LET imps     == ImportedAll(file)
      imported == SeqX!FlattenSeq([i \in DOMAIN imps |-> InImport(imps[i].mod)])
      own      == InMod(prog.files[file].mod)
  IN IF imported # <<>> THEN imported ELSE IF own # <<>> THEN own ELSE InMod("")
FindFunSeen(file, recv, sel) ==
  Seen(file, LAMBDA mod : FindFunInDefs(recv, sel, mod), LAMBDA mod : Exported(FindFunInDefs(recv, sel, mod)))
FindIdentSeen(file, name) ==
  Seen(file, LAMBDA mod : First(FindIdentInDefs(name, mod)),
             LAMBDA mod : First(Exported(FindIdentInDefs(name, mod))))
\* A method that is not seen is looked for with the definition of the receiver's type.
FindFun(file, recv, sel) ==
  LET seen == FindFunSeen(file, recv, sel)
  IN IF seen = <<>> /\ recv # NoType /\ recv.m \in Imported(file)
     THEN Exported(FindFunInDefs(recv, sel, recv.m)) ELSE seen
=============================================================================
