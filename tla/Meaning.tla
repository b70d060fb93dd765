------------------------------ MODULE Meaning ------------------------------
(***************************************************************************)
(* What a checked tree means: the language, with neither basic blocks nor  *)
(* places for results.  Variables have addresses, messages are calls,      *)
(* blocks are closures over the variables around them, and ^ ends the call *)
(* of the function in which it is written.                                 *)
(*                                                                         *)
(* Memory and values are those of GoCode: a value is a sequence of cells,  *)
(* and a function is the number of a closure, and 0.                       *)
(***************************************************************************)
EXTENDS Build, GoCode

\* As many calls are followed.
Calls == 100
\* The machine also has the closures, the value of the last expression and the calls that are left.
Abstract == [clos |-> <<>>, val |-> <<>>, fuel |-> Calls] @@ Machine

Going(s)     == s.out = "go"
Give(s, v)   == [s EXCEPT !.val = v]
\* A new place for the value v.
Place(s, v)  == [s EXCEPT !.mem = @ \o v, !.val = <<Len(s.mem) + 1>>]
\* The variables vs have places of their own, with the values vals.
Bound(s, env, vs, vals) ==
  SeqX!FoldLeft(LAMBDA r, i : [s |-> Place(r.s, vals[i]), env |-> (vs[i].n :> Len(r.s.mem) + 1) @@ r.env],
                [s |-> s, env |-> env], [i \in DOMAIN vs |-> i])
Unset(vs) == [i \in DOMAIN vs |-> Zeros(Size(vs[i].t))]

RECURSIVE Eval(_, _, _, _), EvalAll(_, _, _, _), Run(_, _, _, _), CallFun(_, _, _, _)
\* A frame fr has the addresses of the variables, that of self, and the token of the home.

\* The values of xs.
EvalAll(P, fr, xs, s) ==
  SeqX!FoldLeft(LAMBDA r, x : IF ~Going(r.s) THEN r
                              ELSE With(Eval(P, fr, x, r.s), LAMBDA t : [s |-> t, vs |-> Append(r.vs, t.val)]),
                [s |-> s, vs |-> <<>>], xs)

AddressOf(fr, v, s) ==
  IF v.field > 0 THEN fr.self + Offset(fr.selfType, v.field) ELSE fr.env[v.n]

\* Statements; the value of the last one is that of a block.
Step(P, fr, x, s) ==
  CASE x.e = "Return" -> With(Eval(P, fr, x.of, s), LAMBDA t : IF Going(t) THEN [t EXCEPT !.out = "far", !.to = fr.home] ELSE t)
    [] x.e = "Assign" -> With(Eval(P, fr, x.of, s), LAMBDA t :
                              IF Going(t) THEN Give(Write(t, AddressOf(fr, x.v, t), t.val), <<>>) ELSE t)
    [] OTHER -> Eval(P, fr, x, s)
Run(P, fr, stmts, s) ==
  SeqX!FoldLeft(LAMBDA t, x : IF Going(t) THEN Step(P, fr, x, t) ELSE t, Give(s, <<>>), stmts)

\* A function of P is called with values; self is an address.
CallFun(P, name, args, s) ==
  IF name = "out:" THEN Give([s EXCEPT !.log = Append(@, args[1][1])], <<>>)
  ELSE IF s.fuel = 0 THEN [s EXCEPT !.out = "hang"]
  ELSE
    LET f == P[name]
        self == IF f.self THEN args[1][1] ELSE 0
        env == IF f.self THEN f.parms[1].n :> self ELSE <<>>
        parms == IF f.self THEN Tail(f.parms) ELSE f.parms
        vals == IF f.self THEN Tail(args) ELSE args
        home == s.tok + 1
        Home(b) == Run(P, [env |-> b.env, self |-> self, selfType |-> IF f.self THEN f.parms[1].t ELSE NilT, home |-> home], f.stmts, b.s)
        Returned(t) == CASE t.out = "far" /\ t.to = home -> [t EXCEPT !.out = "go"]
                         [] t.out = "go" -> Give(t, <<>>)
                         [] OTHER -> t
    IN Returned(Home(Bound([s EXCEPT !.tok = home, !.fuel = @ - 1], env, parms \o f.locals, vals \o Unset(f.locals))))
\* The closure at an address is called.
Invoke(P, at, args, s) ==
  IF s.fuel = 0 THEN [s EXCEPT !.out = "hang"]
  ELSE IF s.mem[at] = 0 THEN Crash(s)
  ELSE With(s.clos[s.mem[at]], LAMBDA c :
       With(Bound([s EXCEPT !.fuel = @ - 1], c.fr.env, c.x.parms \o c.x.locals, args \o Unset(c.x.locals)), LAMBDA b :
            Run(P, [c.fr EXCEPT !.env = b.env], c.x.stmts, b.s)))

\* A message to the receiver with the value recv, the address of a type; <<>> if there is none.
Sent(P, fr, recv, type, m, s) ==
  With(EvalAll(P, fr, m.args, s), LAMBDA a :
    CASE ~Going(a.s) -> a.s
      [] Going(a.s) /\ m.fun \in OpNames ->
           LET x == a.s.mem[recv[1]] y == a.vs[1][1] IN
           Give(a.s, <<CASE m.fun = "+" -> x + y [] m.fun = "-" -> x - y
                         [] m.fun = "<=" -> IF x <= y THEN 1 ELSE 0
                         [] m.fun = "="  -> IF x = y THEN 1 ELSE 0>>)
      [] Going(a.s) /\ m.fun = "panic:" -> [a.s EXCEPT !.out = "panic"]
      [] Going(a.s) /\ m.fun = "value" -> Invoke(P, recv[1], a.vs, a.s)
      [] Going(a.s) /\ m.fun = "case" ->
           LET tag == a.s.mem[recv[1]]
               i == IF type.k = "Bool" THEN 2 - tag ELSE tag + 1
               part == IF type.k = "Bool" THEN NilT ELSE type.parts[i]
               f == Place(a.s, a.vs[i])
           IN Invoke(P, f.val[1],
                     IF part.k = "Nil" THEN <<>> ELSE <<Cells(a.s, recv[1] + Offset(type, i), Size(part))>>, f)
      [] OTHER -> CallFun(P, m.fun, (IF recv = <<>> THEN <<>> ELSE <<recv>>) \o a.vs, a.s))

Eval(P, fr, x, s) ==
  CASE ~Going(s) -> s
    [] Going(s) /\ x.e = "Int" -> Give(s, <<x.i>>)
    [] Going(s) /\ x.e = "Id"  -> Give(s, <<AddressOf(fr, x.v, s)>>)
    [] Going(s) /\ x.e = "Call" ->
         LET type == IF x.recv = <<>> THEN NilT ELSE TypeOf(x.recv[1]).t
             Next(recv, t, m) == IF Going(t) THEN Sent(P, fr, recv, type, m, t) ELSE t
             All(r) == SeqX!FoldLeft(LAMBDA t, m : Next(r.val, t, m), r, x.msgs)
         IN All(IF x.recv = <<>> THEN Give(s, <<>>) ELSE Eval(P, fr, x.recv[1], s))
    [] Going(s) /\ x.e = "Ctor" ->
         With(EvalAll(P, fr, x.args, s), LAMBDA a : IF Going(a.s) THEN Place(a.s, SeqX!FlattenSeq(a.vs)) ELSE a.s)
    [] Going(s) /\ x.e = "Case" ->
         With(EvalAll(P, fr, x.args, s), LAMBDA a :
           CASE ~Going(a.s) -> a.s
             [] Going(a.s) /\ x.type.k = "Bool" -> Place(a.s, <<2 - x.i>>)
             [] OTHER -> Place(a.s, <<x.i - 1>> \o SeqX!FlattenSeq([i \in DOMAIN x.type.parts |->
                                IF i = x.i /\ a.vs # <<>> THEN a.vs[1] ELSE Zeros(Size(x.type.parts[i]))])))
    [] Going(s) /\ x.e = "Ref" ->
         With(Eval(P, fr, x.of, s), LAMBDA t : IF Going(t) THEN Place(t, t.val) ELSE t)
    [] Going(s) /\ x.e = "Deref" ->
         With(Eval(P, fr, x.of, s), LAMBDA t :
              IF Going(t) THEN Give(t, Cells(t, t.val[1], Size(TypeOf(x)))) ELSE t)
    [] Going(s) /\ x.e = "Block" ->
         Give([s EXCEPT !.clos = Append(@, [x |-> x, fr |-> fr])], <<Len(s.clos) + 1, 0>>)

\* What a call of main with numbers means.
Meant(P, args) ==
  LET s == CallFun(P, "main", [i \in DOMAIN args |-> <<args[i]>>], Abstract)
  IN [out |-> s.out, log |-> s.log, val |-> IF s.out = "go" THEN s.val[1] ELSE 0]
=============================================================================
