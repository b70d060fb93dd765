---------------------------- MODULE TypedSamples ----------------------------
(***************************************************************************)
(* Sources for the type checker: a part of the built-in module, a library  *)
(* with parameterized types and functions, two modules that give Int the   *)
(* method show each in its own way, and a main module of two files, each   *)
(* of which imports one of the two.                                        *)
(***************************************************************************)
EXTENDS Checking

(***************************************************************************)
(* Writing sources                                                         *)
(***************************************************************************)
Blank == [k |-> "", id |-> "", mod |-> "", file |-> "", priv |-> FALSE, builtin |-> "", n |-> "", parms |-> <<>>,
          fields |-> <<>>, cases |-> <<>>, virts |-> <<>>, recv |-> <<>>, tparms |-> <<>>, sel |-> <<>>, ret |-> <<>>,
          stmts |-> <<>>, t |-> <<>>]
P(name, t)        == [n |-> name, t |-> t]
TParm(n, ifaces)  == [n |-> n, ifaces |-> ifaces]
Sig(sel, parms, ret) == [sel |-> sel, parms |-> parms, ret |-> ret]
TypeSrc(file, m, n, parms) ==
  [Blank EXCEPT !.k = "type", !.id = m \o "." \o n \o ToString(Len(parms)), !.mod = m, !.file = file, !.n = n, !.parms = parms]
FunSrc(file, m, id, tparms, sel, parms, ret, stmts) ==
  [Blank EXCEPT !.k = "fun", !.id = id, !.mod = m, !.file = file, !.tparms = tparms, !.sel = sel, !.parms = parms,
                !.ret = ret, !.stmts = <<stmts>>]
Meth(recv, parms, fun) == [fun EXCEPT !.recv = <<[t |-> recv, parms |-> parms]>>]
ValSrc(file, m, n, t, stmts) ==
  [Blank EXCEPT !.k = "val", !.id = m \o "." \o n, !.mod = m, !.file = file, !.n = n, !.t = t, !.stmts = stmts]

Id(n)          == [k |-> "id", n |-> n]
One            == [k |-> "int"]
Str            == [k |-> "str"]
M(sel, args)   == [sel |-> sel, args |-> args]
Send(x, m)     == [k |-> "call", recv |-> <<x>>, msgs |-> <<m>>]
Cascade(x, ms) == [k |-> "call", recv |-> <<x>>, msgs |-> ms]
CallF(sel, args) == [k |-> "call", recv |-> <<>>, msgs |-> <<M(sel, args)>>]
New(args)      == [k |-> "ctor", args |-> args]
Blk(parms, stmts) == [k |-> "block", parms |-> parms, stmts |-> stmts]
Any1(n)        == [n |-> n, t |-> <<>>]
Typed(n, t)    == [n |-> n, t |-> <<t>>]
Return(e)      == [k |-> "ret", e |-> e]
Let(vs, e)     == [k |-> "asg", vars |-> vs, e |-> e]

Kw(part)       == <<part, "">>     \* part:
Kw3(a)         == <<a, a, a, "">>
Kw2(a, b)      == <<a, b, "">>     \* a:b:

(***************************************************************************)
(* The built-in module                                                     *)
(***************************************************************************)
FunParm == <<"T", "U", "V", "W">>
UnivDefs ==
  << TypeSrc("u", "", "&", <<TParm("_", <<>>)>>),
     TypeSrc("u", "", "Nil", <<>>), TypeSrc("u", "", "Int", <<>>), TypeSrc("u", "", "String", <<>>),
     [TypeSrc("u", "", "Fun", <<TParm("T", <<>>)>>) EXCEPT !.virts = <<Sig(<<"value">>, <<>>, <<Var("", "T", ".Fun1")>>)>>],
     [TypeSrc("u", "", "Fun", <<TParm("T", <<>>), TParm("U", <<>>)>>) EXCEPT
        !.virts = <<Sig(Kw("value"), <<Var("", "T", ".Fun2")>>, <<Var("", "U", ".Fun2")>>)>>],
     [TypeSrc("u", "", "Fun", [i \in 1..4 |-> TParm(FunParm[i], <<>>)]) EXCEPT
        !.virts = <<Sig(Kw3("value"), [i \in 1..3 |-> Var("", FunParm[i], ".Fun4")], <<Var("", "W", ".Fun4")>>)>>],
     [FunSrc("u", "", "panic:", <<>>, Kw("panic"), <<P("_", StringT)>>, <<>>, <<>>) EXCEPT !.stmts = <<>>, !.builtin = "panic:"],
     Meth(IntT, <<>>, FunSrc("u", "", "Int+", <<>>, <<"+">>, <<P("x", IntT)>>, <<IntT>>,
                             <<Return(Send(Id("self"), M(<<"+">>, <<Id("x")>>)))>>)) >>

(***************************************************************************)
(* The library                                                             *)
(***************************************************************************)
Shower  == Ty("lib", "Shower", <<>>)
Box(t)  == Ty("lib", "Box", <<t>>)
Pair(t) == Ty("lib", "Pair", <<t>>)
Opt(t)  == Ty("lib", "Opt", <<t>>)
V(n, d) == Var("lib", n, d)
Show(x) == Send(x, M(<<"show">>, <<>>))
BoxMeth(id, t, constraint, tparms, sel, parms, ret, stmts) ==
  Meth(Box(V(t, id)), <<TParm(t, constraint)>>, FunSrc("l", "lib", id, tparms, sel, parms, ret, stmts))
LibDefs ==
  << [TypeSrc("l", "lib", "Shower", <<>>) EXCEPT !.virts = <<Sig(<<"show">>, <<>>, <<IntT>>)>>],
     [TypeSrc("l", "lib", "Box", <<TParm("T", <<>>)>>) EXCEPT !.fields = <<P("v", V("T", "lib.Box1"))>>],
     [TypeSrc("l", "lib", "Opt", <<TParm("T", <<>>)>>) EXCEPT
        !.cases = <<[n |-> <<"none">>, t |-> <<>>], [n |-> Kw("some"), t |-> <<V("T", "lib.Opt1")>>]>>],
     FunSrc("l", "lib", "twice:", <<TParm("T", <<Shower>>)>>, Kw("twice"), <<P("x", V("T", "twice:"))>>, <<IntT>>,
            <<Return(Send(Show(Id("x")), M(<<"+">>, <<Show(Id("x"))>>)))>>),
     FunSrc("l", "lib", "wrap:", <<TParm("T", <<>>)>>, Kw("wrap"), <<P("x", V("T", "wrap:"))>>, <<Box(V("T", "wrap:"))>>,
            <<Return(New(<<CallF(Kw("v"), <<Id("x")>>)>>))>>),
     BoxMeth("get", "T", <<>>, <<>>, <<"get">>, <<>>, <<V("T", "get")>>, <<Return(Id("v"))>>),
     BoxMeth("map:", "T", <<>>, <<TParm("U", <<>>)>>, Kw("map"), <<P("f", FunT(<<V("T", "map:")>>, V("U", "map:")))>>,
             <<Box(V("U", "map:"))>>,
             <<Return(New(<<CallF(Kw("v"), <<Send(Id("f"), M(Kw("value"), <<Id("v")>>))>>)>>))>>),
     BoxMeth("Box show", "_", <<Shower>>, <<>>, <<"show">>, <<>>, <<IntT>>,
             <<Return(Send(CallF(Kw("twice"), <<Id("v")>>), M(<<"+">>, <<Id("zero")>>)))>>),
     ValSrc("l", "lib", "zero", <<>>, <<One>>),
     [TypeSrc("l", "lib", "Pair", <<TParm("T", <<Shower>>)>>) EXCEPT !.fields = <<P("v", V("T", "lib.Pair1")), P("w", V("T", "lib.Pair1"))>>],
     Meth(Pair(V("_", "sum")), <<TParm("_", <<Shower>>)>>,
          FunSrc("l", "lib", "sum", <<>>, <<"sum">>, <<>>, <<IntT>>, <<Return(Send(Show(Id("v")), M(<<"+">>, <<Show(Id("w"))>>)))>>)),
     FunSrc("l", "lib", "sumOf:", <<TParm("T", <<Shower>>)>>, Kw("sumOf"), <<P("p", Pair(V("T", "sumOf:")))>>, <<IntT>>,
            <<Return(Send(Id("p"), M(<<"sum">>, <<>>)))>>),
     Meth(Opt(V("T", "or:")), <<TParm("T", <<>>)>>,
          FunSrc("l", "lib", "or:", <<>>, Kw("or"), <<P("d", V("T", "or:"))>>, <<V("T", "or:")>>,
            <<Return(Send(Id("self"), M(Kw2("ifnone", "ifsome"), <<Blk(<<>>, <<Id("d")>>), Blk(<<Any1("x")>>, <<Id("x")>>)>>)))>>)) >>

\* Two ways to show an Int: one gives a reference.
ShowDefs ==
  << Meth(IntT, <<>>, FunSrc("a", "liba", "Int show a", <<>>, <<"show">>, <<>>, <<IntT>>, <<Return(Id("self"))>>)),
     Meth(IntT, <<>>, FunSrc("b", "libb", "Int show b", <<>>, <<"show">>, <<>>, <<IntT>>,
            <<Return(Send(Id("self"), M(<<"+">>, <<One>>)))>>)) >>

(***************************************************************************)
(* The main module: a function with a constrained type parameter, called   *)
(* from both files for t.                                                  *)
(***************************************************************************)
T == Var("main", "T", "go:in:")
Goes(stmts) ==
  FunSrc("1", "main", "go:in:", <<TParm("T", <<Shower>>)>>, Kw2("go", "in"), <<P("x", T), P("y", Box(T))>>, <<IntT>>,
         stmts \o <<Return(Show(Id("x")))>>)
Starts(file, id, arg) ==
  FunSrc(file, "main", id, <<>>, <<id>>, <<>>, <<IntT>>,
         <<Return(CallF(Kw2("go", "in"), <<arg, CallF(Kw("wrap"), <<arg>>)>>))>>)
ImportAll(m) == [mod |-> m, all |-> TRUE]
Program(main) ==
  LET all == UnivDefs \o LibDefs \o ShowDefs \o main
      ids == {all[i].id : i \in DOMAIN all}
  IN [defs  |-> [id \in ids |-> all[CHOOSE i \in DOMAIN all : all[i].id = id]],
      order |-> [i \in DOMAIN all |-> all[i].id],
      mods  |-> <<"", "lib", "liba", "libb", "main">>,
      files |-> [u |-> [mod |-> "", imports |-> <<>>], l |-> [mod |-> "lib", imports |-> <<>>],
                 a |-> [mod |-> "liba", imports |-> <<>>], b |-> [mod |-> "libb", imports |-> <<>>]]
                @@ ("1" :> [mod |-> "main", imports |-> <<ImportAll("lib"), ImportAll("liba")>>])
                @@ ("2" :> [mod |-> "main", imports |-> <<ImportAll("lib"), ImportAll("libb")>>])]

\* Statements of go:in:, with variables of their own.
Get(x)   == Send(x, M(<<"get">>, <<>>))
Map(x, b) == Send(x, M(Kw("map"), <<b>>))
Pool(a, b) ==
  [call     |-> <<Show(Id("x"))>>,
   generic  |-> <<CallF(Kw("twice"), <<Id("x")>>)>>,
   local    |-> <<Let(<<Any1(a)>>, Id("x")), Show(Id(a))>>,
   block    |-> <<Send(Blk(<<>>, <<Show(Id("x"))>>), M(<<"value">>, <<>>))>>,
   get      |-> <<Show(Get(Id("y")))>>,
   map      |-> <<Show(Get(Map(Id("y"), Blk(<<Any1("i")>>, <<Id("i")>>))))>>,
   mapShow  |-> <<Map(Id("y"), Blk(<<Typed("i", T)>>, <<Show(Id("i"))>>))>>,
   curry    |-> <<Map(Id("y"), Blk(<<Typed("i", T)>>, <<Blk(<<>>, <<Show(Id("i")), Id("x")>>)>>))>>,
   opt      |-> <<Let(<<Typed(a, Opt(T))>>, New(<<CallF(Kw("some"), <<Id("x")>>)>>)), Show(Send(Id(a), M(Kw("or"), <<Id("x")>>)))>>,
   virt     |-> <<Let(<<Typed(a, Shower)>>, Id("x")), Show(Id(a))>>,
   assign   |-> <<Let(<<Any1("x")>>, Get(Id("y")))>>,
   cascade  |-> <<Let(<<Any1(a), Any1(b)>>, Cascade(Id("y"), <<M(<<"get">>, <<>>), M(<<"show">>, <<>>)>>)), Show(Id(a)), Show(Id(b))>>,
   self     |-> <<CallF(Kw2("go", "in"), <<Id("x"), Id("y")>>)>>,
   deeper   |-> <<CallF(Kw("twice"), <<Id("y")>>)>>,
   refs     |-> <<Let(<<Typed(a, RefTo(T))>>, Id("x")), Show(Id(a))>>,
   returns  |-> <<Send(Blk(<<>>, <<Return(Show(Id("y")))>>), M(<<"value">>, <<>>))>>,
   fails    |-> <<Let(<<Any1(a)>>, Blk(<<>>, <<CallF(Kw("panic"), <<Str>>)>>)), Send(Id(a), M(<<"value">>, <<>>))>>,
   value    |-> <<Show(Id("start"))>>,
   pair     |-> <<CallF(Kw("sumOf"), <<New(<<CallF(<<"w", "v", "">>, <<Id("x"), Get(Id("y"))>>)>>)>>)>>,
   shadow   |-> <<Show(Id("x")), Let(<<Typed("x", T)>>, Get(Id("y"))), Show(Id("x"))>>,
   pairs    |-> <<Let(<<Typed(a, Pair(T))>>, New(<<CallF(<<"v", "w", "">>, <<Id("x"), Id("x")>>)>>)), CallF(Kw("sumOf"), <<Id(a)>>)>>,
   lends    |-> <<Let(<<Any1(a)>>, Blk(<<Typed("p", Pair(T))>>, <<Send(Id("p"), M(<<"sum">>, <<>>))>>)),
                  Send(Id(a), M(Kw("value"), <<New(<<CallF(<<"v", "w", "">>, <<Id("x"), Id("x")>>)>>)>>))>>,
   virtual  |-> <<Let(<<Typed(a, Shower)>>, Id("x")), CallF(Kw("twice"), <<Id(a)>>)>>,
   wide     |-> <<Let(<<Any1(a)>>, Blk(<<Typed("i", T), Typed("j", T), Typed("l", T)>>, <<Show(Id("l"))>>)),
                  Send(Id(a), M(Kw3("value"), <<Id("x"), Id("x"), Get(Id("y"))>>))>>,
   wider    |-> <<Let(<<Any1(a)>>, Blk(<<Typed("i", T), Typed("j", T), Typed("l", T), Typed("m", T)>>, <<Show(Id("l"))>>)),
                  Id(a)>>,
   nested   |-> <<Let(<<Any1(a)>>, Id("x")),
                  Send(Blk(<<>>, <<Let(<<Any1(b)>>, Id(a)), Send(Blk(<<>>, <<Show(Id(b)), Show(Id(a))>>), M(<<"value">>, <<>>))>>), M(<<"value">>, <<>>))>>]
\* Statements that the checker has to refuse.
Wrong ==
  [argument  |-> <<Send(One, M(<<"+">>, <<Str>>))>>,
   result    |-> <<Return(Str)>>,
   unused    |-> <<Let(<<Any1("a")>>, Id("x"))>>,
   unknown   |-> <<Send(Id("x"), M(<<"hide">>, <<>>))>>,
   field     |-> <<Let(<<Typed("a", Box(T))>>, New(<<CallF(Kw("w"), <<Id("x")>>)>>)), Show(Id("a"))>>,
   twice     |-> <<Let(<<Typed("a", Pair(T))>>, New(<<CallF(<<"v", "v", "">>, <<Id("x"), Id("x")>>)>>)), Id("a")>>,
   missing   |-> <<Let(<<Typed("a", Pair(T))>>, New(<<CallF(Kw("v"), <<Id("x")>>)>>)), Id("a")>>,
   cas       |-> <<Let(<<Typed("a", Opt(T))>>, New(<<Id("all")>>)), Id("a")>>,
   payload   |-> <<Let(<<Typed("a", Opt(T))>>, New(<<CallF(Kw("some"), <<Id("y")>>)>>)), Id("a")>>,
   newVirt   |-> <<Let(<<Typed("a", Shower)>>, New(<<>>)), Id("a")>>,
   newInt    |-> <<Let(<<Typed("a", IntT)>>, New(<<>>)), Id("a")>>,
   notVirt   |-> <<Let(<<Typed("a", Shower)>>, Str), Id("a")>>,
   unmet     |-> <<Let(<<Any1("a")>>, Blk(<<Typed("p", Pair(Opt(T)))>>, <<One>>)), Id("a")>>,
   block     |-> <<Let(<<Typed("a", FunT(<<>>, T))>>, Blk(<<>>, <<Str>>)), Id("a")>>,
   count     |-> <<Let(<<Any1("a"), Any1("b")>>, Get(Id("y"))), Id("a"), Id("b")>>]
WrongMain(k) == Program(<<Goes(Wrong[k]), Starts("1", "one", One), Starts("2", "two", One)>>)
\* Definitions that it has to refuse.
BadType  == TypeSrc("1", "main", "Bad", <<>>)
WrongDefs ==
  [typeVar  |-> FunSrc("1", "main", "bad", <<TParm("T", <<>>)>>, <<"bad">>, <<>>, <<IntT>>, <<Return(One)>>),
   recvVar  |-> Meth(Box(Var("main", "T", "bad")), <<TParm("T", <<>>)>>,
                     FunSrc("1", "main", "bad", <<>>, <<"bad">>, <<>>, <<IntT>>, <<Return(One)>>)),
   fields   |-> [BadType EXCEPT !.fields = <<P("v", IntT), P("v", StringT)>>],
   cases    |-> [BadType EXCEPT !.cases = <<[n |-> <<"none">>, t |-> <<>>], [n |-> <<"none">>, t |-> <<>>]>>],
   virts    |-> [BadType EXCEPT !.virts = <<Sig(<<"show">>, <<>>, <<IntT>>), Sig(<<"show">>, <<>>, <<>>)>>]]
WrongDef(k) == Program(<<WrongDefs[k], Goes(<<>>), Starts("1", "one", One), Starts("2", "two", One)>>)

Kinds == DOMAIN Pool("a", "b")
MainOf(stmts, arg) ==
  Program(<<Goes(stmts), ValSrc("2", "main", "start", <<>>, <<One>>), Starts("1", "one", arg), Starts("2", "two", arg)>>)
Main(k1, k2, arg) == MainOf(Pool("a1", "b1")[k1] \o Pool("a2", "b2")[k2], arg)
\* With variables of the same names.
MainAgain(k1, k2) == MainOf(Pool("a1", "b1")[k1] \o Pool("a1", "b1")[k2], One)
Args == {One, CallF(Kw("wrap"), <<One>>)}
OneEach == {Main(k, "call", arg) : k \in Kinds, arg \in Args}

\* Those that are accepted although their instances cannot be made: the type argument has no method
\* show, or a variable with a type is declared by the name of another.
HasTyped == {"opt", "virt", "refs", "pairs", "virtual"}
Unmet == {Main(k, "call", Str) : k \in Kinds}
Again == {MainAgain(k1, k2) : k1, k2 \in HasTyped} \cup {MainAgain(k, k) : k \in Kinds}
UnmetSample == {Main("call", "call", Str)}

AllSamples ==
  OneEach \cup {WrongMain(k) : k \in DOMAIN Wrong} \cup {WrongDef(k) : k \in DOMAIN WrongDefs}
    \cup {Main(k1, k2, One) : k1, k2 \in Kinds} \cup Unmet \cup Again
=============================================================================
