------------------------------ MODULE Samples ------------------------------
(***************************************************************************)
(* Programs: those of basic/optimize_test.go, and others with loops,       *)
(* closures, far returns, values that are copied and or-types.  Each has   *)
(* its tree, the order in which its functions are declared, and whether    *)
(* its main must end without a call.                                       *)
(***************************************************************************)
EXTENDS Build

(***************************************************************************)
(* Writing                                                                 *)
(***************************************************************************)
I(n) == V(n, IntT)
F(n) == V(n, FunT)
Of(v) == Deref(Id(v))
Op2(op, x, y) == Call(<<RefTo(x)>>, <<Msg(op, <<y>>, IF op \in {"<=", "="} THEN BoolT ELSE IntT)>>)
Plus(x, y) == Op2("+", x, y)
Send(recv, fun, args, type) == Call(<<recv>>, <<Msg(fun, args, type)>>)
Fun0(fun, args, type) == Call(<<>>, <<Msg(fun, args, type)>>)
Value(f, args, type) == Send(f, "value", args, type)
Do0(id, type, stmts) == BlockE(id, <<>>, <<>>, type, stmts)
\* cond ifTrue: [..] ifFalse: [..]
If(cond, then, else, type) == Send(RefTo(cond), "case", <<then, else>>, type)
Out1(x) == Fun0("out:", <<x>>, NilT)
OutDecl == [FunE(FALSE, <<I("i")>>, <<>>, NilT, <<>>) EXCEPT !.decl = TRUE]
Func(parms, locals, type, stmts) == FunE(FALSE, parms, locals, type, stmts)
Meth(parms, locals, type, stmts) == FunE(TRUE, parms, locals, type, stmts)
Main(locals, stmts) == Func(<<I("n")>>, locals, IntT, stmts)
n == Of(I("n"))
self == V("self", IntT)

Prog(fs, names, free) == [src |-> fs @@ ("out:" :> OutDecl), names |-> names \o <<"main", "out:">>, free |-> free]

\* meth Bool [ifTrue: f Nil Fun | self ifTrue: f ifFalse: []]
IfTrueMeth ==
  Meth(<<V("b", BoolT), F("f")>>, <<>>, NilT,
       <<Send(Id(V("b", BoolT)), "case", <<Of(F("f")), Do0("[]", NilT, <<>>)>>, NilT)>>)
\* func [main: n Int ^Int | n <= 1 ifTrue: [^3]. ^5]
IfTrue ==
  Prog("ifTrue:" :> IfTrueMeth @@ "main" :>
         Main(<<>>, <<Send(RefTo(Op2("<=", n, IntE(1))), "ifTrue:", <<Do0("[^3]", NilT, <<Return(IntE(3))>>)>>, NilT),
                      Return(IntE(5))>>),
       <<"ifTrue:">>, TRUE)

\* meth Int [to: e Int do: f (Int, Nil) Fun | self <= e ifTrue: [f value: self. self + 1 to: e do: f] ifFalse: []]
ToDoMeth ==
  Meth(<<self, I("e"), F("f")>>, <<>>, NilT,
       <<If(Send(Id(self), "<=", <<Of(I("e"))>>, BoolT),
            Do0("[step]", NilT, <<Value(Id(F("f")), <<Of(self)>>, NilT),
                                  Send(RefTo(Send(Id(self), "+", <<IntE(1)>>, IntT)), "to:do:",
                                       <<Of(I("e")), Of(F("f"))>>, NilT)>>),
            Do0("[]", NilT, <<>>), NilT)>>)
\* func [main: n Int ^Int | i := 0. 1 to: n do: [:x | i := i + x]. ^i]
ToDo ==
  Prog("to:do:" :> ToDoMeth @@ "main" :>
         Main(<<I("i")>>, <<Assign(I("i"), IntE(0)),
                Send(RefTo(IntE(1)), "to:do:", <<n, BlockE("[add]", <<I("x")>>, <<>>, NilT,
                       <<Assign(I("i"), Plus(Of(I("i")), Of(I("x"))))>>)>>, NilT),
                Return(Of(I("i")))>>),
       <<"to:do:">>, TRUE)

\* func [main: n Int ^Int | ^[[[n] value] value] value]
Nested ==
  Prog("main" :> Main(<<>>, <<Return(Value(RefTo(Do0("[1]", IntT, <<Value(RefTo(Do0("[2]", IntT, <<Value(RefTo(
         Do0("[3]", IntT, <<n>>)), <<>>, IntT)>>)), <<>>, IntT)>>)), <<>>, IntT))>>), <<>>, TRUE)

\* func [leaf: f Int Fun ^Int | ^f value]. func [internal: f Int Fun ^Int | ^leaf: f]
FunParms ==
  Prog("leaf:" :> Func(<<F("f")>>, <<>>, IntT, <<Return(Value(Id(F("f")), <<>>, IntT))>>) @@
       "internal:" :> Func(<<F("f")>>, <<>>, IntT, <<Return(Fun0("leaf:", <<Of(F("f"))>>, IntT))>>) @@
       "main" :> Main(<<>>, <<Return(Fun0("internal:", <<Do0("[n]", IntT, <<n>>)>>, IntT))>>),
       <<"leaf:", "internal:">>, TRUE)

\* func [leaf ^Int | ^7]. func [internal ^Int | ^leaf]. func [main: n Int ^Int | ^internal + n]
Leaves ==
  Prog("leaf" :> Func(<<>>, <<>>, IntT, <<Return(IntE(7))>>) @@
       "internal" :> Func(<<>>, <<>>, IntT, <<Return(Fun0("leaf", <<>>, IntT))>>) @@
       "main" :> Main(<<>>, <<Return(Plus(Fun0("internal", <<>>, IntT), n))>>),
       <<"leaf", "internal">>, FALSE)

\* func [sum: i Int and: a Int ^Int | i <= 0 ifTrue: [^a] ifFalse: [^sum: i - 1 and: a + i]]
Sum ==
  Prog("sum" :> Func(<<I("i"), I("a")>>, <<>>, IntT,
         <<If(Op2("<=", Of(I("i")), IntE(0)), Do0("[^a]", NilT, <<Return(Of(I("a")))>>), Do0("[^sum]", NilT,
              <<Return(Fun0("sum", <<Op2("-", Of(I("i")), IntE(1)), Plus(Of(I("a")), Of(I("i")))>>, IntT))>>), NilT)>>) @@
       "main" :> Main(<<>>, <<Return(Fun0("sum", <<n, IntE(10)>>, IntT))>>),
       <<"sum">>, FALSE)

\* Parameters that change places: func [f: i and: x and: y ^Int | i <= 0 ifTrue: [^x] ifFalse: [^f: i - 1 and: y and: x]]
Swap ==
  LET i == I("i") x == I("x") y == I("y") IN
  Prog("f" :> Func(<<i, x, y>>, <<>>, IntT,
         <<If(Op2("<=", Of(i), IntE(0)), Do0("[^x]", NilT, <<Return(Of(x))>>), Do0("[^f]", NilT,
              <<Return(Fun0("f", <<Op2("-", Of(i), IntE(1)), Of(y), Of(x)>>, IntT))>>), NilT)>>) @@
       "main" :> Main(<<>>, <<Return(Fun0("f", <<n, IntE(1), IntE(2)>>, IntT))>>),
       <<"f">>, FALSE)

\* A sum that is not a tail call: func [sum: i | i <= 0 ifTrue: [^0]. ^i + (sum: i - 1)]
Deep ==
  Prog("sum" :> Func(<<I("i")>>, <<>>, IntT,
         <<If(Op2("<=", Of(I("i")), IntE(0)), Do0("[^0]", NilT, <<Return(IntE(0))>>), Do0("[]", NilT, <<>>), NilT),
           Return(Plus(Of(I("i")), Fun0("sum", <<Op2("-", Of(I("i")), IntE(1))>>, IntT)))>>) @@
       "main" :> Main(<<>>, <<Return(Fun0("sum", <<n>>, IntT))>>),
       <<"sum">>, FALSE)

\* A counter: two blocks share a variable, one of them is called again and again.
Counter ==
  LET c == I("c") inc == F("inc") get == F("get") IN
  Prog("main" :> Main(<<c, inc, get>>, <<Assign(c, n),
         Assign(inc, Do0("[inc]", NilT, <<Assign(c, Plus(Of(c), IntE(1))), Out1(Of(c))>>)),
         Assign(get, Do0("[get]", IntT, <<Of(c)>>)),
         Value(Id(inc), <<>>, NilT), Value(Id(inc), <<>>, NilT),
         Return(Value(Id(get), <<>>, IntT))>>), <<>>, FALSE)

\* x := [1]. x changeSelf. ^x value, with a method that assigns to its receiver
ChangeSelf ==
  LET x == F("x") IN
  Prog("prevent" :> Func(<<>>, <<>>, NilT, <<>>) @@
       "changeSelf" :> Meth(<<x>>, <<>>, NilT, <<Fun0("prevent2", <<>>, NilT), Assign(x, Do0("[2]", IntT, <<IntE(2)>>))>>) @@
       "prevent2" :> Func(<<>>, <<>>, NilT, <<Fun0("prevent", <<>>, NilT)>>) @@
       "main" :> Main(<<x>>, <<Assign(x, Do0("[1]", IntT, <<IntE(1)>>)), Send(Id(x), "changeSelf", <<>>, NilT),
                              Return(Value(Id(x), <<>>, IntT))>>),
       <<"prevent", "prevent2", "changeSelf">>, FALSE)

\* The receiver of a method is a reference: meth Int [twice | self := self + self]
Twice ==
  LET x == I("x") IN
  Prog("twice" :> Meth(<<self>>, <<>>, NilT, <<Assign(self, Plus(Of(self), Of(self)))>>) @@
       "main" :> Main(<<x>>, <<Assign(x, n), Send(Id(x), "twice", <<>>, NilT), Send(Id(x), "twice", <<>>, NilT),
                              Return(Of(x))>>),
       <<"twice">>, FALSE)

PairT == AndT(<<IntT, IntT>>)
p == V("p", PairT)
\* meth Pair [left ^Int | ^left]. meth Pair [setLeft: i Int | left := i]
LeftMeth    == Meth(<<p>>, <<>>, IntT, <<Return(Of(FieldV("left", IntT, 1)))>>)
SetLeftMeth == Meth(<<p, I("i")>>, <<>>, NilT, <<Assign(FieldV("left", IntT, 1), Of(I("i")))>>)
\* func [changed: p Pair ^Int | p setLeft: 9. ^p left]: its own p is changed, not the caller's.
ByValue ==
  LET q == V("q", PairT) IN
  Prog("left" :> LeftMeth @@ "setLeft:" :> SetLeftMeth @@
       "changed:" :> Func(<<p>>, <<>>, IntT, <<Send(Id(p), "setLeft:", <<IntE(9)>>, NilT), Return(Send(Id(p), "left", <<>>, IntT))>>) @@
       "main" :> Main(<<q>>, <<Assign(q, Deref(Ctor(PairT, <<n, IntE(4)>>))),
                     Out1(Fun0("changed:", <<Of(q)>>, IntT)),
                     Return(Send(Id(q), "left", <<>>, IntT))>>),
       <<"left", "setLeft:", "changed:">>, FALSE)

\* A pair that is returned: func [pair: i Int ^Pair | ^{left: i right: i + 1}]
Pairs ==
  Prog("left" :> LeftMeth @@
       "pair:" :> Func(<<I("i")>>, <<>>, PairT, <<Return(Deref(Ctor(PairT, <<Of(I("i")), Plus(Of(I("i")), IntE(1))>>)))>>) @@
       "main" :> Main(<<p>>, <<Assign(p, Fun0("pair:", <<n>>, PairT)), Return(Send(Id(p), "left", <<>>, IntT))>>),
       <<"left", "pair:">>, FALSE)

OptT == OrT(<<NilT, IntT>>)
opt == V("opt", OptT)
\* type Int? {none | some: Int}, in and out of functions
Option ==
  Prog("half" :> Func(<<I("i")>>, <<>>, OptT,
         <<If(Op2("<=", Of(I("i")), IntE(0)), Do0("[^none]", NilT, <<Return(Deref(CaseOf(OptT, 1, <<>>)))>>), Do0("[]", NilT, <<>>), NilT),
           Return(Deref(CaseOf(OptT, 2, <<Of(I("i"))>>)))>>) @@
       "main" :> Main(<<opt>>, <<Assign(opt, Fun0("half", <<n>>, OptT)),
          Return(Send(Id(opt), "case", <<Do0("[none]", IntT, <<IntE(100)>>),
                  BlockE("[some]", <<I("v")>>, <<>>, IntT, <<Plus(Of(I("v")), n)>>)>>, IntT))>>),
       <<"half">>, FALSE)

BigT == OrT(<<PairT, NilT>>)
\* An or-type with a pair, of which the block of the case has a copy.
BigOption ==
  LET big == V("big", BigT) IN
  Prog("left" :> LeftMeth @@ "setLeft:" :> SetLeftMeth @@
       "main" :> Main(<<big>>, <<Assign(big, Deref(CaseOf(BigT, 1, <<Deref(Ctor(PairT, <<n, IntE(1)>>))>>))),
          Send(Id(big), "case", <<BlockE("[change]", <<p>>, <<>>, NilT, <<Send(Id(p), "setLeft:", <<IntE(8)>>, NilT)>>),
                                  Do0("[not]", NilT, <<>>)>>, NilT),
          Return(Send(Id(big), "case", <<BlockE("[left]", <<p>>, <<>>, IntT, <<Send(Id(p), "left", <<>>, IntT)>>),
                                         Do0("[zero]", IntT, <<IntE(0)>>)>>, IntT))>>),
       <<"left", "setLeft:">>, FALSE)

\* A far return out of a call that is not inlined, over frames that are not its home.
Far ==
  Prog("find" :> Func(<<I("i"), F("f")>>, <<>>, NilT, <<Out1(Of(I("i"))), Value(Id(F("f")), <<Of(I("i"))>>, NilT),
                        Fun0("find", <<Plus(Of(I("i")), IntE(1)), Of(F("f"))>>, NilT), Out1(IntE(99))>>) @@
       "main" :> Main(<<>>, <<Fun0("find", <<IntE(0), BlockE("[:i]", <<I("i")>>, <<>>, NilT,
                      <<If(Op2("=", Of(I("i")), n), Do0("[^i]", NilT, <<Return(Plus(Of(I("i")), IntE(40)))>>), Do0("[go on]", NilT, <<>>), NilT)>>)>>, NilT),
                    Return(IntE(5))>>),
       <<"find">>, FALSE)

\* func [with: f (Int Fun, Nil) Fun | f value: [7]], of which one caller uses the block and one does so if used
WithSeven(used) ==
  LET Seven(id, stmts) == Fun0("with:", <<BlockE(id, <<F("g")>>, <<>>, NilT, stmts)>>, NilT)
      CallG == Fun0("call", <<Of(F("g"))>>, NilT) IN
  Prog("with:" :> Func(<<F("f")>>, <<>>, NilT, <<Value(Id(F("f")), <<Do0("[7]", IntT, <<IntE(7)>>)>>, NilT)>>) @@
       "other" :> Func(<<>>, <<>>, NilT, <<Seven("[:g]", IF used THEN <<CallG>> ELSE <<>>)>>) @@
       "call" :> Func(<<F("f")>>, <<>>, NilT, <<Out1(IntE(0)), Out1(Value(Id(F("f")), <<>>, IntT))>>) @@
       "main" :> Main(<<>>, <<Fun0("other", <<>>, NilT), Seven("[call: g]", <<CallG>>), Return(n)>>),
       <<"with:", "other", "call">>, FALSE)

\* test [test | out: leaf. [leaf] value], next to a main that calls leaf, too
Tested ==
  Prog("leaf" :> Func(<<>>, <<>>, IntT, <<Return(IntE(7))>>) @@
       "test" :> [Func(<<>>, <<>>, NilT, <<Out1(Fun0("leaf", <<>>, IntT)), Value(RefTo(Do0("[leaf]", IntT, <<Fun0("leaf", <<>>, IntT)>>)), <<>>, IntT)>>)
                    EXCEPT !.test = TRUE] @@
       "main" :> Main(<<>>, <<Return(Plus(Fun0("leaf", <<>>, IntT), n))>>),
       <<"leaf", "test">>, FALSE)

\* Locals that are assigned from each other.
Locals ==
  LET x == I("x") y == I("y") IN
  Prog("main" :> Main(<<x, y>>, <<Assign(x, n), Assign(y, IntE(3)), Assign(x, Of(y)), Assign(y, Of(x)),
                                 Return(Plus(Of(x), Of(y)))>>), <<>>, FALSE)

\* A panic in a block, which ends everything, and code behind a return.
Panics ==
  Prog("main" :> Main(<<>>, <<If(Op2("<=", n, IntE(0)), Do0("[panic]", NilT, <<Out1(IntE(1)), Fun0("panic:", <<IntE(0)>>, NilT), Out1(IntE(2))>>),
                               Do0("[]", NilT, <<>>), NilT), Return(n), Out1(IntE(3))>>), <<>>, FALSE)

(***************************************************************************)
(* Programs that the optimizer breaks                                      *)
(***************************************************************************)
\* Pairs that change places: func [f: i and: a Pair and: b Pair ^Int | i <= 0 ifTrue: [^a left] ifFalse: [^f: i - 1 and: b and: a]]
SwapPairs ==
  LET a == V("a", PairT) b == V("b", PairT) IN
  Prog("left" :> LeftMeth @@
       "f" :> Func(<<I("i"), a, b>>, <<>>, IntT,
         <<If(Op2("<=", Of(I("i")), IntE(0)), Do0("[^a]", NilT, <<Return(Send(Id(a), "left", <<>>, IntT))>>), Do0("[^f]", NilT,
              <<Return(Fun0("f", <<Op2("-", Of(I("i")), IntE(1)), Of(b), Of(a)>>, IntT))>>), NilT)>>) @@
       "main" :> Main(<<>>, <<Return(Fun0("f", <<n, Deref(Ctor(PairT, <<IntE(1), IntE(2)>>)), Deref(Ctor(PairT, <<IntE(3), IntE(4)>>))>>, IntT))>>),
       <<"left", "f">>, FALSE)
SwapSample == [swapPairs |-> SwapPairs]
\* A block that is created in two places, one of which does not use it.
LostBlockSample == [withSeven |-> WithSeven(FALSE)]

(***************************************************************************)
(* Two statements, one after the other, of those that work on x and y      *)
(***************************************************************************)
X == I("x")
Y == I("y")
Mixed(k, i) ==
  LET id(b) == b \o ToString(k) IN
  CASE i = 1 -> Assign(X, Of(Y))
    [] i = 2 -> Assign(Y, Plus(Of(X), IntE(1)))
    [] i = 3 -> Assign(F("f"), Do0(id("[add]"), NilT, <<Assign(X, Plus(Of(X), Of(Y)))>>))
    [] i = 4 -> Value(Id(F("f")), <<>>, NilT)
    [] i = 5 -> Send(Id(X), "twice", <<>>, NilT)
    [] i = 6 -> If(Op2("<=", Of(Y), Of(X)), Do0(id("[zero]"), NilT, <<Assign(Y, IntE(0))>>), Do0(id("[out]"), NilT, <<Out1(Of(X))>>), NilT)
    [] i = 7 -> Assign(X, Fun0("call", <<Do0(id("[y]"), IntT, <<Of(Y)>>), Of(X)>>, IntT))
    [] i = 8 -> If(Op2("=", Of(X), IntE(2)), Do0(id("[^y]"), NilT, <<Return(Of(Y))>>), Do0(id("[]"), NilT, <<>>), NilT)
Mix(i, j) ==
  Prog("twice" :> Meth(<<self>>, <<>>, NilT, <<Assign(self, Plus(Of(self), Of(self)))>>) @@
       "call" :> Func(<<F("f"), I("i")>>, <<>>, IntT, <<Return(Plus(Value(Id(F("f")), <<>>, IntT), Of(I("i"))))>>) @@
       "main" :> Main(<<X, Y, F("f")>>, <<Assign(X, n), Assign(Y, IntE(2)),
                   Assign(F("f"), Do0("[f]", NilT, <<Assign(Y, Plus(Of(Y), IntE(3)))>>)),
                   Mixed(1, i), Mixed(2, j), Return(Plus(Of(X), Of(Y)))>>),
       <<"twice", "call">>, FALSE)
MixName(i, j) == "mix" \o ToString(i) \o ToString(j)
Mixes == [name \in {MixName(i, j) : i, j \in 1..8} |->
            LET ij == CHOOSE ij \in (1..8) \X (1..8) : MixName(ij[1], ij[2]) = name IN Mix(ij[1], ij[2])]

AllSamples ==
  [ifTrue |-> IfTrue, toDo |-> ToDo, nested |-> Nested, funParms |-> FunParms, leaves |-> Leaves, sum |-> Sum,
   swap |-> Swap, deep |-> Deep, counter |-> Counter, changeSelf |-> ChangeSelf, twice |-> Twice, byValue |-> ByValue,
   pairs |-> Pairs, option |-> Option, bigOption |-> BigOption, far |-> Far, locals |-> Locals, tested |-> Tested, withSeven |-> WithSeven(TRUE), panics |-> Panics]
  @@ Mixes
=============================================================================
