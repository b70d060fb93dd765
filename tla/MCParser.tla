------------------------------ MODULE MCParser -----------------------------
(***************************************************************************)
(* The parser is given the texts of trees that are known, written here by  *)
(* the rules a programmer goes by (unary before binary before keyword      *)
(* messages, binary ones from the left, parentheses where these do not     *)
(* do), texts with one character changed, and a second file.               *)
(***************************************************************************)
EXTENDS Parser, AstString

VARIABLES
  meant,  \* the definition that the text was written from, or none: <<>>
  unread, \* the texts that are still to be read
  read    \* the texts of files

allVars == <<vars, meant, unread, read>>

(***************************************************************************)
(* Writing.  A text is a list of tokens, put together with a gap between   *)
(* any two, or, if the gap is empty, with a space where the two would not  *)
(* be apart without one.                                                   *)
(***************************************************************************)
WordChars == CharSet(IdentPart)
Clash(x, y) ==
  \/ x \in WordChars /\ y \in WordChars
  \/ x \in CharSet(OpChars) /\ y \in CharSet(OpChars)
  \/ x \in WordChars /\ y = ":"
  \/ x = "." /\ y \in CharSet(Digits)
  \/ x \in CharSet(Digits) /\ y = "."
Join(tokens, gap) ==
  LET Next(text, token) ==
        text \o (IF (IF gap = <<>> THEN Clash(text[Len(text)], token[1]) ELSE Clash(text[Len(text)], gap[1]))
                 THEN <<" ">> ELSE <<>>)
             \o gap \o token
  IN SeqX!FoldLeft(Next, tokens[1], Tail(tokens))

Tok(s) == <<Chars(s)>>
\* Lists of tokens, one after the other with sep between two.
Between(lists, sep) ==
  IF lists = <<>> THEN <<>> ELSE SeqX!FoldLeft(LAMBDA a, b : a \o Tok(sep) \o b, lists[1], Tail(lists))
Paren(tokens) == Tok("(") \o tokens \o Tok(")")
ModTokens(mod) == IF mod = <<>> THEN <<>> ELSE <<mod[1].text>>

RECURSIVE TypeTokens(_)
TypeTokens(t) ==
  LET args == CASE Len(t.args) = 0 -> <<>>
                [] Len(t.args) = 1 -> TypeTokens(t.args[1])
                [] OTHER -> Paren(Between([i \in DOMAIN t.args |-> TypeTokens(t.args[i])], ","))
  IN args \o ModTokens(t.mod) \o <<t.name>>
MaybeType(typ) == IF typ = <<>> THEN <<>> ELSE TypeTokens(typ[1])
VarTokens(v) == <<v.name>> \o MaybeType(v.type)

\* The parts of a selector, each with its colon.
Keys(sel) ==
  LET colons == SeqX!SetToSortSeq({i \in DOMAIN sel : sel[i] = ":"}, <)
  IN IF colons = <<>> THEN <<sel>>
     ELSE [i \in DOMAIN colons |-> SubSeq(sel, IF i = 1 THEN 1 ELSE colons[i - 1] + 1, colons[i])]

\* How tightly an expression binds: a primary, or the kind of its last message.
Strength(e) ==
  CASE e.k # "Call" -> 3
    [] e.k = "Call" /\ Len(e.msgs) > 1 -> 0
    [] e.k = "Call" /\ Len(e.msgs) = 1 ->
         LET m == e.msgs[1] IN
         IF m.args = <<>> THEN 2 ELSE IF m.sel[Len(m.sel)] = ":" THEN 0 ELSE 1

\* The source of a literal, whose text has its escapes decoded.
Escape(c) ==
  CASE c = "\n" -> Chars("\\n") [] c = "\t" -> Chars("\\t") [] c = "\\" -> Chars("\\\\")
    [] c = "backspace" -> Chars("\\b")
    [] Len(c) = 4  -> Chars("\\") \o SubSeq(Chars(c), 3, 4)
    [] Len(c) = 6  -> Chars("\\x") \o SubSeq(Chars(c), 3, 6)
    [] Len(c) = 10 -> Chars("\\X") \o SubSeq(Chars(c), 3, 10)
    [] OTHER -> <<c>>
Source(e) ==
  IF e.k \in {"Rune", "String"} /\ e.text[1] # Raw
  THEN SeqX!FlattenSeq([i \in DOMAIN e.text |-> Escape(e.text[i])])
  ELSE e.text

RECURSIVE ExprTokens(_, _), StmtTokens(_)
StmtsTokens(ss) == Between([i \in DOMAIN ss |-> StmtTokens(ss[i])], ".")
MsgTokens(m) ==
  LET keys == Keys(m.sel)
      strength == IF m.sel[Len(m.sel)] = ":" THEN 1 ELSE 2
      Part(i) == <<keys[i]>> \o IF m.args = <<>> THEN <<>> ELSE ExprTokens(m.args[i], strength)
  IN ModTokens(m.mod) \o SeqX!FlattenSeq([i \in DOMAIN keys |-> Part(i)])
\* The tokens of e where something that binds at least as strongly is wanted.
ExprTokens(e, wanted) ==
  LET tokens ==
        CASE e.k \in {"Int", "Float", "Rune", "String"} -> <<Source(e)>>
          [] e.k = "Ident" -> ModTokens(e.mod) \o <<e.text>>
          [] e.k = "Ctor"  -> Tok("{") \o Between([i \in DOMAIN e.args |-> ExprTokens(e.args[i], 0)], ";") \o Tok("}")
          [] e.k = "Block" -> Tok("[")
               \o SeqX!FlattenSeq([i \in DOMAIN e.parms |->
                                     <<<<":">> \o e.parms[i].name>> \o MaybeType(e.parms[i].type)])
               \o (IF e.parms = <<>> THEN <<>> ELSE Tok("|")) \o StmtsTokens(e.stmts) \o Tok("]")
          [] e.k = "Call"  ->
               LET msgs == [i \in DOMAIN e.msgs |-> MsgTokens(e.msgs[i])]
                   first == e.msgs[1]
               IN (IF e.recv = <<>> THEN <<>>
                   ELSE ExprTokens(e.recv[1], IF first.args = <<>> THEN 2 ELSE 1)) \o Between(msgs, ",")
  IN IF Strength(e) >= wanted THEN tokens ELSE Paren(tokens)
StmtTokens(s) ==
  CASE s.k = "Ret"    -> Tok("^") \o ExprTokens(s.expr, 0)
    [] s.k = "Assign" -> Between([i \in DOMAIN s.vars |-> VarTokens(s.vars[i])], ",") \o Tok(":=")
                         \o ExprTokens(s.expr, 0)
    [] OTHER          -> ExprTokens(s, 0)

ParmsTokens(ps) ==
  CASE Len(ps) = 0 -> <<>>
    [] Len(ps) = 1 /\ ps[1].type = <<>> -> <<ps[1].name>>
    [] OTHER -> Paren(Between([i \in DOMAIN ps |-> VarTokens(ps[i])], ","))
SigTokens(sig) ==
  LET keys == Keys(sig.sel) IN
  SeqX!FlattenSeq([i \in DOMAIN keys |-> <<keys[i]>> \o
    (IF sig.parms = <<>> THEN <<>>
     ELSE (IF sig.parms[i].name = <<>> THEN <<>> ELSE <<sig.parms[i].name>>) \o TypeTokens(sig.parms[i].type[1]))])
  \o (IF sig.ret = <<>> THEN <<>> ELSE Tok("^") \o TypeTokens(sig.ret[1]))
KeywordTokens(d, low, high) == Tok(IF d.priv THEN low ELSE high)
FunTokens(d) ==
  (CASE d.test -> Tok("test")
     [] ~d.test /\ d.recv = <<>> -> KeywordTokens(d, "func", "Func")
     [] ~d.test /\ d.recv # <<>> ->
          KeywordTokens(d, "meth", "Meth") \o ParmsTokens(d.recv[1].parms) \o ModTokens(d.recv[1].mod)
          \o <<d.recv[1].name>>)
  \o ParmsTokens(d.tparms) \o Tok("[") \o SigTokens(d.sig)
  \o (IF d.stmts = <<>> THEN <<>> ELSE Tok("|") \o StmtsTokens(d.stmts[1])) \o Tok("]")
TypeDefTokens(d) ==
  KeywordTokens(d, "type", "Type") \o ParmsTokens(d.sig.parms) \o <<d.sig.name>>
  \o (CASE d.kind = "alias" -> Tok(":=") \o TypeTokens(d.parts[1]) \o Tok(".")
        [] d.kind = "and"   -> Tok("{") \o SeqX!FlattenSeq([i \in DOMAIN d.parts |->
                                 <<Append(d.parts[i].name, ":")>> \o MaybeType(d.parts[i].type)]) \o Tok("}")
        [] d.kind = "or"    -> Tok("{") \o Tok("|")
                               \o Between([i \in DOMAIN d.parts |-> VarTokens(d.parts[i])], "|") \o Tok("}")
        [] d.kind = "virt"  -> Tok("{") \o SeqX!FlattenSeq([i \in DOMAIN d.parts |->
                                 Tok("[") \o SigTokens(d.parts[i]) \o Tok("]")]) \o Tok("}"))
DefTokens(d) ==
  CASE d.k = "Val"  -> KeywordTokens(d, "val", "Val") \o VarTokens(d.var) \o Tok(":=") \o Tok("[")
                       \o StmtsTokens(d.init) \o Tok("]")
    [] d.k = "Fun"  -> FunTokens(d)
    [] d.k = "Type" -> TypeDefTokens(d)
(***************************************************************************)
(* Samples: trees without locations, as NewParserWithLocs(nil) has them    *)
(***************************************************************************)
None == <<-1, -1>>
Id(s) == [k |-> "Ident", range |-> None, mod |-> <<>>, text |-> Chars(s)]
ModTag(s) == [k |-> "ModTag", range |-> None, text |-> Chars(s)]
IdOf(mod, s) == [k |-> "Ident", range |-> None, mod |-> <<ModTag(mod)>>, text |-> Chars(s)]
Number(kind, s) == [k |-> kind, range |-> None, text |-> Chars(s)]
RuneOf(c) == [k |-> "Rune", range |-> None, text |-> <<"'", c, "'">>, rune |-> c]
StringOf(cs) == [k |-> "String", range |-> None, text |-> <<"\"">> \o cs \o <<"\"">>, data |-> cs]
RawOf(cs) == [k |-> "String", range |-> None, text |-> <<Raw>> \o cs \o <<Raw>>, data |-> cs]
CtorOf(args) == [k |-> "Ctor", range |-> None, args |-> args]
BlockOf(parms, stmts) == [k |-> "Block", range |-> None, parms |-> parms, stmts |-> stmts]
Send(recv, mod, sel, args) == Call(None, recv, <<Msg(None, mod, Chars(sel), args)>>)
AndThen(call, mod, sel, args) == [call EXCEPT !.msgs = Append(@, Msg(None, mod, Chars(sel), args))]
T(s) == TypeName(None, FALSE, <<>>, Chars(s), <<>>)
TOf(args, mod, s) == TypeName(None, FALSE, mod, Chars(s), args)
TV(s) == TypeName(None, TRUE, <<>>, Chars(s), <<>>)
V(s, typ) == Var(None, Chars(s), typ)
Return(e) == [k |-> "Ret", range |-> None, expr |-> e]
Set(vs, e) == [k |-> "Assign", range |-> None, vars |-> vs, expr |-> e]
\* A signature without parameters ends at 0.
Sig(sel, parms, ret) == FunSig(IF parms = <<>> THEN <<-1, 0>> ELSE None, Chars(sel), parms, ret)
\* Signatures in virtual types have a range of their own.
VSig(sel, types, ret) ==
  FunSig(None, Chars(sel), [i \in DOMAIN types |-> Var(Zero, <<>>, <<types[i]>>)], ret)

a == Id("a")
big == <<ModTag("#m")>>

Primaries ==
  {a, Id("T1"), IdOf("#m", "_b"), Number("Int", "5"), Number("Int", "-07"), Number("Float", "+1.50"),
   Number("Float", "2.0e-3"), RuneOf("x"), RuneOf("\n"), RuneOf("\\"), RuneOf("0x4f"), StringOf(<<>>),
   StringOf(<<"/", "/", "'", "0xa9c1", "\t">>), RawOf(<<"\\", "n", "\n", "\"">>), CtorOf(<<>>), CtorOf(<<a, Number("Int", "1")>>),
   BlockOf(<<>>, <<>>), BlockOf(<<V("x", <<>>), V("y", <<TOf(<<T("Int")>>, <<>>, "?")>>)>>, <<Return(Id("x"))>>),
   BlockOf(<<>>, <<Set(<<V("p", <<>>), V("q", <<T("Int")>>)>>, a), Number("Float", "5.5"), a>>)}

Simple == {a, Number("Int", "-7"), BlockOf(<<>>, <<a>>), CtorOf(<<a>>)}
\* Expressions of the kinds that differ in strength.
Unaries  == {Send(<<a>>, <<>>, "b", <<>>), Send(<<Number("Int", "-7")>>, big, "b", <<>>)}
Binaries == {Send(<<a>>, <<>>, "-", <<Number("Int", "-7")>>), Send(<<a>>, big, "||", <<a>>)}
Naries   == {Send(<<>>, <<>>, "at:", <<a>>), Send(<<a>>, big, "at:put:", <<a, Number("Int", "+1")>>)}
Cascades == {AndThen(Send(<<a>>, <<>>, "b", <<>>), <<>>, "c", <<>>),
             AndThen(AndThen(Send(<<a>>, <<>>, "-", <<a>>), big, "+", <<a>>), <<>>, "at:", <<a>>)}
Kinds == Simple \cup Unaries \cup Binaries \cup Naries \cup Cascades

Sends(recvs, args) ==
  {Send(<<r>>, <<>>, "b", <<>>) : r \in recvs}
  \cup {Send(<<r>>, <<>>, "&?", <<x>>) : r \in recvs, x \in args}
  \cup {Send(<<r>>, <<>>, "k:", <<x>>) : r \in recvs, x \in args}
  \cup {Send(<<>>, big, "k:l:", <<r, x>>) : r \in recvs, x \in args}
  \cup {AndThen(Send(<<r>>, <<>>, "b", <<>>), big, "+", <<x>>) : r \in recvs, x \in args}
Exprs == Primaries \cup Sends(Primaries, {a}) \cup Sends({a}, Primaries) \cup Sends(Kinds \ Simple, Kinds \ Simple)

Types ==
  LET base == {T("Int"), TV("T"), TOf(<<>>, big, "Big"), TOf(<<T("Int")>>, <<>>, "?"), TOf(<<TV("T")>>, <<>>, "Array"),
               TOf(<<T("Int"), TV("T")>>, <<>>, "Map"), TOf(<<TOf(<<T("Int")>>, <<>>, "?")>>, big, "!&")}
  IN base \cup {TOf(<<t>>, <<>>, n) : t \in base, n \in {"?", "Set"}}
          \cup {TOf(<<t, u>>, big, "?") : t \in base, u \in {TV("T"), TOf(<<TV("T")>>, <<>>, "&")}}

ParmLists == {<<>>, <<V("T", <<>>)>>, <<V("X", <<T("Int")>>)>>, <<V("X", <<>>), V("Y", <<TOf(<<TV("X")>>, <<>>, "?")>>)>>}
FunOf(tps, sig, stmts) == Fun(None, FALSE, FALSE, <<>>, tps, sig, stmts)
MethOf(parms, mod, name, sig) ==
  Fun(None, TRUE, FALSE, <<[k |-> "Recv", range |-> None, name |-> Chars(name), parms |-> parms, mod |-> mod]>>, <<>>,
      sig, <<<<Return(a)>>>>)
TypeOf(parms, name, kind, parts) ==
  [k |-> "Type", range |-> None, priv |-> TRUE, sig |-> [k |-> "TypeSig", range |-> None, name |-> Chars(name), parms |-> parms],
   kind |-> kind, parts |-> parts]
Sigs == {Sig("f", <<>>, <<>>), Sig("f", <<>>, <<T("Int")>>), Sig("<=", <<V("x", <<TV("T")>>)>>, <<TV("T")>>),
         Sig("at:", <<V("i", <<T("Int")>>)>>, <<>>),
         Sig("at:put:", <<V("i", <<TOf(<<TV("T")>>, <<>>, "?")>>), V("v", <<TV("T")>>)>>, <<TOf(<<TV("T")>>, <<>>, "?")>>)}
Defs ==
  {[k |-> "Val", range |-> None, priv |-> FALSE, var |-> V("x", <<t>>), init |-> <<a>>] : t \in Types}
  \cup {[k |-> "Val", range |-> None, priv |-> TRUE, var |-> V("x", <<>>), init |-> <<>>],
        Fun(None, TRUE, TRUE, <<>>, <<>>, FunSig(None, Chars("f"), <<>>, <<>>), <<<<Set(<<V("x", <<>>)>>, a), a>>>>)}
  \cup {FunOf(tps, sig, body) : tps \in ParmLists, sig \in Sigs, body \in {<<>>, <<<<>>>>, <<<<a, Return(a)>>>>}}
  \cup {MethOf(ps, mod, name, sig) : ps \in ParmLists, mod \in {<<>>, big}, name \in {"Int", "&"}, sig \in Sigs}
  \cup {TypeOf(ps, name, "alias", <<t>>) : ps \in ParmLists, name \in {"Abc", "?"}, t \in Types}
  \cup {TypeOf(<<>>, "Abc", "and", <<>>)}
  \cup {TypeOf(ps, "Abc", "and", <<V("x", <<t>>), V("y", <<T("Int")>>)>>) : ps \in ParmLists, t \in Types}
  \cup {TypeOf(ps, "Abc", "or", <<V("x:", <<t>>), V("y", <<>>)>>) : ps \in ParmLists, t \in Types}
  \cup {TypeOf(<<>>, "Abc", "or", <<V("x", <<>>)>>), TypeOf(<<>>, "Abc", "or", <<V("x:", <<T("Int")>>)>>)}
  \cup {TypeOf(<<V("T", <<>>)>>, "Abc", "virt", <<VSig("f", <<>>, <<TV("T")>>), VSig("+", <<t>>, <<>>),
                                            VSig("a:b:", <<t, TV("T")>>, <<t>>)>>) : t \in Types}

\* Each sample is a definition: an expression is the body of a function.
BodyOf(e) == FunOf(<<>>, Sig("f", <<>>, <<>>), <<<<e>>>>)
Samples == Defs \cup {BodyOf(e) : e \in Exprs}
\* Samples that have all the kinds of tokens, and what is put between these.
Varied == {d \in Defs : d.k = "Fun" /\ d.recv # <<>>} \cup {BodyOf(e) : e \in Primaries \cup Cascades}
Gaps == {<<"\n">>, Chars("/*]*/"), Chars("//.\n")}
Written == {Join(DefTokens(d), <<>>) : d \in Samples}

(***************************************************************************)
(* Texts that are given, and what is left of them after a slip             *)
(***************************************************************************)
Seeds ==
  {Chars(s) : s \in {
     "import \"a\" Import \"b/c\"\nval x Int := [5.e]",
     "func T [at: i T put: j 'T'? |\n^ i]",
     "Meth (X, Y _?)#m& (Z) [+ x X ^(X, Y) #n p]",
     "type T? {| none | some: T}\ntype _ q := #m q?.",
     "Type T r {[v: T u: T ^T] [&& _x]\n[w]}",
     "test [t | a, b I := -1 #m f: {'\\n'; 2.5}, g.]",
     "func [f | [:p Int | ^p]\n* q r, v, + \"\\0aT\"]"}}
\* t without one of its characters, or with one more.
Slipped(t) ==
  UNION {{SubSeq(t, 1, i - 1) \o SubSeq(t, i + 1, Len(t))}
         \cup {SubSeq(t, 1, i - 1) \o <<c>> \o SubSeq(t, i, Len(t)) : c \in {":", "'", "T"}} : i \in DOMAIN t}

(***************************************************************************)
(* Files are read one after the other, until one is refused                *)
(***************************************************************************)
MCInit ==
  /\ Init
  /\ read = <<>>
  /\ \/ \E d \in Samples : locs = <<>> /\ meant = <<d>> /\ unread = <<Join(DefTokens(d), <<>>)>>
     \/ \E d \in Varied, gap \in Gaps : locs = <<>> /\ meant = <<d>> /\ unread = <<Join(DefTokens(d), gap)>>
     \/ /\ locs # <<>> /\ meant = <<>>
        /\ \/ \E t \in Seeds, u \in Seeds : unread = <<t, u>>
           \/ \E t \in Seeds : \E u \in Slipped(t) : unread = <<u>>
MCNext ==
  /\ err = <<>> /\ unread # <<>>
  /\ \E path \in {<<"a", "b">>[Len(read) + 1]} : Parse(path, Head(unread))
  /\ unread' = Tail(unread)
  /\ read' = IF files' = files THEN read ELSE Append(read, Head(unread))
  /\ UNCHANGED meant
MCSpec == MCInit /\ [][MCNext]_allVars

(***************************************************************************)
(* Properties                                                              *)
(***************************************************************************)
\* Precedence, associativity, cascades, selectors, escapes, optional parts: the
\* tree of a text is the one that the text was written from.
MeansWhatIsWritten ==
  meant # <<>> /\ unread = <<>> => files # <<>> /\ files[1].imports = <<>> /\ files[1].defs = meant

\* What is not written of a definition in messages.
NoBody(d) ==
  CASE d.k = "Val"  -> [d EXCEPT !.init = <<>>]
    [] d.k = "Fun"  -> [d EXCEPT !.test = FALSE, !.stmts = IF @ = <<>> THEN <<>> ELSE <<<<>>>>,
                                 !.sig.range = IF d.sig.parms = <<>> THEN <<-1, 0>> ELSE None]
    [] d.k = "Type" -> [d EXCEPT !.kind = "and", !.parts = <<>>]
SignatureText(d) ==
  CASE d.k = "Val"  -> ValString(d) \o Chars(" := []")
    [] d.k = "Fun"  -> FunString(d)
    [] d.k = "Type" -> TypeString(d) \o Chars(" {}")
FileOf(t) == LET acc == FileAccepts(t) IN IF acc.ok THEN FileAction(t, acc.memo, -1).val ELSE <<>>
\* A definition that a message names is the one it is about: read again, the
\* signature in the message has the same parameters, types and selector.
MessagesNameTheDefinition ==
  meant # <<>> /\ unread = <<>> /\ meant[1] \in Defs =>
    LET again == FileOf(SignatureText(meant[1])) IN again # <<>> /\ again[1].defs = <<NoBody(meant[1])>>

\* A refusal is explained: the walk for the error fails where the first one did
\* (it trusts what that one remembered), and finds something that was wanted
\* there or at the start of a named token that reaches there.
RefusalIsExplained ==
  err # <<>> =>
    /\ err[1].failed
    /\ err[1].wants # {}
    /\ \A w \in err[1].wants : w[1] <= err[1].loc /\ (w[1] < err[1].loc => w[2] \in NamedRules)

(***************************************************************************)
(* The grammar without memory: where e ends at p in t, or -1               *)
(***************************************************************************)
RECURSIVE Ends(_, _, _), EndsAll(_, _, _), EndsOne(_, _, _), EndsMany(_, _, _)
EndsAll(t, es, p) == IF es = <<>> \/ p < 0 THEN p ELSE EndsAll(t, Tail(es), Ends(t, Head(es), p))
EndsOne(t, es, p) ==
  IF es = <<>> THEN -1 ELSE LET q == Ends(t, Head(es), p) IN IF q >= 0 THEN q ELSE EndsOne(t, Tail(es), p)
EndsMany(t, e, p) == LET q == Ends(t, e, p) IN IF q < 0 THEN p ELSE EndsMany(t, e, q)
Ends(t, e, p) ==
  CASE e.op = "rule"  -> Ends(t, Rule[e.rule], p)
    [] e.op = "cat"   -> EndsAll(t, e.es, p)
    [] e.op = "alt"   -> EndsOne(t, e.es, p)
    [] e.op = "lit"   -> IF At(t, p, e.text) THEN p + Len(e.text) ELSE -1
    [] e.op = "in"    -> IF p < Len(t) /\ t[p + 1] \in e.chars THEN p + 1 ELSE -1
    [] e.op = "notin" -> IF p < Len(t) /\ t[p + 1] \notin e.chars THEN p + 1 ELSE -1
    [] e.op = "any"   -> IF p < Len(t) THEN p + 1 ELSE -1
    [] e.op = "star"  -> EndsMany(t, e.e, p)
    [] e.op = "plus"  -> LET q == Ends(t, e.e, p) IN IF q < 0 THEN q ELSE EndsMany(t, e.e, q)
    [] e.op = "opt"   -> Maximum(p, Ends(t, e.e, p))
    [] e.op = "not"   -> IF Ends(t, e.e, p) < 0 THEN p ELSE -1
    [] OTHER          -> Ends(t, e.e, p)

\* What is remembered of rules changes nothing: a text is read if and only if the
\* grammar has it (MeansWhatIsWritten covers the texts that are written from trees).
ReadsTheGrammar ==
  /\ meant = <<>> => \A i \in DOMAIN read : Ends(read[i], R("File"), 0) = Len(read[i])
  /\ err # <<>> => Ends(err[1].text, R("File"), 0) < 0

(***************************************************************************)
(* Locations                                                               *)
(***************************************************************************)
Kids(n) ==
  CASE n.k = "Val"  -> <<n.var>> \o n.init
    [] n.k = "Fun"  -> n.recv \o n.tparms \o <<n.sig>> \o SeqX!FlattenSeq(n.stmts)
    [] n.k = "Type" -> <<n.sig>> \o n.parts
    [] n.k = "TypeSig" -> n.parms
    [] n.k = "Recv"    -> n.parms \o n.mod
    [] n.k = "FunSig"  -> n.parms \o n.ret
    [] n.k = "Var"     -> n.type
    [] n.k = "TypeName" -> n.mod \o n.args
    [] n.k = "Ret"    -> <<n.expr>>
    [] n.k = "Assign" -> n.vars \o <<n.expr>>
    [] n.k = "Call"   -> n.recv \o n.msgs
    [] n.k = "Msg"    -> n.mod \o n.args
    [] n.k = "Ident"  -> n.mod
    [] n.k = "Ctor"   -> n.args
    [] n.k = "Block"  -> n.parms \o n.stmts
    [] OTHER -> <<>>
RECURSIVE Within(_)
Within(n) == {n} \cup UNION {Within(Kids(n)[i]) : i \in DOMAIN Kids(n)}

Whole == SeqX!FlattenSeq(read)
TextAt(r) == SubSeq(Whole, r[1] + 1, r[2])

\* The text in the range of a node is that of the node.
TextOfNode ==
  \A i \in DOMAIN files : \A j \in DOMAIN files[i].defs : \A n \in Within(files[i].defs[j]) :
    /\ n.k \in {"Ident", "Int", "Float", "ModTag"} => TextAt(n.range) = n.text
    /\ n.k \in {"Call", "Ret", "Assign", "Ctor", "Block"} =>
         /\ Ends(TextAt(n.range), Cat(<<R("Stmt"), R("Blanks"), R("EOF")>>), 0) >= 0 \/ n.k = "Call"
         /\ \A m \in DOMAIN Kids(n) : n.range[1] <= Kids(n)[m].range[1]

\* Where an editor would show the character of file i at distance q from its start.
Shown(i, q) ==
  LET newlines == {p \in 1..q : read[i][p] = "\n"}
      last == CHOOSE p \in newlines \cup {0} : \A other \in newlines : other <= p
  IN [line |-> Cardinality(newlines) + 1, col |-> q + 1 - last]

\* A definition is where an editor would show it, unless it ends where its file does.
Placed ==
  \A i \in DOMAIN files : \A j \in DOMAIN files[i].defs :
    LET range == files[i].defs[j].range
        offs == IF i = 1 THEN 0 ELSE Len(read[1])
        start == Shown(i, range[1] - offs)
        end == Shown(i, range[2] - offs)
    IN /\ offs <= range[1] /\ range[1] < range[2] /\ range[2] <= offs + Len(read[i])
       /\ Loc1(locs[1], range[1]) = [path |-> files[i].path] @@ start
       /\ range[2] < offs + Len(read[i]) \/ i = Len(files) =>
            LocOf(locs[1], range) =
              [kind |-> "loc", path |-> files[i].path,
               line |-> <<start.line, end.line>>, col |-> <<start.col, end.col>>]

\* Ranges count from the start of the first file: what is found there again in the files
\* laid end to end is the text of the node, and Loc finds for a definition its file, and
\* the line and the column counted there.
RangesFindTheText == locs # <<>> => TextOfNode /\ Placed
=============================================================================
