------------------------------ MODULE Grammar ------------------------------
(***************************************************************************)
(* The grammar of Pea, ast/grammar.peggy as it is compiled into            *)
(* ast/grammar.go: the expression of each rule and what its actions build. *)
(*                                                                         *)
(* Each value is a sequence: of characters for text, of nodes for lists,   *)
(* of at most one node for an optional one.  An action takes the labels of *)
(* its rule, b, and the range r = <<start, end>> of the text it stands for.*)
(* Actions that only convert between Go types are left out.                *)
(***************************************************************************)
EXTENDS Peg

SeqX == INSTANCE SequencesExt

Letters    == "abcdefghijklmnopqrstuvwxyzABCDEFGHIJKLMNOPQRSTUVWXYZ"
Digits     == "0123456789"
IdentStart == "_" \o Letters
IdentPart  == IdentStart \o Digits
OpChars    == "!%&*+-/<=>?@\\|~"

\* "01..9" for the empty text: nil labels have the zero range.
Zero == <<0, 0>>

RangeOf(x) == x[1].range

(***************************************************************************)
(* Tokens                                                                  *)
(***************************************************************************)
WordEnd == Not(In(IdentPart), "[_a-zA-Z0-9]")
Word    == Cat(<<In(IdentStart), Star(In(IdentPart))>>)

IntRule == Cat(<<R("Blanks"), Do("Int", As("text", Cat(<<Opt(In("+-")), Plus(In(Digits))>>)))>>)
IntNode(b, r) == <<[k |-> "Int", range |-> r, text |-> Val(b, "text")]>>

FloatRule ==
  Cat(<<R("Blanks"), Do("Float", As("text",
    Cat(<<Opt(In("+-")), Plus(In(Digits)), Lit("."), Plus(In(Digits)),
          Opt(Cat(<<In("eE"), Opt(In("+-")), Plus(In(Digits))>>))>>)))>>)
FloatNode(b, r) == <<[k |-> "Float", range |-> r, text |-> Val(b, "text")]>>

RuneRule ==
  Cat(<<R("Blanks"), Do("Rune", As("text",
    Cat(<<In("'"), Not(Lit("\n"), "\n"),
          As("data", Alt(<<R("Esc"), Lit("\\'"), NotIn("'")>>)),
          In("'")>>)))>>)
\* The data must be one character: panic("impossible") otherwise.
RuneNode(b, r) ==
  <<[k |-> "Rune", range |-> r, text |-> Val(b, "text"),
     rune |-> IF Len(Val(b, "data")) = 1 THEN Val(b, "data")[1] ELSE "panic"]>>

\* The quote of raw strings is written $, as TLA+ has no string with a backquote.
Raw == "$"

StringRule ==
  Alt(<<
    Cat(<<R("Blanks"), Do("String0", As("text0",
      Cat(<<In("\""),
            As("data0", Star(Cat(<<Not(Lit("\n"), "\n"), Alt(<<R("Esc"), Lit("\\\""), NotIn("\"")>>)>>))),
            In("\"")>>)))>>),
    Cat(<<R("Blanks"), Do("String1", As("text1",
      Cat(<<In(Raw), As("data1", Star(Alt(<<Lit("\\" \o Raw), NotIn(Raw)>>))), In(Raw)>>)))>>)
  >>)
StringNode(b, r, n) ==
  <<[k |-> "String", range |-> r, text |-> Val(b, "text" \o n), data |-> Val(b, "data" \o n)]>>

Hex(n) == Cat([i \in 1..n |-> R("X")])
EscRule ==
  Alt(<<Do("Esc_n", Lit("\\n")), Do("Esc_t", Lit("\\t")), Do("Esc_b", Lit("\\b")), Do("Esc_\\", Lit("\\\\")),
        Do("Esc2", Cat(<<Lit("\\"), As("x0", Hex(2))>>)),
        Do("Esc4", Cat(<<Lit("\\x"), As("x1", Hex(4))>>)),
        Do("Esc8", Cat(<<Lit("\\X"), As("x2", Hex(8))>>))>>)
\* hex: a character is 32 bits with a sign, so a number of 8 digits may be too
\* large: panic("impossible").  The character is written as its digits.
Spell(cs) == SeqX!FoldLeft(LAMBDA s, c : s \o c, "", cs)
EscChar(tag, b) ==
  LET digits == Val(b, "x0") \o Val(b, "x1") \o Val(b, "x2") IN
  CASE tag = "Esc_n"  -> <<"\n">>
    [] tag = "Esc_t"  -> <<"\t">>
    [] tag = "Esc_b"  -> <<"backspace">>
    [] tag = "Esc_\\" -> <<"\\">>
    [] tag = "Esc8" /\ digits[1] \in CharSet("89abcdefABCDEF") -> <<"panic">>
    [] OTHER -> <<"0x" \o Spell(digits)>>

XRule == In("abcdefABCDEF0123456789")

OpRule ==
  Cat(<<R("Blanks"), Not(Lit("//"), "//"), Not(Lit("/*"), "/*"), Do("Op", As("text", Plus(In(OpChars))))>>)
OpNode(b, r) == <<[k |-> "Ident", range |-> r, mod |-> <<>>, text |-> Val(b, "text")]>>

TypeOpRule == Cat(<<R("Blanks"), Do("TypeOp", As("text", Plus(In("!&?"))))>>)
TypeOpNode(b, r) == OpNode(b, r)

ModNameRule == Cat(<<R("Blanks"), Do("ModName", As("text", Cat(<<Lit("#"), Word>>)))>>)
ModNameNode(b, r) == <<[k |-> "ModTag", range |-> r, text |-> Val(b, "text")]>>

NoKeyword == Not(Lit("import"), "import")
NoTypeVar == Not(R("TypeVar"), "TypeVar")

IdentCRule ==
  Cat(<<R("Blanks"), NoTypeVar, NoKeyword, Do("IdentC", As("text", Cat(<<Word, Lit(":")>>)))>>)
IdentCNode(b, r) == OpNode(b, r)

CIdentRule ==
  Pick("tok", Cat(<<R("Blanks"), Lit(":"), NoTypeVar, NoKeyword, As("tok", Do("CIdent", As("text", Word)))>>))
CIdentNode(b, r) == OpNode(b, r)

IdentRule ==
  Cat(<<R("Blanks"), NoTypeVar, NoKeyword, Do("Ident", Cat(<<As("text", Word), Not(Lit(":"), ":")>>))>>)
IdentNode(b, r) == OpNode(b, r)

TypeVarRule ==
  Cat(<<R("Blanks"), Do("TypeVar", As("text", Cat(<<In("ABCDEFGHIJKLMNOPQRSTUVWXYZ"), WordEnd>>)))>>)
TypeVarNode(b, r) == OpNode(b, r)

BlanksRule == Do("Blanks", Star(Alt(<<R("Space"), R("Cmnt")>>)))
BlanksNode == <<>>

CmntRule ==
  Alt(<<Cat(<<Lit("//"), Star(Cat(<<Not(Lit("\n"), "\n"), AnyChar>>))>>),
        Cat(<<Lit("/*"), Star(Cat(<<Not(Lit("*/"), "*/"), AnyChar>>)), Lit("*/")>>)>>)

SpaceRule == Do("Space", Plus(Alt(<<Lit(" "), Lit("\t"), Lit("\n")>>)))
SpaceNode == <<>>

EOFRule == Not(AnyChar, ".")
\* e, any number of e after the separator, and perhaps a separator at the end.
Listed(first, rest, e, sep) ==
  <<As(first, e), As(rest, Star(Pick("item", Cat(<<R("Blanks"), Lit(sep), As("item", e)>>)))),
    Opt(Cat(<<R("Blanks"), Lit(sep)>>))>>

(***************************************************************************)
(* Types                                                                   *)
(***************************************************************************)
Underscore == Cat(<<Lit("_"), WordEnd>>)

TypeName(r, var, mod, name, args) ==
  [k |-> "TypeName", range |-> r, var |-> var, mod |-> mod, name |-> name, args |-> args]

\* A parameter, field, case or variable; typ has at most one type.
Var(r, name, typ) == [k |-> "Var", range |-> r, name |-> name, type |-> typ]

\* The range from the start of x to the end of its type t, if it has one.
Through(x, t) == <<x.range[1], IF t = <<>> THEN x.range[2] ELSE t[1].range[2]>>

TypeNameRule ==
  Alt(<<
    Do("TypeName1", Cat(<<As("tv1", Opt(R("TypeVar"))), As("ns0", Plus(R("TName")))>>)),
    Do("TypeName2", As("tv2", R("TypeVar"))),
    Cat(<<R("Blanks"),
          Do("TypeName3", Cat(<<Lit("("), As("ns1", R("TypeNameList")), R("Blanks"), Lit(")"),
                                As("ns2", Plus(R("TName")))>>))>>),
    Pick("n2", Cat(<<R("Blanks"), Lit("("), As("n2", R("TypeName")), R("Blanks"), Lit(")")>>))
  >>)
TVar(x) == TypeName(x.range, TRUE, <<>>, x.text, <<>>)
\* Each name applies to what stands before it.  The range of all names but the
\* last ends where the name starts (end = 1) or where it ends (end = 2).
Applied(args, names, start, end, last) ==
  LET Apply(a, n) == <<TypeName(<<start, n.name.range[end]>>, FALSE, n.mod, n.name.text, a)>>
      final == names[Len(names)]
  IN <<TypeName(last, FALSE, final.mod, final.name.text,
                SeqX!FoldLeft(Apply, args, SubSeq(names, 1, Len(names) - 1)))>>
TypeNameNode(tag, b, r) ==
  LET tv1 == Val(b, "tv1") ns0 == Val(b, "ns0")
      start == IF tv1 = <<>> THEN ns0[1].name.range[1] ELSE tv1[1].range[1]
  IN CASE tag = "TypeName1" ->
            Applied([i \in DOMAIN tv1 |-> TVar(tv1[i])], ns0, start, 1,
                    <<start, ns0[Len(ns0)].name.range[2]>>)
       [] tag = "TypeName2" -> <<TVar(Val(b, "tv2")[1])>>
       [] tag = "TypeName3" -> Applied(Val(b, "ns1"), Val(b, "ns2"), r[1], 2, r)

TypeNameListRule ==
  Do("TypeNameList", Cat(Listed("n0", "ns", R("TypeName"), ",")))
TypeNameListNode(b, r) == Val(b, "n0") \o Val(b, "ns")

TNameRule == Do("TName", Cat(<<As("mod", Opt(R("ModName"))), As("n", Alt(<<R("TypeOp"), R("Ident")>>))>>))
TNameNode(b, r) == <<[mod |-> Val(b, "mod"), name |-> Val(b, "n")[1]]>>

TParmRule ==
  Do("TParm", Cat(<<As("n", Alt(<<R("TypeVar"), Cat(<<R("Blanks"), Do("Underscore", Underscore)>>)>>)),
                    As("t1", Opt(R("TypeName")))>>))
TParmNode(b, r) ==
  LET n == Val(b, "n")[1] IN <<Var(Through(n, Val(b, "t1")), n.text, Val(b, "t1"))>>

TParmsRule ==
  Opt(Alt(<<Do("TParms1", As("n", R("TypeVar"))),
            Cat(<<R("Blanks"), Do("Underscores", Underscore)>>),
            Do("TParms3",
               Cat(<<R("Blanks"), Lit("(")>> \o Listed("p0", "ps", R("TParm"), ",")
                   \o <<R("Blanks"), Lit(")")>>))>>))
\* The range of a lone "_" is that of n, which is not there: the zero range.
TParmsNode(tag, b, r) ==
  CASE tag = "TParms1"     -> <<Var(RangeOf(Val(b, "n")), Val(b, "n")[1].text, <<>>)>>
    [] tag = "Underscores" -> <<Var(Zero, <<"_">>, <<>>)>>
    [] tag = "TParms3"     -> Val(b, "p0") \o Val(b, "ps")

TypeSigRule ==
  Do("TypeSig", Cat(<<As("tps", R("TParms")), As("n", Alt(<<R("Ident"), R("Op")>>))>>))
\* From the first parameter to the end of the name.
SigRange(tps, r) == <<IF tps = <<>> THEN r[1] ELSE tps[1].range[1], r[2]>>
TypeSigNode(b, r) ==
  <<[k |-> "TypeSig", range |-> SigRange(Val(b, "tps"), r), name |-> Val(b, "n")[1].text,
     parms |-> Val(b, "tps")]>>

RecvRule ==
  Do("Recv", Cat(<<As("tps", R("TParms")), As("mod", Opt(R("ModName"))), As("n", Alt(<<R("Ident"), R("Op")>>))>>))
RecvNode(b, r) ==
  <<[k |-> "Recv", range |-> SigRange(Val(b, "tps"), r), name |-> Val(b, "n")[1].text,
     parms |-> Val(b, "tps"), mod |-> Val(b, "mod")]>>

RetRule == Pick("t", Cat(<<R("Blanks"), Lit("^"), As("t", R("TypeName"))>>))
(***************************************************************************)
(* Definitions                                                             *)
(***************************************************************************)
FileRule ==
  Do("File", Cat(<<As("imports", Star(R("Import"))), As("defs", Star(R("Def"))), R("Blanks"), R("EOF")>>))
FileNode(b, r) == <<[k |-> "File", range |-> r, imports |-> Val(b, "imports"), defs |-> Val(b, "defs")]>>

\* A keyword that is written with a capital letter to export the definition.
Keyword(low, high) == As("key", Alt(<<Lit(low), Lit(high)>>))
Private(b) == Val(b, "key")[1] \in CharSet("vftm")

ImportRule ==
  Cat(<<R("Blanks"), Do("Import", Cat(<<As("kw", Alt(<<Lit("import"), Lit("Import")>>)),
                                        As("path", R("String"))>>))>>)
ImportNode(b, r) ==
  <<[k |-> "Import", range |-> r, all |-> Val(b, "kw") = Chars("Import"), path |-> Val(b, "path")[1].text]>>

DefRule == Alt(<<R("Val"), R("Fun"), R("Test"), R("Meth"), R("Type")>>)

ValRule ==
  Cat(<<R("Blanks"),
        Do("Val", Cat(<<Keyword("val", "Val"), As("id", R("Ident")), As("typ", Opt(R("TypeName"))),
                        R("Blanks"), Lit(":="), R("Blanks"), Lit("["), As("stmts", R("Stmts")),
                        R("Blanks"), Lit("]")>>))>>)
ValNode(b, r) ==
  LET id == Val(b, "id")[1] typ == Val(b, "typ") IN
  <<[k |-> "Val", range |-> r, priv |-> Private(b), var |-> Var(Through(id, typ), id.text, typ),
     init |-> Val(b, "stmts")]>>

\* "|" and the statements of a body; the value has the list as its one element.
Body == As("body", Opt(Do("Body", Cat(<<R("Blanks"), Lit("|"), As("stmts", R("Stmts"))>>))))

FunRule ==
  Cat(<<R("Blanks"),
        Do("Fun", Cat(<<Keyword("func", "Func"), As("tps", R("TParms")), R("Blanks"), Lit("["),
                        As("sig", R("FunSig")), Body, R("Blanks"), Lit("]")>>))>>)
\* stmts is empty for a declaration, and has the list of statements otherwise.
Fun(r, priv, test, recv, tps, sig, stmts) ==
  [k |-> "Fun", range |-> r, priv |-> priv, test |-> test, recv |-> recv, tparms |-> tps, sig |-> sig,
   stmts |-> stmts]
FunNode(b, r) == <<Fun(r, Private(b), FALSE, <<>>, Val(b, "tps"), Val(b, "sig")[1], Val(b, "body"))>>

TestRule ==
  Cat(<<R("Blanks"),
        Do("Test", Cat(<<Lit("test"), R("Blanks"), Lit("["), As("n", R("Ident")), R("Blanks"), Lit("|"),
                         As("stmts", R("Stmts")), R("Blanks"), Lit("]")>>))>>)
FunSig(r, sel, parms, ret) == [k |-> "FunSig", range |-> r, sel |-> sel, parms |-> parms, ret |-> ret]
TestNode(b, r) ==
  LET n == Val(b, "n")[1] IN
  <<Fun(r, TRUE, TRUE, <<>>, <<>>, FunSig(n.range, n.text, <<>>, <<>>), <<Val(b, "stmts")>>)>>

MethRule ==
  Cat(<<R("Blanks"),
        Do("Meth", Cat(<<Keyword("meth", "Meth"), As("recv", R("Recv")), As("tps", R("TParms")), R("Blanks"),
                         Lit("["), As("sig", R("FunSig")), Body, R("Blanks"), Lit("]")>>))>>)
MethNode(b, r) ==
  <<Fun(r, Private(b), FALSE, Val(b, "recv"), Val(b, "tps"), Val(b, "sig")[1], Val(b, "body"))>>

FunSigRule == Do("FunSig", Cat(<<As("ps", R("Parms")), As("r", Opt(R("Ret")))>>))
Selector(names) == SeqX!FlattenSeq(names)
\* A selector without parameters has one parm, with neither name nor type, whose
\* zero range ends it.
FunSigNode(b, r) ==
  LET ps == Val(b, "ps") IN
  IF Len(ps) = 1 /\ ps[1].name = <<>>
  THEN <<FunSig(<<ps[1].key.range[1], Zero[2]>>, ps[1].key.text, <<>>, Val(b, "r"))>>
  ELSE <<FunSig(r, Selector([i \in DOMAIN ps |-> ps[i].key.text]),
                [i \in DOMAIN ps |->
                   Var(<<ps[i].key.range[1], ps[i].type[1].range[2]>>, ps[i].name[1].text, ps[i].type)],
                Val(b, "r"))>>

ParmsRule ==
  Alt(<<Do("Parms1", As("id0", R("Ident"))),
        Do("Parms2", Cat(<<As("o", R("Op")), As("id1", R("Ident")), As("t0", R("TypeName"))>>)),
        Plus(Do("Parms3", Cat(<<As("c", R("IdentC")), As("id2", R("Ident")), As("t1", R("TypeName"))>>)))>>)
ParmsNode(tag, b, r) ==
  CASE tag = "Parms1" -> <<[key |-> Val(b, "id0")[1], name |-> <<>>, type |-> <<>>]>>
    [] tag = "Parms2" -> <<[key |-> Val(b, "o")[1], name |-> Val(b, "id1"), type |-> Val(b, "t0")]>>
    [] tag = "Parms3" -> <<[key |-> Val(b, "c")[1], name |-> Val(b, "id2"), type |-> Val(b, "t1")]>>

\* alias, fields, cases and virts each have at most one element.
TypeRule ==
  Cat(<<R("Blanks"),
        Do("Type", Cat(<<Keyword("type", "Type"), As("sig", R("TypeSig")), R("Blanks"),
                         As("typ", Alt(<<R("Alias"), R("And"), R("Or"), R("Virt")>>))>>))>>)
TypeNode(b, r) ==
  LET typ == Val(b, "typ")[1] IN
  <<[k |-> "Type", range |-> r, priv |-> Private(b), sig |-> Val(b, "sig")[1], kind |-> typ.kind,
     parts |-> typ.parts]>>

AliasRule == Do("Alias", Cat(<<R("Blanks"), Lit(":="), As("n", R("TypeName")), R("Blanks"), Lit(".")>>))
AliasNode(b, r) == <<[kind |-> "alias", parts |-> Val(b, "n")]>>

Braced(es) == Cat(<<R("Blanks"), Lit("{")>> \o es \o <<R("Blanks"), Lit("}")>>)

AndRule == Do("And", Braced(<<As("fs", Star(R("Field")))>>))
AndNode(b, r) == <<[kind |-> "and", parts |-> Val(b, "fs")]>>

FieldRule == Do("Field", Cat(<<As("n", R("IdentC")), As("t", R("TypeName"))>>))
FieldNode(b, r) ==
  LET n == Val(b, "n")[1] IN <<Var(n.range, SeqX!Front(n.text), Val(b, "t"))>>

Bar == Cat(<<R("Blanks"), Lit("|")>>)
OrRule ==
  Do("Or", Braced(<<Opt(Bar), As("c", R("Case")), As("cs", Star(Pick("c1", Cat(<<Bar, As("c1", R("Case"))>>))))>>))
OrNode(b, r) == <<[kind |-> "or", parts |-> Val(b, "c") \o Val(b, "cs")]>>

CaseRule ==
  Alt(<<Do("Case1", As("id0", R("Ident"))),
        Do("Case2", Cat(<<As("id1", R("IdentC")), As("t", R("TypeName"))>>))>>)
CaseNode(tag, b, r) ==
  LET id == (Val(b, "id0") \o Val(b, "id1"))[1] IN
  <<Var(id.range, id.text, IF tag = "Case1" THEN <<>> ELSE Val(b, "t"))>>

VirtRule == Do("Virt", Braced(<<As("vs", Plus(R("MethSig")))>>))
VirtNode(b, r) == <<[kind |-> "virt", parts |-> Val(b, "vs")]>>

MethSigRule ==
  Cat(<<R("Blanks"),
        Do("MethSig",
           Cat(<<Lit("["),
                 As("ps", Alt(<<Do("MethSig1", As("id0", R("Ident"))),
                                Do("MethSig2", Cat(<<As("op", R("Op")), As("t0", R("TypeName"))>>)),
                                Plus(Do("MethSig3", Cat(<<As("id1", R("IdentC")), As("t1", R("TypeName"))>>)))>>)),
                 As("r", Opt(R("Ret"))), R("Blanks"), Lit("]")>>))>>)
MethSigParm(tag, b) ==
  CASE tag = "MethSig1" -> <<[name |-> Val(b, "id0")[1], type |-> <<>>]>>
    [] tag = "MethSig2" -> <<[name |-> Val(b, "op")[1], type |-> Val(b, "t0")]>>
    [] tag = "MethSig3" -> <<[name |-> Val(b, "id1")[1], type |-> Val(b, "t1")]>>
MethSigNode(b, r) ==
  LET ps == Val(b, "ps")
      Typed(p) == p.type # <<>>
      typed == SelectSeq(ps, Typed)
  IN <<FunSig(r, Selector([i \in DOMAIN ps |-> ps[i].name.text]),
              [i \in DOMAIN typed |-> Var(Zero, <<>>, typed[i].type)], Val(b, "r"))>>
(***************************************************************************)
(* Statements and expressions                                              *)
(***************************************************************************)
StmtsRule == Opt(Do("Stmts", Cat(Listed("s0", "s1s", R("Stmt"), "."))))
StmtsNode(b, r) == Val(b, "s0") \o Val(b, "s1s")

StmtRule == Alt(<<R("Return"), R("Assign"), R("Expr")>>)

ReturnRule == Cat(<<R("Blanks"), Do("Return", Cat(<<Lit("^"), As("e", R("Expr"))>>))>>)
ReturnNode(b, r) ==
  LET e == Val(b, "e")[1] IN <<[k |-> "Ret", range |-> <<r[1], e.range[2]>>, expr |-> e]>>

AssignRule == Do("Assign", Cat(<<As("l", R("Lhs")), R("Blanks"), Lit(":="), As("r", R("Expr"))>>))
AssignNode(b, r) ==
  LET vars == Val(b, "l") e == Val(b, "r")[1] IN
  <<[k |-> "Assign", range |-> <<vars[1].range[1], e.range[2]>>, vars |-> vars, expr |-> e]>>

LhsRule ==
  Do("Lhs",
     Cat(<<As("id", Do("Lhs0", Cat(<<As("i0", R("Ident")), As("t0", Opt(R("TypeName")))>>))),
           As("is", Star(Do("Lhs1", Cat(<<R("Blanks"), Lit(","), As("i1", R("Ident")),
                                          As("t1", Opt(R("TypeName")))>>))))>>))
LhsVar(i, t) == <<Var(Through(i[1], t), i[1].text, t)>>
LhsNode(tag, b, r) ==
  CASE tag = "Lhs0" -> LhsVar(Val(b, "i0"), Val(b, "t0"))
    [] tag = "Lhs1" -> LhsVar(Val(b, "i1"), Val(b, "t1"))
    [] tag = "Lhs"  -> Val(b, "id") \o Val(b, "is")

ExprRule == Alt(<<R("Call"), R("Primary")>>)

\* recv is empty for a call of a function.
Call(r, recv, msgs) == [k |-> "Call", range |-> r, recv |-> recv, msgs |-> msgs]
Msg(r, mod, sel, args) == [k |-> "Msg", range |-> r, mod |-> mod, sel |-> sel, args |-> args]

CallRule ==
  Do("Call", Cat(<<As("c", Alt(<<R("Nary"), R("Binary"), R("Unary")>>)),
                   As("cs", Star(Pick("m", Cat(<<R("Blanks"), Lit(","),
                     As("m", Alt(<<R("UnaryMsg"), R("BinMsg"), R("NaryMsg")>>))>>))))>>))
\* A cascade: more messages to the receiver of the last one.
CallNode(b, r) == LET c == Val(b, "c")[1] IN <<[c EXCEPT !.msgs = @ \o Val(b, "cs")]>>

\* Messages sent one to the result of the other, the first to recv.
Chain(start, recv, msgs) ==
  SeqX!FoldLeft(LAMBDA c, m : <<Call(<<start, m.range[2]>>, c, <<m>>)>>, recv, msgs)
StartOf(recv, m) == IF recv = <<>> THEN m.range[1] ELSE recv[1].range[1]

UnaryRule == Do("Unary", Cat(<<As("r", Opt(R("Primary"))), As("ms", Plus(R("UnaryMsg")))>>))
UnaryNode(b, r) ==
  LET recv == Val(b, "r") ms == Val(b, "ms") IN Chain(StartOf(recv, ms[1]), recv, ms)

UnaryMsgRule == Do("UnaryMsg", Cat(<<As("mod", Opt(R("ModName"))), As("i", R("Ident"))>>))
UnaryMsgNode(b, r) == LET i == Val(b, "i")[1] IN <<Msg(i.range, Val(b, "mod"), i.text, <<>>)>>

OperandShort == Alt(<<R("Primary"), R("Unary")>>)   \* mutant: the shorter one first
Operand == Alt(<<R("Unary"), R("Primary")>>)
BinaryRule == Do("Binary", Cat(<<As("r", Operand), As("msgs", Plus(R("BinMsg")))>>))
BinaryNode(b, r) == Chain(RangeOf(Val(b, "r"))[1], Val(b, "r"), Val(b, "msgs"))

BinMsgRule == Do("BinMsg", Cat(<<As("mod", Opt(R("ModName"))), As("n", R("Op")), As("a", Operand)>>))
BinMsgNode(b, r) ==
  LET n == Val(b, "n")[1] IN <<Msg(<<n.range[1], r[2]>>, Val(b, "mod"), n.text, Val(b, "a"))>>

NaryRule ==
  Do("Nary", Cat(<<As("r", Opt(Alt(<<R("Binary"), R("Unary"), R("Primary")>>))), As("m", R("NaryMsg"))>>))
NaryNode(b, r) ==
  LET recv == Val(b, "r") m == Val(b, "m")[1] IN <<Call(<<StartOf(recv, m), r[2]>>, recv, <<m>>)>>

NaryMsgRule ==
  Do("NaryMsg", Cat(<<As("mod", Opt(R("ModName"))),
                      As("as", Plus(Do("Arg", Cat(<<As("n", R("IdentC")),
                        As("v", Alt(<<R("Binary"), R("Unary"), R("Primary")>>))>>))))>>))
ArgNode(b) == <<[name |-> Val(b, "n")[1], val |-> Val(b, "v")[1]]>>
NaryMsgNode(b, r) ==
  LET as == Val(b, "as") IN
  <<Msg(<<as[1].name.range[1], r[2]>>, Val(b, "mod"), Selector([i \in DOMAIN as |-> as[i].name.text]),
        [i \in DOMAIN as |-> as[i].val])>>

PrimaryRule ==
  Alt(<<Do("Primary", Cat(<<As("mod", Opt(R("ModName"))), As("i", R("Ident"))>>)),
        R("Float"), R("Int"), R("Rune"), R("String"), R("Ctor"), R("Block"),
        Pick("e", Cat(<<R("Blanks"), Lit("("), As("e", R("Expr")), R("Blanks"), Lit(")")>>))>>)
PrimaryNode(b, r) == <<[Val(b, "i")[1] EXCEPT !.mod = Val(b, "mod")]>>

CtorRule ==
  Cat(<<R("Blanks"), Do("Ctor", Cat(<<Lit("{"), As("es", Opt(R("Exprs"))), R("Blanks"), Lit("}")>>))>>)
CtorNode(b, r) == <<[k |-> "Ctor", range |-> r, args |-> Val(b, "es")]>>

ExprsRule == Do("Exprs", Cat(Listed("e0", "es", R("Expr"), ";")))
ExprsNode(b, r) == Val(b, "e0") \o Val(b, "es")

BlockRule ==
  Cat(<<R("Blanks"),
        Do("Block",
           Cat(<<Lit("["),
                 Opt(Cat(<<As("ps", Plus(Do("BlockParm", Cat(<<As("n", R("CIdent")), As("t", Opt(R("TypeName")))>>)))),
                           Bar>>)),
                 As("ss", R("Stmts")), R("Blanks"), Lit("]")>>))>>)
BlockNode(tag, b, r) ==
  CASE tag = "BlockParm" -> <<Var(r, Val(b, "n")[1].text, Val(b, "t"))>>
    [] tag = "Block"     -> <<[k |-> "Block", range |-> r, parms |-> Val(b, "ps"), stmts |-> Val(b, "ss")]>>

(***************************************************************************)
(* All rules, and what each action builds                                  *)
(***************************************************************************)
Rule ==
  [File |-> FileRule, Import |-> ImportRule, Def |-> DefRule, Val |-> ValRule, Fun |-> FunRule,
   Test |-> TestRule, Meth |-> MethRule, Recv |-> RecvRule, FunSig |-> FunSigRule, Parms |-> ParmsRule,
   Ret |-> RetRule, TypeSig |-> TypeSigRule, TParms |-> TParmsRule, TParm |-> TParmRule,
   TypeName |-> TypeNameRule, TypeNameList |-> TypeNameListRule, TName |-> TNameRule, Type |-> TypeRule,
   Alias |-> AliasRule, And |-> AndRule, Field |-> FieldRule, Or |-> OrRule, Case |-> CaseRule,
   Virt |-> VirtRule, MethSig |-> MethSigRule, Stmts |-> StmtsRule, Stmt |-> StmtRule,
   Return |-> ReturnRule, Assign |-> AssignRule, Lhs |-> LhsRule, Expr |-> ExprRule, Call |-> CallRule,
   Unary |-> UnaryRule, UnaryMsg |-> UnaryMsgRule, Binary |-> BinaryRule, BinMsg |-> BinMsgRule,
   Nary |-> NaryRule, NaryMsg |-> NaryMsgRule, Primary |-> PrimaryRule, Ctor |-> CtorRule,
   Exprs |-> ExprsRule, Block |-> BlockRule, Int |-> IntRule, Float |-> FloatRule, Rune |-> RuneRule,
   String |-> StringRule, Esc |-> EscRule, X |-> XRule, Op |-> OpRule, TypeOp |-> TypeOpRule,
   ModName |-> ModNameRule, IdentC |-> IdentCRule, CIdent |-> CIdentRule, Ident |-> IdentRule,
   TypeVar |-> TypeVarRule, Blanks |-> BlanksRule, Cmnt |-> CmntRule, Space |-> SpaceRule,
   EOF |-> EOFRule]

\* Rules that are named for error messages: their failures are reported as one.
NamedRules ==
  {"Int", "Float", "Rune", "String", "Op", "TypeOp", "ModName", "IdentC", "CIdent", "Ident", "TypeVar",
   "Blanks"}

Build(tag, b, r) ==
  CASE tag = "Blanks" -> BlanksNode
    [] tag = "Space" -> SpaceNode
    [] tag = "Ident" -> IdentNode(b, r)
    [] tag = "IdentC" -> IdentCNode(b, r)
    [] tag = "CIdent" -> CIdentNode(b, r)
    [] tag = "TypeVar" -> TypeVarNode(b, r)
    [] tag = "ModName" -> ModNameNode(b, r)
    [] tag = "Op" -> OpNode(b, r)
    [] tag = "TypeOp" -> TypeOpNode(b, r)
    [] tag = "Int" -> IntNode(b, r)
    [] tag = "Float" -> FloatNode(b, r)
    [] tag = "Rune" -> RuneNode(b, r)
    [] tag = "String0" -> StringNode(b, r, "0")
    [] tag = "String1" -> StringNode(b, r, "1")
    [] tag \in {"Esc_n", "Esc_t", "Esc_b", "Esc_\\", "Esc2", "Esc4", "Esc8"} -> EscChar(tag, b)
    [] tag = "Primary" -> PrimaryNode(b, r)
    [] tag = "Ctor" -> CtorNode(b, r)
    [] tag = "Exprs" -> ExprsNode(b, r)
    [] tag \in {"Block", "BlockParm"} -> BlockNode(tag, b, r)
    [] tag = "Arg" -> ArgNode(b)
    [] tag = "NaryMsg" -> NaryMsgNode(b, r)
    [] tag = "Nary" -> NaryNode(b, r)
    [] tag = "BinMsg" -> BinMsgNode(b, r)
    [] tag = "Binary" -> BinaryNode(b, r)
    [] tag = "UnaryMsg" -> UnaryMsgNode(b, r)
    [] tag = "Unary" -> UnaryNode(b, r)
    [] tag = "Call" -> CallNode(b, r)
    [] tag \in {"Lhs", "Lhs0", "Lhs1"} -> LhsNode(tag, b, r)
    [] tag = "Assign" -> AssignNode(b, r)
    [] tag = "Return" -> ReturnNode(b, r)
    [] tag = "Stmts" -> StmtsNode(b, r)
    [] tag \in {"MethSig1", "MethSig2", "MethSig3"} -> MethSigParm(tag, b)
    [] tag = "MethSig" -> MethSigNode(b, r)
    [] tag = "Virt" -> VirtNode(b, r)
    [] tag \in {"Case1", "Case2"} -> CaseNode(tag, b, r)
    [] tag = "Or" -> OrNode(b, r)
    [] tag = "Field" -> FieldNode(b, r)
    [] tag = "And" -> AndNode(b, r)
    [] tag = "Alias" -> AliasNode(b, r)
    [] tag = "Type" -> TypeNode(b, r)
    [] tag \in {"Parms1", "Parms2", "Parms3"} -> ParmsNode(tag, b, r)
    [] tag = "FunSig" -> FunSigNode(b, r)
    [] tag = "Recv" -> RecvNode(b, r)
    [] tag = "Meth" -> MethNode(b, r)
    [] tag = "Test" -> TestNode(b, r)
    [] tag = "Fun" -> FunNode(b, r)
    [] tag = "Body" -> <<Val(b, "stmts")>>
    [] tag = "Val" -> ValNode(b, r)
    [] tag = "Import" -> ImportNode(b, r)
    [] tag = "File" -> FileNode(b, r)
    [] tag = "TypeSig" -> TypeSigNode(b, r)
    [] tag \in {"TypeName1", "TypeName2", "TypeName3"} -> TypeNameNode(tag, b, r)
    [] tag = "TypeNameList" -> TypeNameListNode(b, r)
    [] tag = "TName" -> TNameNode(b, r)
    [] tag = "Underscore" -> <<[k |-> "Ident", range |-> r, mod |-> <<>>, text |-> <<"_">>]>>
    [] tag = "TParm" -> TParmNode(b, r)
    [] tag \in {"TParms1", "Underscores", "TParms3"} -> TParmsNode(tag, b, r)
=============================================================================
