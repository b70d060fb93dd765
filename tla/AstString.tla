------------------------------ MODULE AstString -----------------------------
(***************************************************************************)
(* ast/string.go: how a definition's signature is written in messages.     *)
(***************************************************************************)
EXTENDS Grammar

\* Words of a text, with one space between any two.
Spaced(words) == IF words = <<>> THEN <<>>
                 ELSE SeqX!FoldLeft(LAMBDA s, w : s \o <<" ">> \o w, words[1], Tail(words))
Commas(words) == IF words = <<>> THEN <<>>
                 ELSE SeqX!FoldLeft(LAMBDA s, w : s \o Chars(", ") \o w, words[1], Tail(words))
InParens(s) == <<"(">> \o s \o <<")">>

\* unicode.IsPunct of the first character: of the characters of operators, some
\* are symbols and not punctuation, and an underscore is punctuation.
isOpType(name) == name[1] \in CharSet("!%&*-/?@\\_")

ModText(mod) == IF mod = <<>> THEN <<>> ELSE Append(mod[1].text, " ")

RECURSIVE TypeNameString(_)
\* mutant: no space between two operators
TypeNameStringTight(n) ==
  LET opName == n.mod = <<>> /\ isOpType(n.name)
      args == IF Len(n.args) < 2 THEN SeqX!FlattenSeq([i \in DOMAIN n.args |-> TypeNameString(n.args[i])])
              ELSE InParens(Commas([i \in DOMAIN n.args |-> TypeNameString(n.args[i])]))
  IN args \o (IF opName \/ n.args = <<>> THEN <<>> ELSE <<" ">>) \o ModText(n.mod) \o n.name
TypeNameString(n) ==
  LET space(no) == IF no THEN <<>> ELSE <<" ">>
      opName == n.mod = <<>> /\ isOpType(n.name)
      args == CASE Len(n.args) = 0 -> <<>>
                [] Len(n.args) = 1 ->
                     TypeNameString(n.args[1]) \o space(opName /\ ~isOpType(n.args[1].name))
                [] OTHER ->
                     InParens(Commas([i \in DOMAIN n.args |-> TypeNameString(n.args[i])])) \o space(opName)
  IN args \o ModText(n.mod) \o n.name

VarString(v) == v.name \o IF v.type = <<>> THEN <<>> ELSE <<" ">> \o TypeNameString(v.type[1])
Bare(parms) == Len(parms) = 1 /\ parms[1].type = <<>>
TypeParms(parms) == InParens(Commas([i \in DOMAIN parms |-> VarString(parms[i])]))

\* Parameters, and a space if the name would run into them.
ParmsBefore(parms, mod, name) ==
  CASE parms = <<>> -> <<>>
    [] parms # <<>> -> (IF Bare(parms) THEN parms[1].name ELSE TypeParms(parms))
                       \o IF mod # <<>> \/ ~isOpType(name) THEN <<" ">> ELSE <<>>
RecvString(n)    == ParmsBefore(n.parms, n.mod, n.name) \o ModText(n.mod) \o n.name
TypeSigString(n) == ParmsBefore(n.parms, <<>>, n.name) \o n.name

\* strings.SplitAfter(sel, ":")
SplitAfter(sel) ==
  LET ends == SeqX!SetToSortSeq({i \in DOMAIN sel : sel[i] = ":"} \cup {Len(sel)}, <)
  IN [i \in DOMAIN ends |-> SubSeq(sel, IF i = 1 THEN 1 ELSE ends[i - 1] + 1, ends[i])]
FunSigString(n, def) ==
  LET keys == SplitAfter(n.sel)
      Parm(v) == CASE v.name = <<>> -> TypeNameString(v.type[1]) [] OTHER -> VarString(v)
  IN <<"[">>
     \o (IF n.parms = <<>> THEN n.sel
         ELSE Spaced([i \in DOMAIN n.parms |-> keys[i] \o <<" ">> \o Parm(n.parms[i])]))
     \o (IF n.ret = <<>> THEN <<>> ELSE Chars(" ^") \o TypeNameString(n.ret[1]))
     \o (IF def THEN Chars(" |]") ELSE <<"]">>)

KeyText(d, low, high) == Chars(IF d.priv THEN low ELSE high)
ValString(d) == KeyText(d, "val ", "Val ") \o VarString(d.var)
FunString(d) ==
  (IF d.recv = <<>> THEN KeyText(d, "func ", "Func ")
   ELSE KeyText(d, "meth ", "Meth ") \o Append(RecvString(d.recv[1]), " "))
  \o (CASE d.tparms = <<>> -> <<>>
        [] d.tparms # <<>> -> Append(IF Bare(d.tparms) THEN d.tparms[1].name ELSE TypeParms(d.tparms), " "))
  \o FunSigString(d.sig, d.stmts # <<>>)
TypeString(d) == KeyText(d, "type ", "Type ") \o TypeSigString(d.sig)
=============================================================================
