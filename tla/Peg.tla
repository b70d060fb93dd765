-------------------------------- MODULE Peg --------------------------------
(***************************************************************************)
(* Parsing expressions: the notation of ast/grammar.peggy, as data.        *)
(*                                                                         *)
(* The generator of ast/grammar.go writes three Go functions for a rule    *)
(* (Accepts, Fail and Action), each of which walks the rule's expression.  *)
(* The rules are in Grammar, the three walks in Parser.                    *)
(*                                                                         *)
(* A text is a sequence of one-character strings.                          *)
(***************************************************************************)
EXTENDS Integers, Sequences, FiniteSets, TLC

\* The text that a string spells.
Chars(s) == [i \in 1..Len(s) |-> SubSeq(s, i, i)]

CharSet(s) == {SubSeq(s, i, i) : i \in 1..Len(s)}

Lit(s)       == [op |-> "lit", text |-> Chars(s), want |-> s]
In(s)        == [op |-> "in", chars |-> CharSet(s), want |-> "[" \o s \o "]"]
NotIn(s)     == [op |-> "notin", chars |-> CharSet(s), want |-> "[^" \o s \o "]"]
AnyChar      == [op |-> "any", want |-> "."]
R(name)      == [op |-> "rule", rule |-> name]
Cat(es)      == [op |-> "cat", es |-> es]
Alt(es)      == [op |-> "alt", es |-> es]
Star(e)      == [op |-> "star", e |-> e]
Plus(e)      == [op |-> "plus", e |-> e]
Opt(e)       == [op |-> "opt", e |-> e]
Not(e, want) == [op |-> "not", e |-> e, want |-> "!" \o want]
As(label, e) == [op |-> "as", label |-> label, e |-> e]    \* label:e
Do(tag, e)   == [op |-> "do", tag |-> tag, e |-> e]        \* e { ... }
Pick(label, e) == [op |-> "pick", label |-> label, e |-> e]  \* e { return label }

\* Is literal l at position p (from 0) of text t?
At(t, p, l) == p + Len(l) <= Len(t) /\ SubSeq(t, p + 1, p + Len(l)) = l

\* The value of a label of the environment b of a rule, empty until it is set.
Val(b, label) == IF label \in DOMAIN b THEN b[label] ELSE <<>>

Maximum(a, b) == IF a > b THEN a ELSE b
=============================================================================
