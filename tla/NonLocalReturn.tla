--------------------------- MODULE NonLocalReturn ---------------------------
(***************************************************************************)
(* What a ^ statement within a block literal means, whichever way it is    *)
(* implemented: the activation of the function whose text encloses the     *)
(* block returns, however many calls deep the block is called; if that     *)
(* activation is gone, the program ends.  A panic ends the innermost       *)
(* running test, or the program; an error always ends the program.         *)
(*                                                                         *)
(* This is the abstract specification that the generated Go code, with its *)
(* tokens, panics and deferred recovers, is shown to implement in module   *)
(* FarReturn.                                                              *)
(***************************************************************************)
EXTENDS Naturals, Sequences

CONSTANT MaxHomes \* bound on the number of activations that blocks may return from

VARIABLES
  calls,  \* the activations, outermost first
  homes,  \* number of activations so far that blocks may return from
  blocks, \* the homes of the block values made so far, 0 if they return from none
  results, \* results of the tests that are over
  over    \* has the program ended?

vars == <<calls, homes, blocks, results, over>>

\* A function that blocks may return from has its own home number, another
\* function 0; a block has the home of the activation that made it.
Kinds == {"fun", "block", "runTest"}
Call(kind, home) == [kind |-> kind, home |-> home]

TypeOK ==
  /\ calls \in Seq([kind : Kinds, home : Nat])
  /\ homes \in Nat
  /\ blocks \subseteq Nat
  /\ results \in Seq({"ok", "failed"})
  /\ over \in BOOLEAN

Init == calls = <<>> /\ homes = 0 /\ blocks = {} /\ results = <<>> /\ over = FALSE

\* A function is called, perhaps as a test.
Enter(home, asTest) ==
  /\ ~ over
  /\ home = 0 \/ (home = homes + 1 /\ home <= MaxHomes)
  /\ homes' = IF home = 0 THEN homes ELSE home
  /\ calls' = calls \o (IF asTest THEN <<Call("runTest", 0)>> ELSE <<>>)
                    \o <<Call("fun", home)>>
  /\ UNCHANGED <<blocks, results, over>>

MakeBlock ==
  /\ ~ over /\ calls # <<>>
  /\ blocks' = blocks \cup {calls[Len(calls)].home}
  /\ UNCHANGED <<calls, homes, results, over>>

EnterBlock(home) ==
  /\ ~ over /\ calls # <<>>
  /\ home \in blocks
  /\ calls' = Append(calls, Call("block", home))
  /\ UNCHANGED <<homes, blocks, results, over>>

IsTest(i) == i > 1 /\ calls[i - 1].kind = "runTest"

\* The call at position i returns, and all calls within it are dropped.
ReturnFrom(i) ==
  /\ calls' = SubSeq(calls, 1, IF IsTest(i) THEN i - 2 ELSE i - 1)
  /\ results' = IF IsTest(i) THEN Append(results, "ok") ELSE results
  /\ UNCHANGED <<homes, blocks, over>>

Return == ~ over /\ calls # <<>> /\ ReturnFrom(Len(calls))

\* The innermost call is a block that returns from its home.
FarReturns ==
  LET top == calls[Len(calls)]
  IN ~ over /\ calls # <<>> /\ top.kind = "block" /\ top.home # 0

IsHome(i) == calls[i] = Call("fun", calls[Len(calls)].home)

FarReturn(i) == FarReturns /\ IsHome(i) /\ ReturnFrom(i)

End == over' = TRUE /\ calls' = <<>> /\ UNCHANGED <<homes, blocks, results>>

\* Its home is gone.
FarReturnNowhere == FarReturns /\ (\A i \in 1..Len(calls) : ~ IsHome(i)) /\ End

\* A panic ends the innermost test, at position i, or else the program.
Panic(i) ==
  /\ ~ over /\ calls # <<>>
  /\ calls[i].kind = "runTest"
  /\ \A j \in i + 1..Len(calls) : calls[j].kind # "runTest"
  /\ calls' = SubSeq(calls, 1, i - 1)
  /\ results' = Append(results, "failed")
  /\ UNCHANGED <<homes, blocks, over>>

PanicNoTest ==
  /\ ~ over /\ calls # <<>>
  /\ \A j \in 1..Len(calls) : calls[j].kind # "runTest"
  /\ End

\* An operation fails.
Error == ~ over /\ calls # <<>> /\ End

Exit == ~ over /\ calls = <<>> /\ End

Next ==
  \/ \E home \in 0..MaxHomes, asTest \in BOOLEAN : Enter(home, asTest)
  \/ MakeBlock
  \/ \E home \in blocks : EnterBlock(home)
  \/ Return
  \/ \E i \in 1..Len(calls) : FarReturn(i) \/ Panic(i)
  \/ FarReturnNowhere \/ PanicNoTest \/ Error
  \/ Exit

Spec == Init /\ [][Next]_vars
=============================================================================
