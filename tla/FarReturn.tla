----------------------------- MODULE FarReturn -----------------------------
(***************************************************************************)
(* How generated programs return from within block literals and how they   *)
(* end (src/gengo/gen.go: catchFarRet, genRet, genCall; src/gengo/merge.go:*)
(* nextToken, recoverTestLoc, runTest, main).                              *)
(*                                                                         *)
(* A function whose blocks may return from it (CanFarRet) draws a fresh    *)
(* token when it is entered and stores it in the blocks it makes; a block  *)
(* hands its own token on to the blocks it makes.  A far return panics     *)
(* with the token, and each function that has one recovers: it returns if  *)
(* the token is its own and panics again if not.  The same unwinding       *)
(* carries the panics of the program, which end a test (runTest) or the    *)
(* program (main), and those of Go itself, which end the program.          *)
(*                                                                         *)
(* The model has the stack of Go calls.  Which functions are called, which *)
(* blocks they make, keep and call, is left open: any block that was made  *)
(* may be called later, when its home has returned, too.                   *)
(***************************************************************************)
EXTENDS Naturals, Sequences

CONSTANTS
  Tests,    \* number of tests of the program, 0 if it is not a test executable
  MaxHomes, \* bound on the number of tokens
  MaxDepth  \* bound on the depth of calls

ASSUME BoundAssumption == Tests \in Nat /\ MaxHomes \in Nat /\ MaxDepth \in Nat

VARIABLES
  stack,        \* the Go calls above main, outermost first
  tokenCounter, \* the token drawn last
  homes,        \* history: number of activations that have drawn a token
  blocks,       \* the block values made so far
  panic,        \* the panic that unwinds the stack
  todo,         \* what main has yet to call: "init", "main" or "test"
  results,      \* what runTest has printed
  exitStatus,   \* the variable of a test executable that becomes its status
  exit          \* status of the ended program, Running while it runs

\* Not a status.
Running == 3

vars == <<stack, tokenCounter, homes, blocks, panic, todo, results, exitStatus, exit>>

\* A call.  home: history, the number of the activation that token stands for.
\* Token 0 is that of a function without CanFarRet.
Calls == [kind : {"fun", "block", "test", "runTest"}, token : Nat, home : Nat]

Blocks == [token : Nat, home : Nat]

\* ret: a retToken; val: a panicVal; error: a run-time error of Go.
Panics == [kind : {"none", "ret", "val", "error"}, token : Nat, home : Nat]

NoPanic == [kind |-> "none", token |-> 0, home |-> 0]

TypeOK ==
  /\ stack \in Seq(Calls)
  /\ tokenCounter \in Nat /\ homes \in Nat
  /\ blocks \subseteq Blocks
  /\ panic \in Panics
  /\ todo \in Seq({"init", "main", "test"})
  /\ results \in Seq({"ok", "failed"})
  /\ exitStatus \in {0, 1} /\ exit \in {0, 1, 2, Running}

Init ==
  /\ stack = <<>> /\ tokenCounter = 0 /\ homes = 0 /\ blocks = {} /\ panic = NoPanic
  /\ todo = <<"init">> \o (IF Tests = 0 THEN <<"main">> ELSE [i \in 1..Tests |-> "test"])
  /\ results = <<>> /\ exitStatus = 0 /\ exit = Running

-----------------------------------------------------------------------------
(* Calls, blocks and returns *)

Depth == Len(stack)
Top == stack[Depth]
Pop == SubSeq(stack, 1, Depth - 1)

\* Code of the program runs: no panic is under way and main has called it.
Runs == exit = Running /\ panic = NoPanic /\ stack # <<>>

\* Mutant: the counter is read but not advanced.
sameToken == tokenCounter

nextToken == tokenCounter + 1

\* A function is entered; one with CanFarRet draws a token and defers.
PushFun(below, kind, canFarRet) ==
  /\ Len(below) < MaxDepth
  /\ canFarRet => homes < MaxHomes
  /\ tokenCounter' = IF canFarRet THEN nextToken ELSE tokenCounter
  /\ homes' = IF canFarRet THEN homes + 1 ELSE homes
  /\ stack' = Append(below,
       [kind |-> kind, token |-> IF canFarRet THEN nextToken ELSE 0,
        home |-> IF canFarRet THEN homes + 1 ELSE 0])

\* genCall; in the text of a test a function that recovers stands in between.
CallFun(canFarRet) ==
  /\ Runs
  /\ PushFun(stack, "fun", canFarRet)
  /\ UNCHANGED <<blocks, panic, todo, results, exitStatus, exit>>

\* Mutant: a block does not hand its token on to the blocks it makes.
MakeBlockNoToken ==
  /\ Runs
  /\ blocks' = blocks \cup {[token |-> IF Top.kind = "block" THEN 0 ELSE Top.token,
                             home |-> Top.home]}
  /\ UNCHANGED <<stack, tokenCounter, homes, panic, todo, results, exitStatus, exit>>

\* genMakeAnd: the block gets the variable token of the call that makes it.
MakeBlock ==
  /\ Runs
  /\ blocks' = blocks \cup {[token |-> Top.token, home |-> Top.home]}
  /\ UNCHANGED <<stack, tokenCounter, homes, panic, todo, results, exitStatus, exit>>

\* genVirtCall and the preamble of a block function: token := p0.token.
CallBlock(b) ==
  /\ Runs /\ Depth < MaxDepth
  /\ b \in blocks
  /\ stack' = Append(stack, [kind |-> "block", token |-> b.token, home |-> b.home])
  /\ UNCHANGED <<tokenCounter, homes, blocks, panic, todo, results, exitStatus, exit>>

\* A call returns; a test returns to runTest, which prints ok and returns.
Leave ==
  IF Top.kind = "test"
  THEN stack' = SubSeq(stack, 1, Depth - 2) /\ results' = Append(results, "ok")
  ELSE stack' = Pop /\ UNCHANGED results

Return ==
  /\ Runs
  /\ Leave
  /\ UNCHANGED <<tokenCounter, homes, blocks, panic, todo, exitStatus, exit>>

\* genRet: a block of a function with CanFarRet panics with its token.
FarRet ==
  /\ Runs /\ Top.kind = "block" /\ Top.home # 0
  /\ panic' = [kind |-> "ret", token |-> Top.token, home |-> Top.home]
  /\ UNCHANGED <<stack, tokenCounter, homes, blocks, todo, results, exitStatus, exit>>

Throw(kind) ==
  /\ Runs
  /\ panic' = [kind |-> kind, token |-> 0, home |-> 0]
  /\ UNCHANGED <<stack, tokenCounter, homes, blocks, todo, results, exitStatus, exit>>

\* genPanic
Panic == Throw("val")

\* The Go code of an operation panics: an index out of range, a division by zero.
RuntimeError == Throw("error")

-----------------------------------------------------------------------------
(* Unwinding *)

Unwinds == exit = Running /\ panic # NoPanic

\* Functions with a token of their own recover.
Catches(c) == c.kind \in {"fun", "test"} /\ c.token # 0

\* Mutant: any far return is taken for one's own.
IsAnyones == Catches(Top) /\ panic.kind = "ret"

\* catchFarRet
IsMine == Catches(Top) /\ panic.kind = "ret" /\ panic.token = Top.token

Catch ==
  /\ Unwinds /\ stack # <<>> /\ IsMine
  /\ panic' = NoPanic
  /\ Leave
  /\ UNCHANGED <<tokenCounter, homes, blocks, todo, exitStatus, exit>>

\* Mutant: a function that does not catch a far return tries again.
PassNowhere ==
  /\ Unwinds /\ stack # <<>> /\ Top.kind # "runTest" /\ ~ IsMine
  /\ stack' = IF Catches(Top) /\ panic.kind = "ret" THEN stack ELSE Pop
  /\ UNCHANGED <<panic, tokenCounter, homes, blocks, todo, results, exitStatus, exit>>

\* Any other call is left: catchFarRet and recoverTestLoc panic again.
Pass ==
  /\ Unwinds /\ stack # <<>> /\ Top.kind # "runTest" /\ ~ IsMine
  /\ stack' = Pop
  /\ UNCHANGED <<panic, tokenCounter, homes, blocks, todo, results, exitStatus, exit>>

\* Mutant: a failure is printed, but main is not told of it.
TestFailsUncounted ==
  /\ Unwinds /\ stack # <<>> /\ Top.kind = "runTest" /\ panic.kind = "val"
  /\ results' = Append(results, "failed")
  /\ stack' = Pop
  /\ panic' = NoPanic
  /\ UNCHANGED <<tokenCounter, homes, blocks, todo, exitStatus, exit>>

\* Mutant: runTest recovers from the rest, too, and prints ok.
PassTestOk ==
  /\ Unwinds /\ stack # <<>> /\ Top.kind = "runTest" /\ panic.kind # "val"
  /\ stack' = Pop
  /\ panic' = NoPanic
  /\ results' = Append(results, "ok")
  /\ UNCHANGED <<tokenCounter, homes, blocks, todo, exitStatus, exit>>

\* runTest prints the failure of a panicVal and panics again for the rest.
TestFails ==
  /\ Unwinds /\ stack # <<>> /\ Top.kind = "runTest" /\ panic.kind = "val"
  /\ results' = Append(results, "failed")
  /\ exitStatus' = 1
  /\ stack' = Pop
  /\ panic' = NoPanic
  /\ UNCHANGED <<tokenCounter, homes, blocks, todo, exit>>

PassTest ==
  /\ Unwinds /\ stack # <<>> /\ Top.kind = "runTest" /\ panic.kind # "val"
  /\ stack' = Pop
  /\ UNCHANGED <<tokenCounter, homes, blocks, panic, todo, results, exitStatus, exit>>

\* main's deferred function prints a message, and main returns: status 0.
MainRecovers ==
  /\ Unwinds /\ stack = <<>> /\ panic.kind # "error"
  /\ exit' = 0
  /\ UNCHANGED <<stack, tokenCounter, homes, blocks, panic, todo, results, exitStatus>>

\* It panics again for the rest: Go's run time ends the program with status 2.
MainDies ==
  /\ Unwinds /\ stack = <<>> /\ panic.kind = "error"
  /\ exit' = 2
  /\ UNCHANGED <<stack, tokenCounter, homes, blocks, panic, todo, results, exitStatus>>

-----------------------------------------------------------------------------
(* main *)

MainCalls(canFarRet) ==
  /\ exit = Running /\ panic = NoPanic /\ stack = <<>> /\ todo # <<>>
  /\ todo' = Tail(todo)
  /\ IF Head(todo) = "test"
     THEN PushFun(<<[kind |-> "runTest", token |-> 0, home |-> 0]>>,
                  "test", canFarRet)
     ELSE PushFun(<<>>, "fun", canFarRet)
  /\ UNCHANGED <<blocks, panic, results, exitStatus, exit>>

MainReturns ==
  /\ exit = Running /\ panic = NoPanic /\ stack = <<>> /\ todo = <<>>
  /\ exit' = exitStatus
  /\ UNCHANGED <<stack, tokenCounter, homes, blocks, panic, todo, results, exitStatus>>

Exited == exit # Running /\ UNCHANGED vars

Next ==
  \/ \E canFarRet \in BOOLEAN : CallFun(canFarRet) \/ MainCalls(canFarRet)
  \/ MakeBlock
  \/ \E b \in blocks : CallBlock(b)
  \/ Return \/ FarRet \/ Panic \/ RuntimeError
  \/ Catch \/ Pass \/ TestFails \/ PassTest \/ MainRecovers \/ MainDies
  \/ MainReturns \/ Exited

Spec == Init /\ [][Next]_vars

\* Go unwinds a panic without waiting for anything.
FairSpec == Spec /\ WF_vars(Catch \/ Pass \/ TestFails \/ PassTest \/ MainRecovers \/ MainDies)

-----------------------------------------------------------------------------
(* Properties *)

\* Whether the call at position i is the activation a far return goes to.
IsHome(i, home) == stack[i].kind \in {"fun", "test"} /\ stack[i].home = home

\* A far return ends in the very activation whose block it is left from, even if
\* others of the same function are nearer to the top of the stack.
CaughtAtHome ==
  [][panic.kind = "ret" /\ panic'.kind = "none" => IsHome(Depth, panic.home)]_vars

\* While a far return unwinds the stack, its home is not left behind: the program
\* gives up on it only if the home had returned before.
HomeNotPassed ==
  [][\A i \in 1..Depth : panic.kind = "ret" /\ IsHome(i, panic.home) /\ Len(stack') < i =>
       i = Depth /\ panic' = NoPanic]_vars

\* What the lines of runTest and the status tell when the program has ended.  The result of every
\* test is told, unless the program ended unwinding: by a far return that nothing catches,
\* by a panic before the first test, or by a run-time error of Go, which a test does not
\* survive (merge.go:168-169, 182-188).  The status is 1 if and only if all tests have run and
\* one has failed, and 2 if and only if a run-time error ended the program.
StatusTells ==
  exit # Running =>
    /\ Len(results) = Tests <=> panic = NoPanic \/ Tests = 0
    /\ panic.kind = "val" => results = <<>>
    /\ exit = 1 <=> panic = NoPanic /\ \E i \in 1..Len(results) : results[i] = "failed"
    /\ exit = 2 <=> panic.kind = "error"

\* Each far return and each panic is over at some time.
UnwindingEnds == Unwinds ~> ~ Unwinds

-----------------------------------------------------------------------------
(* Refinement: for the program, a far return, a panic or an error happens at once. *)

\* The calls that are left when the panic is over, and whether it ends the program.
Homes == {i \in 1..Depth : IsHome(i, panic.home)}
RunTests == {i \in 1..Depth : stack[i].kind = "runTest"}

Landing ==
  CASE panic.kind = "none" -> {Depth + 1}
    [] panic.kind = "ret" -> Homes
    [] panic.kind = "val" -> RunTests
    [] panic.kind = "error" -> {}

AbstractCall(c) ==
  [kind |-> IF c.kind = "test" THEN "fun" ELSE c.kind, home |-> c.home]

\* A test that returns takes its runTest with it.
Below(i) == IF i > 1 /\ i <= Depth /\ stack[i].kind = "test" THEN i - 2 ELSE i - 1

AbstractCalls ==
  IF Landing = {} \/ exit # Running THEN <<>>
  ELSE LET i == CHOOSE i \in Landing : TRUE
       IN [j \in 1..Below(i) |-> AbstractCall(stack[j])]

AbstractResults ==
  CASE panic.kind = "ret" /\ (\E i \in Homes : stack[i].kind = "test") -> Append(results, "ok")
    [] panic.kind = "val" /\ RunTests # {} -> Append(results, "failed")
    [] OTHER -> results

Abstract == INSTANCE NonLocalReturn WITH
  calls <- AbstractCalls,
  blocks <- {b.home : b \in blocks},
  results <- AbstractResults,
  over <- exit # Running \/ Landing = {}

Implements == Abstract!Spec
=============================================================================
