-------------------------- MODULE FarReturnProofs --------------------------
(* Proofs for FarReturn, for any number of tests and any bounds. *)
EXTENDS FarReturn, SequenceTheorems, TLAPS

\* A call's token stands for its home, and a test is called by runTest.
StackInv(s) ==
  /\ s \in Seq(Calls)
  /\ \A i \in 1..Len(s) : s[i].token = s[i].home
  /\ \A i \in 1..Len(s) : s[i].kind = "test" => i > 1 /\ s[i - 1].kind = "runTest"

\* Tokens are the numbers of activations, also in blocks and in panics.
TokenInv ==
  /\ tokenCounter = homes
  /\ \A b \in blocks : b.token = b.home
  /\ panic.kind = "ret" => panic.token = panic.home /\ panic.home # 0

IInv == TypeOK /\ StackInv(stack) /\ TokenInv

-----------------------------------------------------------------------------
(* Stacks *)

\* A part of the stack that is left below keeps its calls.
LEMMA PopKeeps ==
  ASSUME NEW s, StackInv(s), NEW k \in 0..Len(s)
  PROVE  /\ StackInv(SubSeq(s, 1, k))
         /\ Len(SubSeq(s, 1, k)) = k
<1> DEFINE t == SubSeq(s, 1, k)
<1>1. Len(s) \in Nat /\ \A i \in 1..Len(s) : s[i] \in Calls
  BY DEF StackInv
<1>2. k \in Int /\ 1..k \subseteq 1..Len(s)
  BY <1>1
<1>3. t \in Seq(Calls)
  <2>1. \A i \in 1..k : s[i] \in Calls
    BY <1>1, <1>2
  <2> QED
    BY <2>1, <1>2, SubSeqProperties
<1>4. Len(t) = k /\ \A i \in 1..k : t[i] = s[i]
  <2>1. \A i \in 1..k : s[i] \in Calls
    BY <1>1, <1>2
  <2>2. /\ Len(t) = IF 1 <= k THEN k - 1 + 1 ELSE 0
        /\ \A i \in 1..(k - 1 + 1) : t[i] = s[1 + i - 1]
    BY <2>1, <1>2, SubSeqProperties
  <2> QED
    BY <2>2, <1>1
<1>5. \A i \in 1..k : t[i].token = t[i].home
  BY <1>4, <1>2 DEF StackInv
<1>6. ASSUME NEW i \in 1..k, t[i].kind = "test"
      PROVE  i > 1 /\ t[i - 1].kind = "runTest"
  <2>1. i > 1 /\ s[i - 1].kind = "runTest"
    BY <1>6, <1>4, <1>2 DEF StackInv
  <2>2. i - 1 \in 1..k
    BY <2>1, <1>1
  <2> QED
    BY <2>1, <2>2, <1>4
<1> HIDE DEF t
<1>7. StackInv(t) /\ Len(t) = k
  BY <1>3, <1>4, <1>5, <1>6 DEF StackInv
<1> QED
  BY <1>7 DEF t

\* A call may be pushed if its token stands for its home.
LEMMA PushKeeps ==
  ASSUME NEW s, StackInv(s), NEW c \in Calls, c.token = c.home,
         c.kind = "test" => Len(s) > 0 /\ s[Len(s)].kind = "runTest"
  PROVE  StackInv(Append(s, c))
<1> DEFINE t == Append(s, c)
<1>1. s \in Seq(Calls) /\ Len(s) \in Nat
  BY DEF StackInv
<1>2. /\ t \in Seq(Calls) /\ Len(t) = Len(s) + 1
      /\ \A i \in 1..Len(s) : t[i] = s[i]
      /\ t[Len(s) + 1] = c
  BY <1>1, AppendProperties
<1> HIDE DEF t
<1>3. ASSUME NEW i \in 1..Len(t)
      PROVE  t[i].token = t[i].home
  <2>1. CASE i = Len(t)
    BY <2>1, <1>2
  <2>2. CASE i \in 1..Len(s)
    BY <2>2, <1>2 DEF StackInv
  <2> QED
    BY <2>1, <2>2, <1>1, <1>2
<1>4. ASSUME NEW i \in 1..Len(t), t[i].kind = "test"
      PROVE  i > 1 /\ t[i - 1].kind = "runTest"
  <2>1. CASE i = Len(t)
    <3>1. c.kind = "test" /\ i = Len(s) + 1
      BY <2>1, <1>2, <1>4
    <3>2. Len(s) \in 1..Len(s) /\ i - 1 = Len(s)
      BY <3>1, <1>1
    <3> QED
      BY <3>1, <3>2, <1>1, <1>2
  <2>2. CASE i \in 1..Len(s)
    <3>1. i > 1 /\ s[i - 1].kind = "runTest"
      BY <2>2, <1>2, <1>4 DEF StackInv
    <3>2. i - 1 \in 1..Len(s)
      BY <2>2, <3>1, <1>1
    <3> QED
      BY <3>1, <3>2, <1>2
  <2> QED
    BY <2>1, <2>2, <1>1, <1>2
<1>5. StackInv(t)
  BY <1>2, <1>3, <1>4 DEF StackInv
<1> QED
  BY <1>5 DEF t

\* The innermost call of a stack that is not empty.
LEMMA TopCall ==
  ASSUME StackInv(stack), stack # <<>>
  PROVE  /\ Depth \in Nat \ {0} /\ Top \in Calls /\ Top.token = Top.home
         /\ Top.kind = "test" => Depth > 1 /\ stack[Depth - 1].kind = "runTest"
<1>1. Depth \in Nat /\ Depth # 0
  BY EmptySeq DEF StackInv, Depth
<1>2. Depth \in 1..Depth
  BY <1>1
<1> QED
  BY <1>1, <1>2 DEF StackInv, Depth, Top

\* Returning from the innermost call keeps the stack in order.
LEMMA LeaveKeeps ==
  ASSUME IInv, stack # <<>>, Leave
  PROVE  /\ StackInv(stack') /\ results' \in Seq({"ok", "failed"})
         /\ Len(stack') = IF Top.kind = "test" THEN Depth - 2 ELSE Depth - 1
<1>1. StackInv(stack) /\ results \in Seq({"ok", "failed"})
  BY DEF IInv, TypeOK
<1>2. Depth \in Nat \ {0} /\ (Top.kind = "test" => Depth > 1)
  BY <1>1, TopCall
<1>3. CASE Top.kind = "test"
  <2>1. Depth - 2 \in 0..Len(stack)
    BY <1>2, <1>3 DEF Depth
  <2>2. results' \in Seq({"ok", "failed"})
    BY <1>1, <1>3, AppendProperties DEF Leave
  <2> QED
    BY <1>1, <1>3, <2>1, <2>2, PopKeeps DEF Leave
<1>4. CASE Top.kind # "test"
  <2>1. Depth - 1 \in 0..Len(stack)
    BY <1>2 DEF Depth
  <2> QED
    BY <1>1, <1>4, <2>1, PopKeeps DEF Leave, Pop
<1> QED
  BY <1>3, <1>4

\* Dropping the innermost call does, too.
LEMMA PopTop ==
  ASSUME IInv, stack # <<>>
  PROVE  StackInv(Pop) /\ Len(Pop) = Depth - 1
<1>1. StackInv(stack)
  BY DEF IInv
<1>2. Depth - 1 \in 0..Len(stack)
  BY <1>1, TopCall DEF Depth
<1> QED
  BY <1>1, <1>2, PopKeeps DEF Pop

-----------------------------------------------------------------------------
(* The inductive invariant *)

LEMMA InitInv == Init => IInv
<1> SUFFICES ASSUME Init PROVE IInv
  OBVIOUS
<1> DEFINE S == {"init", "main", "test"}
           tests == [i \in 1..Tests |-> "test"]
<1>1. <<"init">> \in Seq(S) /\ <<"main">> \in Seq(S)
  OBVIOUS
<1>2. tests \in Seq(S)
  BY BoundAssumption, IsASeq
<1>3. todo \in Seq(S)
  <2>1. CASE Tests = 0
    BY <2>1, <1>1, ConcatProperties DEF Init
  <2>2. CASE Tests # 0
    BY <2>2, <1>1, <1>2, ConcatProperties DEF Init
  <2> QED
    BY <2>1, <2>2
<1>4. stack \in Seq(Calls) /\ Len(stack) = 0 /\ results \in Seq({"ok", "failed"})
  BY EmptySeq DEF Init
<1>5. TypeOK
  BY <1>3, <1>4 DEF Init, TypeOK, Panics, NoPanic
<1>6. StackInv(stack)
  BY <1>4 DEF StackInv
<1>7. TokenInv
  BY DEF Init, TokenInv, NoPanic
<1> QED
  BY <1>5, <1>6, <1>7 DEF IInv

\* The token drawn next stands for the activation that draws it.
LEMMA NextToken ==
  ASSUME IInv
  PROVE  /\ homes \in Nat /\ homes + 1 \in Nat /\ tokenCounter = homes
         /\ nextToken = homes + 1
BY DEF IInv, TypeOK, TokenInv, nextToken

\* A function that is entered, with a token of its own or without one.
LEMMA PushFunKeeps ==
  ASSUME IInv, NEW below, StackInv(below),
         NEW kind \in {"fun", "test"}, NEW canFarRet \in BOOLEAN,
         kind = "test" => Len(below) > 0 /\ below[Len(below)].kind = "runTest",
         PushFun(below, kind, canFarRet)
  PROVE  /\ StackInv(stack')
         /\ tokenCounter' \in Nat /\ homes' \in Nat /\ tokenCounter' = homes'
<1>1. PICK token, home :
        /\ token \in Nat /\ home = token
        /\ stack' = Append(below,
             [kind |-> kind, token |-> token, home |-> home])
        /\ tokenCounter' \in Nat /\ homes' \in Nat /\ tokenCounter' = homes'
  <2>1. CASE canFarRet
    <3>1. /\ stack' = Append(below,
               [kind |-> kind, token |-> nextToken, home |-> homes + 1])
          /\ tokenCounter' = nextToken /\ homes' = homes + 1
      BY <2>1, Zenon DEF PushFun
    <3> QED
      BY <3>1, NextToken, Zenon
  <2>2. CASE ~ canFarRet
    <3>1. /\ stack' = Append(below,
               [kind |-> kind, token |-> 0, home |-> 0])
          /\ tokenCounter' = tokenCounter /\ homes' = homes
      BY <2>2, Zenon DEF PushFun
    <3>2. 0 \in Nat
      OBVIOUS
    <3> QED
      BY <3>1, <3>2, NextToken, Zenon
  <2> QED
    BY <2>1, <2>2
<1> DEFINE c == [kind |-> kind, token |-> token, home |-> home]
<1>2. c \in Calls /\ c.token = c.home /\ c.kind = kind
  BY <1>1 DEF Calls
<1>3. stack' = Append(below, c)
  BY <1>1
<1> HIDE DEF c
<1>4. StackInv(Append(below, c))
  BY <1>2, PushKeeps
<1> QED
  BY <1>1, <1>3, <1>4

LEMMA StepInv == IInv /\ [Next]_vars => IInv'
<1> SUFFICES ASSUME IInv, [Next]_vars PROVE IInv'
  OBVIOUS
<1> USE DEF Runs, Unwinds
<1>1. StackInv(stack) /\ TokenInv
  BY DEF IInv
<1>2. /\ stack \in Seq(Calls) /\ tokenCounter \in Nat /\ homes \in Nat
      /\ blocks \subseteq Blocks /\ panic \in Panics
      /\ todo \in Seq({"init", "main", "test"}) /\ results \in Seq({"ok", "failed"})
      /\ exitStatus \in {0, 1} /\ exit \in {0, 1, 2, Running}
  BY DEF IInv, TypeOK
<1>3. NoPanic \in Panics /\ NoPanic.kind # "ret"
  BY DEF Panics, NoPanic
\* What most actions change is the stack, the results and the panic only.
<1> DEFINE Calmly == UNCHANGED <<tokenCounter, homes, blocks, todo>>
<1>4. ASSUME Calmly, StackInv(stack'), panic' \in Panics,
             panic'.kind = "ret" => panic'.token = panic'.home /\ panic'.home # 0,
             results' \in Seq({"ok", "failed"}),
             exitStatus' \in {0, 1}, exit' \in {0, 1, 2, Running}
      PROVE  IInv'
  <2>1. TypeOK'
    BY <1>2, <1>4 DEF TypeOK, StackInv
  <2>2. TokenInv'
    BY <1>1, <1>4 DEF TokenInv
  <2> QED
    BY <2>1, <2>2, <1>4 DEF IInv
<1>5. ASSUME NEW canFarRet \in BOOLEAN, CallFun(canFarRet)
      PROVE  IInv'
  <2>1. PushFun(stack, "fun", canFarRet)
    BY <1>5 DEF CallFun
  <2>2. StackInv(stack') /\ tokenCounter' \in Nat /\ homes' \in Nat /\ tokenCounter' = homes'
    BY <2>1, <1>1, PushFunKeeps
  <2> QED
    BY <1>1, <1>2, <1>5, <2>2 DEF CallFun, IInv, TypeOK, TokenInv, StackInv
<1>6. ASSUME NEW canFarRet \in BOOLEAN, MainCalls(canFarRet)
      PROVE  IInv'
  <2> DEFINE r == [kind |-> "runTest", token |-> 0, home |-> 0]
  <2>1. StackInv(<<>>)
    BY EmptySeq DEF StackInv
  <2>2. r \in Calls /\ r.kind = "runTest" /\ r.token = r.home
    BY DEF Calls
  <2>3. <<r>> = Append(<<>>, r)
    OBVIOUS
  <2> HIDE DEF r
  <2>4. StackInv(<<r>>) /\ Len(<<r>>) = 1 /\ <<r>>[1] = r
    <3>1. StackInv(Append(<<>>, r))
      BY <2>1, <2>2, PushKeeps
    <3> QED
      BY <3>1, <2>3
  <2>5. \/ PushFun(<<r>>, "test", canFarRet)
        \/ PushFun(<<>>, "fun", canFarRet)
    BY <1>6 DEF MainCalls, r
  <2>6. StackInv(stack') /\ tokenCounter' \in Nat /\ homes' \in Nat /\ tokenCounter' = homes'
    <3>1. CASE PushFun(<<r>>, "test", canFarRet)
      <4> DEFINE below == <<r>>
      <4>1. StackInv(below) /\ Len(below) > 0 /\ below[Len(below)].kind = "runTest"
        BY <2>2, <2>4
      <4>2. PushFun(below, "test", canFarRet)
        BY <3>1
      <4> HIDE DEF below
      <4> QED
        BY <4>1, <4>2, PushFunKeeps
    <3>2. CASE PushFun(<<>>, "fun", canFarRet)
      BY <3>2, <2>1, PushFunKeeps
    <3> QED
      BY <2>5, <3>1, <3>2
  <2>7. todo' \in Seq({"init", "main", "test"})
    BY <1>2, <1>6, HeadTailProperties DEF MainCalls
  <2> QED
    BY <1>1, <1>2, <1>6, <2>6, <2>7 DEF MainCalls, IInv, TypeOK, TokenInv, StackInv
<1>7. ASSUME MakeBlock
      PROVE  IInv'
  <2>1. Top \in Calls /\ Top.token = Top.home
    BY <1>1, <1>7, TopCall DEF MakeBlock
  <2> DEFINE b == [token |-> Top.token, home |-> Top.home]
  <2>2. b \in Blocks /\ b.token = b.home /\ blocks' = blocks \cup {b}
    BY <1>7, <2>1 DEF MakeBlock, Blocks, Calls
  <2> HIDE DEF b
  <2> QED
    BY <1>1, <1>2, <1>7, <2>2 DEF MakeBlock, IInv, TypeOK, TokenInv, StackInv
<1>8. ASSUME NEW b \in blocks, CallBlock(b)
      PROVE  IInv'
  <2> DEFINE c == [kind |-> "block", token |-> b.token, home |-> b.home]
  <2>1. b \in Blocks /\ b.token = b.home
    BY <1>1, <1>2 DEF TokenInv
  <2>2. c \in Calls /\ c.token = c.home /\ c.kind # "test"
    BY <2>1 DEF Blocks, Calls
  <2>3. stack' = Append(stack, c)
    BY <1>8 DEF CallBlock
  <2> HIDE DEF c
  <2>4. StackInv(stack')
    BY <2>2, <2>3, <1>1, PushKeeps
  <2> QED
    BY <1>1, <1>2, <1>4, <1>8, <2>4 DEF CallBlock, TokenInv
<1>9. ASSUME Return
      PROVE  IInv'
  <2>1. StackInv(stack') /\ results' \in Seq({"ok", "failed"})
    BY <1>9, LeaveKeeps DEF Return
  <2> QED
    BY <1>1, <1>2, <1>4, <1>9, <2>1 DEF Return, TokenInv
<1>10. ASSUME FarRet
       PROVE  IInv'
  <2>1. Top \in Calls /\ Top.token = Top.home /\ Top.home # 0
    BY <1>1, <1>10, TopCall DEF FarRet
  <2>2. panic' \in Panics /\ panic'.token = panic'.home /\ panic'.home # 0
    BY <2>1, <1>10 DEF FarRet, Panics, Calls
  <2> QED
    BY <1>1, <1>2, <1>4, <1>10, <2>2 DEF FarRet
<1>11. ASSUME NEW kind \in {"val", "error"}, Throw(kind)
       PROVE  IInv'
  <2>1. panic' \in Panics /\ panic'.kind # "ret"
    BY <1>11 DEF Throw, Panics
  <2> QED
    BY <1>1, <1>2, <1>4, <1>11, <2>1 DEF Throw
<1>12. ASSUME Catch
       PROVE  IInv'
  <2>1. StackInv(stack') /\ results' \in Seq({"ok", "failed"})
    BY <1>12, LeaveKeeps DEF Catch
  <2> QED
    BY <1>1, <1>2, <1>3, <1>4, <1>12, <2>1 DEF Catch
<1>13. ASSUME Pass
       PROVE  IInv'
  <2>1. StackInv(stack')
    BY <1>13, PopTop DEF Pass
  <2> QED
    BY <1>1, <1>2, <1>4, <1>13, <2>1 DEF Pass, TokenInv
<1>14. ASSUME TestFails
       PROVE  IInv'
  <2>1. StackInv(stack')
    BY <1>14, PopTop DEF TestFails
  <2>2. results' \in Seq({"ok", "failed"})
    BY <1>2, <1>14, AppendProperties DEF TestFails
  <2> QED
    BY <1>1, <1>2, <1>3, <1>4, <1>14, <2>1, <2>2 DEF TestFails
<1>15. ASSUME PassTest
       PROVE  IInv'
  <2>1. StackInv(stack')
    BY <1>15, PopTop DEF PassTest
  <2> QED
    BY <1>1, <1>2, <1>4, <1>15, <2>1 DEF PassTest, TokenInv
<1>16. CASE MainRecovers \/ MainDies
  BY <1>1, <1>2, <1>4, <1>16 DEF MainRecovers, MainDies, TokenInv
<1>17. CASE MainReturns
  BY <1>1, <1>2, <1>4, <1>17 DEF MainReturns, TokenInv
<1>18. CASE Exited \/ UNCHANGED vars
  BY <1>1, <1>2, <1>4, <1>18 DEF Exited, TokenInv, vars
<1> HIDE DEF Calmly
<1> QED
  BY <1>5, <1>6, <1>7, <1>8, <1>9, <1>10, <1>11, <1>12, <1>13, <1>14, <1>15, <1>16,
     <1>17, <1>18 DEF Next, Panic, RuntimeError

LEMMA IInvariance == Spec => []IInv
BY InitInv, StepInv, PTL DEF Spec

-----------------------------------------------------------------------------
(* Theorems *)

\* Every state of a generated program has the types declared for it.
THEOREM TypeCorrect == Spec => []TypeOK
<1>1. IInv => TypeOK
  BY DEF IInv
<1> QED
  BY <1>1, IInvariance, PTL

\* A far return that is caught is caught by its home: the token that catchFarRet
\* compares is the token of one activation only, for every nesting of calls.
THEOREM CaughtAtHomeCorrect == Spec => CaughtAtHome
<1>1. ASSUME IInv, [Next]_vars, panic.kind = "ret", panic'.kind = "none"
      PROVE  IsHome(Depth, panic.home)
  <2>1. Catch
    <3> NoPanic.kind = "none"
      BY DEF NoPanic
    <3>1. panic # NoPanic /\ panic' # panic
      BY <1>1
    <3>2. ~ Runs
      BY <3>1 DEF Runs
    <3>3. ~ (CallFun(TRUE) \/ CallFun(FALSE) \/ MakeBlock \/ Return \/ FarRet \/ Panic \/ RuntimeError)
      BY <3>2 DEF CallFun, MakeBlock, Return, FarRet, Panic, RuntimeError, Throw
    <3>4. ~ (MainCalls(TRUE) \/ MainCalls(FALSE) \/ MainReturns \/ MainRecovers \/ MainDies
             \/ Exited)
      BY <3>1 DEF MainCalls, MainReturns, MainRecovers, MainDies, Exited, vars
    <3>5. \A b \in blocks : ~ CallBlock(b)
      BY <3>2 DEF CallBlock
    <3>6. ~ Pass
      BY <1>1 DEF Pass
    <3>7. ~ TestFails /\ ~ PassTest
      BY <1>1, <3>1 DEF TestFails, PassTest
    <3>8. ~ UNCHANGED vars
      BY <3>1 DEF vars
    <3> QED
      BY <1>1, <3>3, <3>4, <3>5, <3>6, <3>7, <3>8 DEF Next
  <2>2. stack # <<>> /\ IsMine
    BY <2>1 DEF Catch
  <2>3. Top.token = Top.home /\ panic.token = panic.home
    BY <1>1, <2>2, TopCall DEF IInv, TokenInv
  <2> QED
    BY <2>2, <2>3 DEF IsMine, Catches, IsHome, Top
<1>2. IInv /\ [Next]_vars =>
        [panic.kind = "ret" /\ panic'.kind = "none" => IsHome(Depth, panic.home)]_vars
  BY <1>1
<1> QED
  BY <1>2, IInvariance, PTL DEF Spec, CaughtAtHome

\* A far return never unwinds past its home.
THEOREM HomeNotPassedCorrect == Spec => HomeNotPassed
<1>1. ASSUME IInv, [Next]_vars, NEW i \in 1..Depth,
             panic.kind = "ret", IsHome(i, panic.home), Len(stack') < i
      PROVE  i = Depth /\ panic' = NoPanic
  <2>1. stack # <<>> /\ Depth \in Nat \ {0} /\ i \in Nat
    <3>1. Depth \in Nat
      BY <1>1, LenProperties DEF IInv, TypeOK, Depth
    <3>2. Depth # 0
      BY <1>1, <3>1
    <3> QED
      BY <3>1, <3>2 DEF Depth
  <2>2. /\ Top.token = Top.home /\ panic.token = panic.home /\ panic.home # 0
        /\ Top.kind = "test" => Depth > 1 /\ stack[Depth - 1].kind = "runTest"
    BY <1>1, <2>1, TopCall DEF IInv, TokenInv
  <2>3. panic # NoPanic /\ stack' # stack
    <3>1. NoPanic.kind = "none"
      BY DEF NoPanic
    <3>2. panic # NoPanic
      BY <1>1, <3>1
    <3>3. stack' # stack
      BY <1>1, <2>1 DEF Depth
    <3> QED
      BY <3>2, <3>3
  <2>4. Catch \/ Pass \/ PassTest
    <3>1. ~ Runs
      BY <2>3 DEF Runs
    <3>2. ~ (CallFun(TRUE) \/ CallFun(FALSE) \/ MakeBlock \/ Return \/ FarRet \/ Panic \/ RuntimeError)
      BY <3>1 DEF CallFun, MakeBlock, Return, FarRet, Panic, RuntimeError, Throw
    <3>3. ~ (MainCalls(TRUE) \/ MainCalls(FALSE) \/ MainReturns \/ MainRecovers \/ MainDies
             \/ Exited)
      BY <2>3 DEF MainCalls, MainReturns, MainRecovers, MainDies, Exited, vars
    <3>4. \A b \in blocks : ~ CallBlock(b)
      BY <3>1 DEF CallBlock
    <3>5. ~ TestFails /\ ~ UNCHANGED vars
      BY <1>1, <2>3 DEF TestFails, vars
    <3> QED
      BY <1>1, <3>2, <3>3, <3>4, <3>5 DEF Next
  <2>6. CASE Catch
    <3>1. Len(stack') = (IF Top.kind = "test" THEN Depth - 2 ELSE Depth - 1)
      BY <1>1, <2>1, <2>6, LeaveKeeps DEF Catch
    <3>2. i = Depth \/ (Top.kind = "test" /\ i = Depth - 1)
      BY <1>1, <2>1, <3>1
    <3>3. ~ (Top.kind = "test" /\ i = Depth - 1)
      BY <1>1, <2>2 DEF IsHome
    <3> QED
      BY <3>2, <3>3, <2>6 DEF Catch
  <2>7. CASE Pass \/ PassTest
    <3>1. Len(stack') = Depth - 1
      BY <1>1, <2>1, <2>7, PopTop DEF Pass, PassTest
    <3>2. i = Depth
      BY <1>1, <2>1, <3>1
    <3>3. Top.kind \in {"fun", "test"} /\ Top.home = panic.home
      BY <1>1, <3>2 DEF IsHome, Top
    <3>4. IsMine
      BY <1>1, <2>2, <3>3 DEF IsMine, Catches
    <3> QED
      BY <2>7, <3>3, <3>4 DEF Pass, PassTest
  <2> QED
    BY <2>4, <2>6, <2>7
<1>2. IInv /\ [Next]_vars =>
        [\A i \in 1..Depth : panic.kind = "ret" /\ IsHome(i, panic.home) /\ Len(stack') < i =>
           i = Depth /\ panic' = NoPanic]_vars
  BY <1>1
<1> QED
  BY <1>2, IInvariance, PTL DEF Spec, HomeNotPassed

-----------------------------------------------------------------------------
(***************************************************************************)
(* That FarReturn implements NonLocalReturn, for any number of tests and   *)
(* any bounds: what generated programs do with tokens, panics and deferred *)
(* recovers, step by step, is for the program a return that happens at     *)
(* once (src/gengo/gen.go, src/gengo/merge.go).                            *)
(***************************************************************************)

\* The mapping needs to know where the calls are that unwinding stops at: runTest is
\* the outermost call if it is there at all, its test is the one above it, and no two
\* activations with a token have the same home.
IsFun(c) == c.kind \in {"fun", "test"}

RunTestInv(s) ==
  /\ \A i \in 1..Len(s) : s[i].kind = "runTest" => i = 1 /\ s[i].home = 0
  /\ \A i \in 1..Len(s) : i < Len(s) /\ s[i].kind = "runTest" => s[i + 1].kind = "test"

\* The innermost call is one of the program.
InProgram(s) == s # <<>> => s[Len(s)].kind # "runTest"

HomesInv(s, last) ==
  /\ \A i \in 1..Len(s) : IsFun(s[i]) => s[i].home <= last
  /\ \A i, j \in 1..Len(s) :
       IsFun(s[i]) /\ IsFun(s[j]) /\ s[i].home = s[j].home /\ s[i].home # 0 => i = j

RInv ==
  /\ IInv
  /\ RunTestInv(stack)
  /\ HomesInv(stack, homes)
  /\ panic = NoPanic => InProgram(stack)
  /\ panic.kind = "none" => panic = NoPanic
  /\ exit # Running => stack = <<>>

-----------------------------------------------------------------------------
(* Abstract stacks *)

ACalls == [kind : {"fun", "block", "runTest"}, home : Nat]

\* The k outermost calls of s, as the abstract specification sees them.
CallsAt(s, k) == [j \in 1..k |-> AbstractCall(s[j])]

LEMMA AbstractCallType ==
  ASSUME NEW c \in Calls
  PROVE  /\ AbstractCall(c) \in ACalls
         /\ AbstractCall(c).home = c.home
         /\ AbstractCall(c).kind = "runTest" <=> c.kind = "runTest"
         /\ AbstractCall(c).kind = "fun" <=> IsFun(c)
         /\ AbstractCall(c).kind = "block" <=> c.kind = "block"
BY DEF Calls, ACalls, AbstractCall, IsFun

LEMMA CallsAtType ==
  ASSUME NEW s \in Seq(Calls), NEW k \in 0..Len(s)
  PROVE  /\ CallsAt(s, k) \in Seq(ACalls) /\ Len(CallsAt(s, k)) = k
         /\ \A i \in 1..k : CallsAt(s, k)[i] = AbstractCall(s[i])
<1>1. k \in Nat /\ \A i \in 1..k : s[i] \in Calls
  <2>1. Len(s) \in Nat
    BY LenProperties
  <2> QED
    BY <2>1, ElementOfSeq
<1>2. \A i \in 1..k : AbstractCall(s[i]) \in ACalls
  BY <1>1, AbstractCallType
<1> DEFINE e(i) == AbstractCall(s[i])
<1>3. \A i \in 1..k : e(i) \in ACalls
  BY <1>2
<1> HIDE DEF e
<1>4. [i \in 1..k |-> e(i)] \in Seq(ACalls) /\ Len([i \in 1..k |-> e(i)]) = k
  BY <1>1, <1>3, IsASeq
<1> QED
  BY <1>4 DEF e, CallsAt

LEMMA NoneAt ==
  ASSUME NEW s \in Seq(Calls)
  PROVE  CallsAt(s, 0) = <<>>
<1>1. 0 \in 0..Len(s)
  BY LenProperties
<1> QED
  BY <1>1, CallsAtType, EmptySeq

LEMMA CallsAtPrefix ==
  ASSUME NEW s \in Seq(Calls), NEW k \in 0..Len(s), NEW m \in 0..k
  PROVE  SubSeq(CallsAt(s, k), 1, m) = CallsAt(s, m)
<1>1. Len(s) \in Nat /\ m \in 0..Len(s) /\ k \in Nat /\ m \in Nat
  BY LenProperties
<1>2. /\ CallsAt(s, k) \in Seq(ACalls) /\ \A i \in 1..k : CallsAt(s, k)[i] = AbstractCall(s[i])
      /\ Len(CallsAt(s, k)) = k
      /\ CallsAt(s, m) \in Seq(ACalls) /\ \A i \in 1..m : CallsAt(s, m)[i] = AbstractCall(s[i])
      /\ Len(CallsAt(s, m)) = m
  BY <1>1, CallsAtType
<1> DEFINE a == CallsAt(s, k)
           b == CallsAt(s, m)
           c == SubSeq(a, 1, m)
<1> HIDE DEF a, b
<1>3. \A i \in 1..m : a[i] \in ACalls
  BY <1>1, <1>2, ElementOfSeq DEF a
<1>4. /\ c \in Seq(ACalls) /\ Len(c) = IF 1 <= m THEN m - 1 + 1 ELSE 0
      /\ \A i \in 1..(m - 1 + 1) : c[i] = a[1 + i - 1]
  BY <1>1, <1>3, SubSeqProperties
<1> HIDE DEF c
<1>5. Len(c) = m /\ \A i \in 1..m : c[i] = a[i]
  BY <1>1, <1>4
<1>6. \A i \in 1..m : c[i] = b[i]
  BY <1>1, <1>2, <1>5 DEF a, b
<1>7. c = b
  BY <1>2, <1>4, <1>5, <1>6, SeqEqual DEF b
<1> QED
  BY <1>7 DEF a, b, c

LEMMA CallsAtSame ==
  ASSUME NEW s, NEW t, NEW k, \A i \in 1..k : t[i] = s[i]
  PROVE  CallsAt(t, k) = CallsAt(s, k)
BY DEF CallsAt

LEMMA CallsAtPush ==
  ASSUME NEW s \in Seq(Calls), NEW c \in Calls
  PROVE  CallsAt(Append(s, c), Len(s) + 1) = Append(CallsAt(s, Len(s)), AbstractCall(c))
<1> DEFINE t == Append(s, c)
           n == Len(s)
           a == CallsAt(s, n)
           b == CallsAt(t, n + 1)
           d == Append(a, AbstractCall(c))
<1>1. n \in Nat /\ t \in Seq(Calls) /\ Len(t) = n + 1 /\ t[n + 1] = c /\ \A i \in 1..n : t[i] = s[i]
  BY AppendProperties, LenProperties
<1>2. a \in Seq(ACalls) /\ Len(a) = n /\ \A i \in 1..n : a[i] = AbstractCall(s[i])
  BY <1>1, CallsAtType
<1> HIDE DEF t
<1>3. b \in Seq(ACalls) /\ Len(b) = n + 1 /\ \A i \in 1..(n + 1) : b[i] = AbstractCall(t[i])
  <2>1. n + 1 \in 0..Len(t)
    BY <1>1
  <2> QED
    BY <1>1, <2>1, CallsAtType
<1>4. AbstractCall(c) \in ACalls
  BY AbstractCallType
<1> HIDE DEF a, b
<1>5. /\ d \in Seq(ACalls) /\ Len(d) = n + 1 /\ d[n + 1] = AbstractCall(c)
      /\ \A i \in 1..n : d[i] = a[i]
  BY <1>2, <1>4, AppendProperties
<1> HIDE DEF d
<1>6. \A i \in 1..(n + 1) : b[i] = d[i]
  <2>1. \A i \in 1..(n + 1) : i = n + 1 \/ i \in 1..n
    BY <1>1
  <2> QED
    BY <1>1, <1>2, <1>3, <1>5, <2>1
<1>7. b = d
  BY <1>3, <1>5, <1>6, SeqEqual
<1> QED
  BY <1>7 DEF t, a, b, d

-----------------------------------------------------------------------------
(* What the mapping gives *)

\* How many calls are left when the call at position i of s returns.
Left(s, i) == IF s[i].kind = "test" THEN i - 2 ELSE i - 1

InTest(s) == s # <<>> /\ s[1].kind = "runTest"

\* The abstract state: while no panic is under way, the calls of the program, and
\* while one is, what will be left when it is over.
MapInv ==
  /\ exit # Running => AbstractCalls = <<>> /\ AbstractResults = results
  /\ exit = Running /\ panic.kind = "none" =>
       /\ AbstractCalls = CallsAt(stack, Len(stack)) /\ AbstractResults = results
       /\ Landing # {}
  /\ \A i \in 1..Len(stack) :
       exit = Running /\ panic.kind = "ret" /\ IsHome(i, panic.home) =>
         /\ AbstractCalls = CallsAt(stack, Left(stack, i))
         /\ AbstractResults =
              IF stack[i].kind = "test" THEN Append(results, "ok") ELSE results
         /\ Landing # {}
  /\ exit = Running /\ panic.kind = "ret" /\ (\A i \in 1..Len(stack) : ~ IsHome(i, panic.home)) =>
       AbstractCalls = <<>> /\ AbstractResults = results /\ Landing = {}
  /\ exit = Running /\ panic.kind = "val" /\ InTest(stack) =>
       /\ AbstractCalls = <<>> /\ AbstractResults = Append(results, "failed")
       /\ Landing # {}
  /\ exit = Running /\ panic.kind = "val" /\ ~ InTest(stack) =>
       AbstractCalls = <<>> /\ AbstractResults = results /\ Landing = {}
  /\ exit = Running /\ panic.kind = "error" =>
       AbstractCalls = <<>> /\ AbstractResults = results /\ Landing = {}

LEMMA Mapping == RInv => MapInv
<1> SUFFICES ASSUME RInv PROVE MapInv
  OBVIOUS
<1>1. /\ stack \in Seq(Calls) /\ Depth \in Nat /\ Len(stack) = Depth
      /\ stack = <<>> <=> Depth = 0
  BY LenProperties, EmptySeq DEF RInv, IInv, TypeOK, Depth
<1>2. ASSUME exit # Running
      PROVE  AbstractCalls = <<>> /\ AbstractResults = results
  <2>1. Depth = 0
    BY <1>1, <1>2 DEF RInv
  <2>2. Homes = {} /\ RunTests = {}
    BY <2>1 DEF Homes, RunTests
  <2> QED
    BY <1>2, <2>2 DEF AbstractCalls, AbstractResults
<1>3. ASSUME exit = Running, panic.kind = "none"
      PROVE  /\ AbstractCalls = CallsAt(stack, Len(stack)) /\ AbstractResults = results
             /\ Landing # {}
  <2>1. Landing = {Depth + 1}
    BY <1>3 DEF Landing
  <2>2. (CHOOSE i \in Landing : TRUE) = Depth + 1
    BY <2>1
  <2>3. Below(Depth + 1) = Depth
    BY <1>1 DEF Below
  <2>4. AbstractCalls = CallsAt(stack, Depth)
    BY <1>3, <2>1, <2>2, <2>3 DEF AbstractCalls, CallsAt
  <2> QED
    BY <1>1, <1>3, <2>1, <2>4 DEF AbstractResults
<1>4. ASSUME NEW i \in 1..Len(stack), exit = Running, panic.kind = "ret", IsHome(i, panic.home)
      PROVE  /\ AbstractCalls = CallsAt(stack, Left(stack, i))
             /\ AbstractResults =
                  IF stack[i].kind = "test" THEN Append(results, "ok") ELSE results
             /\ Landing # {}
  <2>1. Homes = {i}
    <3>1. i \in Homes
      BY <1>1, <1>4 DEF Homes
    <3>2. ASSUME NEW j \in Homes PROVE j = i
      <4>1. j \in 1..Len(stack) /\ IsHome(j, panic.home)
        BY <1>1 DEF Homes
      <4>2. panic.home # 0
        BY <1>4 DEF RInv, IInv, TokenInv
      <4> QED
        BY <1>4, <4>1, <4>2 DEF RInv, HomesInv, IsHome, IsFun
    <3> QED
      BY <3>1, <3>2
  <2>2. Landing = {i}
    BY <2>1, <1>4 DEF Landing
  <2>3. (CHOOSE j \in Landing : TRUE) = i
    BY <2>2
  <2>4. Below(i) = Left(stack, i)
    <3>1. stack[i].kind = "test" => i > 1
      BY DEF RInv, IInv, StackInv
    <3> QED
      BY <1>1, <3>1 DEF Below, Left
  <2>5. AbstractCalls = CallsAt(stack, Left(stack, i))
    BY <1>4, <2>2, <2>3, <2>4 DEF AbstractCalls, CallsAt
  <2>6. AbstractResults = IF stack[i].kind = "test" THEN Append(results, "ok") ELSE results
    BY <1>4, <2>1 DEF AbstractResults
  <2> QED
    BY <2>2, <2>5, <2>6
<1>5. ASSUME exit = Running, panic.kind = "ret", \A i \in 1..Len(stack) : ~ IsHome(i, panic.home)
      PROVE  AbstractCalls = <<>> /\ AbstractResults = results /\ Landing = {}
  <2>1. Homes = {}
    BY <1>1, <1>5 DEF Homes
  <2> QED
    BY <1>5, <2>1 DEF Landing, AbstractCalls, AbstractResults
<1>6. \A i \in RunTests : i = 1 /\ InTest(stack)
  BY <1>1 DEF RunTests, RInv, RunTestInv, InTest
<1>7. ASSUME exit = Running, panic.kind = "val", InTest(stack)
      PROVE  /\ AbstractCalls = <<>> /\ AbstractResults = Append(results, "failed")
             /\ Landing # {}
  <2>1. RunTests = {1}
    <3>1. 1 \in RunTests
      BY <1>1, <1>7 DEF RunTests, InTest
    <3> QED
      BY <1>6, <3>1
  <2>2. Landing = {1}
    BY <2>1, <1>7 DEF Landing
  <2>3. (CHOOSE j \in Landing : TRUE) = 1
    BY <2>2
  <2>4. Below(1) = 0
    BY DEF Below
  <2>5. AbstractCalls = CallsAt(stack, 0)
    BY <1>7, <2>2, <2>3, <2>4 DEF AbstractCalls, CallsAt
  <2>6. CallsAt(stack, 0) = <<>>
    BY <1>1, NoneAt
  <2> QED
    BY <1>7, <2>1, <2>2, <2>5, <2>6 DEF AbstractResults
<1>8. ASSUME exit = Running, panic.kind = "val", ~ InTest(stack)
      PROVE  AbstractCalls = <<>> /\ AbstractResults = results /\ Landing = {}
  <2>1. RunTests = {}
    BY <1>6, <1>8
  <2> QED
    BY <1>8, <2>1 DEF Landing, AbstractCalls, AbstractResults
<1>9. ASSUME exit = Running, panic.kind = "error"
      PROVE  AbstractCalls = <<>> /\ AbstractResults = results /\ Landing = {}
  BY <1>9 DEF Landing, AbstractCalls, AbstractResults
<1> QED
  BY <1>2, <1>3, <1>4, <1>5, <1>7, <1>8, <1>9 DEF MapInv

-----------------------------------------------------------------------------
(* The invariant of the mapping is inductive *)

LEMMA PrefixOf ==
  ASSUME NEW s \in Seq(Calls), NEW k \in 0..Len(s)
  PROVE  /\ SubSeq(s, 1, k) \in Seq(Calls) /\ Len(SubSeq(s, 1, k)) = k /\ k \in Nat
         /\ \A i \in 1..k : i \in 1..Len(s) /\ SubSeq(s, 1, k)[i] = s[i]
<1> DEFINE t == SubSeq(s, 1, k)
<1>1. Len(s) \in Nat /\ k \in Nat /\ \A i \in 1..k : i \in 1..Len(s) /\ s[i] \in Calls
  <2>1. Len(s) \in Nat
    BY LenProperties
  <2> QED
    BY <2>1, ElementOfSeq
<1>2. /\ t \in Seq(Calls) /\ Len(t) = IF 1 <= k THEN k - 1 + 1 ELSE 0
      /\ \A i \in 1..(k - 1 + 1) : t[i] = s[1 + i - 1]
  BY <1>1, SubSeqProperties
<1> HIDE DEF t
<1>3. t \in Seq(Calls) /\ Len(t) = k /\ \A i \in 1..k : t[i] = s[i]
  BY <1>1, <1>2
<1> QED
  BY <1>1, <1>3 DEF t

\* Calls that are left from the outermost on keep their shape.
LEMMA PrefixShape ==
  ASSUME NEW s \in Seq(Calls), NEW last, RunTestInv(s), HomesInv(s, last), NEW k \in 0..Len(s)
  PROVE  RunTestInv(SubSeq(s, 1, k)) /\ HomesInv(SubSeq(s, 1, k), last)
<1> DEFINE t == SubSeq(s, 1, k)
<1>1. /\ t \in Seq(Calls) /\ Len(t) = k /\ k \in Nat
      /\ \A i \in 1..k : i \in 1..Len(s) /\ t[i] = s[i]
  BY PrefixOf
<1> HIDE DEF t
<1>2. RunTestInv(t)
  <2>1. \A i \in 1..Len(t) : t[i].kind = "runTest" => i = 1 /\ t[i].home = 0
    BY <1>1 DEF RunTestInv
  <2>2. ASSUME NEW i \in 1..Len(t), i < Len(t), t[i].kind = "runTest"
        PROVE  t[i + 1].kind = "test"
    <3>1. i + 1 \in 1..k /\ i \in 1..k /\ i \in Nat
      BY <2>2, <1>1
    <3>2. i < Len(s)
      <4>1. i + 1 \in 1..Len(s) /\ Len(s) \in Nat
        BY <1>1, <3>1, LenProperties
      <4> QED
        BY <3>1, <4>1
    <3>3. s[i + 1].kind = "test"
      BY <1>1, <2>2, <3>1, <3>2 DEF RunTestInv
    <3> QED
      BY <1>1, <3>1, <3>3
  <2> QED
    BY <2>1, <2>2 DEF RunTestInv
<1>3. HomesInv(t, last)
  BY <1>1 DEF HomesInv
<1> QED
  BY <1>2, <1>3 DEF t

\* What may be called: above runTest only a test, and a function with a token of its
\* own has a home that none had before.
CanCall(s, last, c, new) ==
  /\ s \in Seq(Calls) /\ c \in Calls /\ last \in Nat /\ new \in Nat /\ last <= new
  /\ c.kind # "runTest"
  /\ ~ InProgram(s) => c.kind = "test"
  /\ IsFun(c) => c.home = 0 \/ (c.home > last /\ c.home <= new)

LEMMA PushShape ==
  ASSUME NEW s, NEW last, NEW c, NEW new,
         RunTestInv(s), HomesInv(s, last), CanCall(s, last, c, new)
  PROVE  /\ RunTestInv(Append(s, c)) /\ HomesInv(Append(s, c), new)
         /\ InProgram(Append(s, c))
<1> DEFINE t == Append(s, c)
           n == Len(s)
<1>1. s \in Seq(Calls) /\ c \in Calls
  BY DEF CanCall
<1>2. /\ n \in Nat /\ t \in Seq(Calls) /\ Len(t) = n + 1 /\ t[n + 1] = c
      /\ \A i \in 1..n : t[i] = s[i]
  BY <1>1, AppendProperties, LenProperties
<1>3. \A i \in 1..n : s[i].home \in Nat
  <2>1. \A i \in 1..n : s[i] \in Calls
    BY <1>1, ElementOfSeq
  <2> QED
    BY <2>1 DEF Calls
<1>4. s # <<>> <=> n # 0
  BY <1>1, EmptySeq
<1> HIDE DEF t, n
<1>5. \A i \in 1..Len(t) : i \in Nat /\ (i = n + 1 \/ i \in 1..n)
  BY <1>2
<1>6. RunTestInv(t)
  <2>1. \A i \in 1..Len(t) : t[i].kind = "runTest" => i = 1 /\ t[i].home = 0
    BY <1>2, <1>5 DEF RunTestInv, CanCall, n
  <2>2. ASSUME NEW i \in 1..Len(t), i < Len(t), t[i].kind = "runTest"
        PROVE  t[i + 1].kind = "test"
    <3>1. i \in 1..n /\ i \in Nat
      BY <1>2, <2>2
    <3>2. s[i].kind = "runTest"
      BY <1>2, <2>2, <3>1
    <3>3. CASE i = n
      <4>1. ~ InProgram(s)
        <5>1. n # 0
          BY <3>1, <3>3
        <5> QED
          BY <1>4, <3>2, <3>3, <5>1 DEF InProgram, n
      <4>2. c.kind = "test"
        BY <4>1 DEF CanCall
      <4> QED
        BY <1>2, <3>3, <4>2
    <3>4. CASE i # n
      <4>1. i + 1 \in 1..n /\ i < n
        BY <1>2, <3>1, <3>4
      <4>2. s[i + 1].kind = "test"
        BY <3>1, <3>2, <4>1 DEF RunTestInv, n
      <4> QED
        BY <1>2, <4>1, <4>2
    <3> QED
      BY <3>3, <3>4
  <2> QED
    BY <2>1, <2>2 DEF RunTestInv
<1>7. HomesInv(t, new)
  <2>1. last \in Nat /\ new \in Nat /\ last <= new /\ c.home \in Nat
    BY <1>1 DEF CanCall, Calls
  <2>2. \A i \in 1..n : IsFun(s[i]) => s[i].home <= last /\ s[i].home <= new
    BY <2>1, <1>3 DEF HomesInv, n
  <2>3. IsFun(c) => c.home <= new /\ (c.home # 0 => c.home > last)
    BY <2>1 DEF CanCall
  <2>4. \A i \in 1..Len(t) : IsFun(t[i]) => t[i].home <= new
    BY <1>2, <1>5, <2>2, <2>3
  <2>5. ASSUME NEW i \in 1..Len(t), NEW j \in 1..Len(t),
               IsFun(t[i]), IsFun(t[j]), t[i].home = t[j].home, t[i].home # 0
        PROVE  i = j
    <3>1. CASE i = n + 1 /\ j \in 1..n
      <4>1. t[i].home > last /\ t[j].home <= last /\ t[i].home \in Nat
        BY <1>2, <2>1, <2>2, <2>3, <2>5, <3>1
      <4> QED
        BY <2>1, <2>5, <4>1
    <3>2. CASE j = n + 1 /\ i \in 1..n
      <4>1. t[j].home > last /\ t[i].home <= last /\ t[j].home \in Nat
        BY <1>2, <2>1, <2>2, <2>3, <2>5, <3>2
      <4> QED
        BY <2>1, <2>5, <4>1
    <3>3. CASE i \in 1..n /\ j \in 1..n
      <4>1. s[i] = t[i] /\ s[j] = t[j]
        BY <1>2, <3>3
      <4> QED
        BY <2>5, <3>3, <4>1 DEF HomesInv, n
    <3> QED
      BY <1>5, <3>1, <3>2, <3>3
  <2> QED
    BY <2>4, <2>5 DEF HomesInv
<1>8. InProgram(t)
  BY <1>2 DEF InProgram, CanCall
<1> QED
  BY <1>6, <1>7, <1>8 DEF t

\* What a return leaves of the stack and of the results.
LEMMA LeaveShape ==
  ASSUME RInv, stack # <<>>, Leave
  PROVE  /\ Depth \in 1..Len(stack) /\ Depth = Len(stack) /\ Left(stack, Depth) \in 0..Len(stack)
         /\ stack' = SubSeq(stack, 1, Left(stack, Depth))
         /\ results' = IF stack[Depth].kind = "test" THEN Append(results, "ok") ELSE results
         /\ RunTestInv(stack') /\ HomesInv(stack', homes) /\ InProgram(stack')
<1>1. /\ stack \in Seq(Calls) /\ StackInv(stack) /\ RunTestInv(stack)
      /\ HomesInv(stack, homes)
  BY DEF RInv, IInv, StackInv
<1>2. /\ Depth = Len(stack) /\ Depth \in Nat \ {0}
      /\ Top.kind = "test" => Depth > 1 /\ stack[Depth - 1].kind = "runTest"
  BY <1>1, TopCall DEF Depth
<1>3. Left(stack, Depth) \in 0..Len(stack)
  BY <1>2 DEF Left, Top
<1>4. /\ stack' = SubSeq(stack, 1, Left(stack, Depth))
      /\ results' = IF stack[Depth].kind = "test" THEN Append(results, "ok") ELSE results
  BY DEF Leave, Left, Top, Pop
<1>5. RunTestInv(stack') /\ HomesInv(stack', homes)
  BY <1>1, <1>3, <1>4, PrefixShape
<1>6. InProgram(stack')
  <2> DEFINE k == Left(stack, Depth)
  <2>1. /\ stack' \in Seq(Calls) /\ Len(stack') = k /\ k \in Nat
        /\ \A i \in 1..k : i \in 1..Len(stack) /\ stack'[i] = stack[i]
    BY <1>1, <1>3, <1>4, PrefixOf
  <2>2. CASE Top.kind = "test"
    <3>1. Depth - 1 \in 1..Len(stack)
      BY <1>2, <2>2
    <3>2. Depth - 1 = 1
      BY <1>1, <1>2, <2>2, <3>1 DEF RunTestInv
    <3>3. k = 0
      <4>1. Depth = 2
        <5>1. Depth \in Nat
          BY <1>2
        <5> HIDE DEF k
        <5> QED
          BY <3>2, <5>1
      <4>2. Left(stack, Depth) = Depth - 2
        BY <2>2 DEF Left, Top
      <4> QED
        BY <4>1, <4>2
    <3> QED
      BY <2>1, <3>3, EmptySeq DEF InProgram
  <2>3. CASE Top.kind # "test"
    <3>1. k = Depth - 1
      BY <2>3 DEF Left, Top
    <3>2. SUFFICES ASSUME stack' # <<>> PROVE stack'[Len(stack')].kind # "runTest"
      BY DEF InProgram
    <3>3. k # 0
      BY <2>1, <3>2, EmptySeq
    <3>4. k \in 1..k /\ k < Depth /\ k + 1 = Depth
      BY <1>2, <2>1, <3>1, <3>3
    <3>5. k \in 1..Len(stack) /\ stack'[Len(stack')] = stack[k]
      BY <2>1, <3>4
    <3>6. stack[k].kind = "runTest" => stack[Depth].kind = "test"
      BY <1>1, <1>2, <3>4, <3>5 DEF RunTestInv
    <3> QED
      BY <2>3, <3>5, <3>6 DEF Top
  <2> QED
    BY <2>2, <2>3
<1> QED
  BY <1>2, <1>3, <1>4, <1>5, <1>6

\* What dropping the innermost call leaves.
LEMMA PopShape ==
  ASSUME RInv, stack # <<>>
  PROVE  /\ Depth \in 1..Len(stack) /\ Depth = Len(stack) /\ Depth - 1 \in 0..Len(stack)
         /\ RunTestInv(Pop) /\ HomesInv(Pop, homes)
         /\ Top.kind = "runTest" => Depth = 1 /\ Pop = <<>>
<1>1. /\ stack \in Seq(Calls) /\ StackInv(stack) /\ RunTestInv(stack)
      /\ HomesInv(stack, homes)
  BY DEF RInv, IInv, StackInv
<1>2. Depth = Len(stack) /\ Depth \in Nat \ {0}
  BY <1>1, TopCall DEF Depth
<1>3. Depth - 1 \in 0..Len(stack)
  BY <1>2
<1>4. RunTestInv(Pop) /\ HomesInv(Pop, homes)
  BY <1>1, <1>3, PrefixShape DEF Pop
<1>5. ASSUME Top.kind = "runTest" PROVE Depth = 1 /\ Pop = <<>>
  <2>1. Depth = 1
    BY <1>1, <1>2, <1>5 DEF RunTestInv, Top
  <2>2. Pop \in Seq(Calls) /\ Len(Pop) = 0
    BY <1>1, <1>3, <2>1, PrefixOf DEF Pop
  <2> QED
    BY <2>1, <2>2, EmptySeq
<1> QED
  BY <1>2, <1>3, <1>4, <1>5

\* A function that is entered.
LEMMA PushFunShape ==
  ASSUME IInv, NEW below, below \in Seq(Calls), RunTestInv(below), HomesInv(below, homes),
         NEW kind \in {"fun", "test"}, NEW canFarRet \in BOOLEAN,
         ~ InProgram(below) => kind = "test",
         PushFun(below, kind, canFarRet)
  PROVE  /\ RunTestInv(stack') /\ HomesInv(stack', homes') /\ InProgram(stack')
         /\ \E c \in Calls :
              /\ stack' = Append(below, c) /\ c.kind = kind
              /\ c.home = IF canFarRet THEN homes + 1 ELSE 0
         /\ homes' = IF canFarRet THEN homes + 1 ELSE homes
<1>1. homes \in Nat /\ homes + 1 \in Nat /\ nextToken = homes + 1
  BY NextToken
<1>2. PICK c \in Calls : /\ stack' = Append(below, c) /\ c.kind = kind
                         /\ c.home = IF canFarRet THEN homes + 1 ELSE 0
  <2> DEFINE d == [kind |-> kind, token |-> IF canFarRet THEN nextToken ELSE 0,
                   home |-> IF canFarRet THEN homes + 1 ELSE 0]
  <2>1. stack' = Append(below, d)
    BY DEF PushFun
  <2>2. d.kind = kind /\ d.home = IF canFarRet THEN homes + 1 ELSE 0
    OBVIOUS
  <2>3. d \in Calls
    BY <1>1 DEF Calls
  <2> QED
    BY <2>1, <2>2, <2>3
<1>3. homes' = IF canFarRet THEN homes + 1 ELSE homes
  BY DEF PushFun
<1>4. CanCall(below, homes, c, homes')
  BY <1>1, <1>2, <1>3 DEF CanCall
<1> QED
  BY <1>2, <1>3, <1>4, PushShape

LEMMA RInit == Init => RInv
<1> SUFFICES ASSUME Init PROVE RInv
  OBVIOUS
<1>1. IInv
  BY InitInv
<1>2. stack = <<>> /\ Len(stack) = 0
  BY EmptySeq DEF Init
<1> QED
  BY <1>1, <1>2 DEF Init, RInv, RunTestInv, HomesInv, InProgram, NoPanic

LEMMA RStep == RInv /\ [Next]_vars => RInv'
<1> SUFFICES ASSUME RInv, [Next]_vars PROVE RInv'
  OBVIOUS
<1>1. /\ IInv /\ RunTestInv(stack) /\ HomesInv(stack, homes)
      /\ stack \in Seq(Calls) /\ homes \in Nat
  BY DEF RInv, IInv, TypeOK
<1>2. IInv'
  BY <1>1, StepInv
<1>3. NoPanic.kind = "none"
  BY DEF NoPanic
\* Actions of a program that runs on.
<1>4. ASSUME RunTestInv(stack'), HomesInv(stack', homes'), InProgram(stack'),
             exit' = Running, panic' = NoPanic
      PROVE  RInv'
  BY <1>2, <1>4 DEF RInv
\* Actions of one that unwinds.
<1>5. ASSUME RunTestInv(stack'), HomesInv(stack', homes'), exit' = Running,
             panic' # NoPanic, panic'.kind # "none"
      PROVE  RInv'
  BY <1>2, <1>5 DEF RInv
<1>6. ASSUME NEW canFarRet \in BOOLEAN, CallFun(canFarRet)
      PROVE  RInv'
  <2>1. exit' = Running /\ panic' = NoPanic /\ PushFun(stack, "fun", canFarRet) /\ InProgram(stack)
    BY <1>6 DEF CallFun, Runs, RInv
  <2> QED
    BY <1>1, <1>4, <2>1, PushFunShape
<1>7. ASSUME NEW canFarRet \in BOOLEAN, MainCalls(canFarRet)
      PROVE  RInv'
  <2> DEFINE r == [kind |-> "runTest", token |-> 0, home |-> 0]
             below == <<r>>
  <2>1. exit' = Running /\ panic' = NoPanic
    BY <1>7 DEF MainCalls
  <2>2. PushFun(below, "test", canFarRet) \/ PushFun(<<>>, "fun", canFarRet)
    BY <1>7 DEF MainCalls
  <2>3. /\ below \in Seq(Calls) /\ Len(below) = 1 /\ below[1] = r
        /\ r.kind = "runTest" /\ r.home = 0
    BY DEF Calls
  <2> HIDE DEF below, r
  <2>4. RunTestInv(below) /\ HomesInv(below, homes)
    <3>1. \A i \in 1..Len(below) : i = 1 /\ below[i] = r
      BY <2>3
    <3> QED
      BY <2>3, <3>1, <1>1 DEF RunTestInv, HomesInv, IsFun
  <2>5. <<>> \in Seq(Calls) /\ Len(<<>>) = 0
    OBVIOUS
  <2>6. RunTestInv(<<>>) /\ HomesInv(<<>>, homes) /\ InProgram(<<>>)
    BY <2>5 DEF RunTestInv, HomesInv, InProgram
  <2>7. RunTestInv(stack') /\ HomesInv(stack', homes') /\ InProgram(stack')
    <3>1. CASE PushFun(below, "test", canFarRet)
      BY <1>1, <2>3, <2>4, <3>1, PushFunShape
    <3>2. CASE PushFun(<<>>, "fun", canFarRet)
      BY <1>1, <2>5, <2>6, <3>2, PushFunShape
    <3> QED
      BY <2>2, <3>1, <3>2
  <2> QED
    BY <1>4, <2>1, <2>7
<1>8. ASSUME MakeBlock \/ UNCHANGED vars \/ Exited
      PROVE  RInv'
  <2>1. UNCHANGED <<stack, homes, panic, exit>>
    BY <1>8 DEF MakeBlock, vars, Exited
  <2> QED
    BY <1>2, <2>1 DEF RInv
<1>9. ASSUME NEW b \in blocks, CallBlock(b)
      PROVE  RInv'
  <2> DEFINE c == [kind |-> "block", token |-> b.token, home |-> b.home]
  <2>1. /\ exit' = Running /\ panic' = NoPanic /\ homes' = homes /\ InProgram(stack)
        /\ stack' = Append(stack, c)
    BY <1>9 DEF CallBlock, Runs, RInv
  <2>2. b \in Blocks
    BY <1>1 DEF IInv, TypeOK
  <2>3. c \in Calls /\ c.kind = "block"
    BY <2>2 DEF Calls, Blocks
  <2> HIDE DEF c
  <2>4. CanCall(stack, homes, c, homes)
    BY <1>1, <2>1, <2>3 DEF CanCall, IsFun
  <2> QED
    BY <1>1, <1>4, <2>1, <2>4, PushShape
<1>10. ASSUME Return \/ Catch
       PROVE  RInv'
  <2>1. /\ stack # <<>> /\ Leave
        /\ exit' = Running /\ panic' = NoPanic /\ homes' = homes
    BY <1>10 DEF Return, Catch, Runs, Unwinds
  <2> QED
    BY <1>4, <2>1, LeaveShape
<1>11. ASSUME FarRet \/ Panic \/ RuntimeError
       PROVE  RInv'
  <2>1. /\ stack' = stack /\ homes' = homes /\ exit' = Running /\ panic'.kind # "none"
    BY <1>11 DEF FarRet, Panic, RuntimeError, Throw, Runs
  <2> QED
    BY <1>1, <1>3, <1>5, <2>1
<1>12. ASSUME Pass \/ PassTest
       PROVE  RInv'
  <2>1. /\ stack # <<>> /\ stack' = Pop /\ homes' = homes /\ exit' = Running
        /\ panic' = panic /\ panic # NoPanic
    BY <1>12 DEF Pass, PassTest, Unwinds
  <2>2. panic.kind # "none"
    BY <2>1 DEF RInv
  <2> QED
    BY <1>5, <2>1, <2>2, PopShape
<1>13. ASSUME TestFails
       PROVE  RInv'
  <2>1. /\ stack # <<>> /\ stack' = Pop /\ homes' = homes /\ exit' = Running
        /\ panic' = NoPanic /\ Top.kind = "runTest"
    BY <1>13 DEF TestFails, Unwinds
  <2>2. InProgram(stack')
    BY <2>1, PopShape DEF InProgram
  <2> QED
    BY <1>4, <2>1, <2>2, PopShape
<1>14. ASSUME MainRecovers \/ MainDies \/ MainReturns
       PROVE  RInv'
  <2>1. stack = <<>> /\ UNCHANGED <<stack, homes, panic>>
    BY <1>14 DEF MainRecovers, MainDies, MainReturns
  <2> QED
    BY <1>2, <2>1 DEF RInv
<1> QED
  BY <1>6, <1>7, <1>8, <1>9, <1>10, <1>11, <1>12, <1>13, <1>14 DEF Next

LEMMA RInvariance == Spec => []RInv
BY RInit, RStep, PTL DEF Spec

-----------------------------------------------------------------------------
(* Steps of the generated program are steps of the abstract one *)

AbstractOver == exit # Running \/ Landing = {}
AbstractBlocks == {b.home : b \in blocks}

\* A step that the program does not notice.
LEMMA Stutters ==
  ASSUME AbstractCalls' = AbstractCalls, AbstractResults' = AbstractResults,
         AbstractOver' <=> AbstractOver, UNCHANGED <<blocks, homes>>
  PROVE  [Abstract!Next]_(Abstract!vars)
BY DEF Abstract!vars, AbstractOver

\* While the program runs, its calls are the abstract ones.
LEMMA RunsAbstractly ==
  ASSUME RInv, exit = Running, panic = NoPanic
  PROVE  /\ AbstractCalls = CallsAt(stack, Len(stack)) /\ AbstractResults = results
         /\ ~ AbstractOver
         /\ stack \in Seq(Calls) /\ AbstractCalls \in Seq(ACalls)
         /\ Len(AbstractCalls) = Len(stack)
         /\ stack # <<>> =>
              /\ Depth \in 1..Len(stack) /\ Depth = Len(stack) /\ Top \in Calls
              /\ AbstractCalls # <<>>
              /\ AbstractCalls[Len(AbstractCalls)] = AbstractCall(Top)
<1>1. MapInv /\ panic.kind = "none"
  BY Mapping DEF NoPanic
<1>2. AbstractCalls = CallsAt(stack, Len(stack)) /\ AbstractResults = results /\ ~ AbstractOver
  BY <1>1 DEF MapInv, AbstractOver
<1>3. stack \in Seq(Calls) /\ StackInv(stack) /\ Len(stack) \in 0..Len(stack)
  BY LenProperties DEF RInv, IInv, StackInv
<1>4. /\ AbstractCalls \in Seq(ACalls) /\ Len(AbstractCalls) = Len(stack)
      /\ \A i \in 1..Len(stack) : AbstractCalls[i] = AbstractCall(stack[i])
  BY <1>2, <1>3, CallsAtType
<1>5. ASSUME stack # <<>>
      PROVE  /\ Depth \in 1..Len(stack) /\ Depth = Len(stack) /\ Top \in Calls
             /\ AbstractCalls # <<>>
             /\ AbstractCalls[Len(AbstractCalls)] = AbstractCall(Top)
  <2>1. Depth = Len(stack) /\ Depth \in Nat \ {0} /\ Top \in Calls
    BY <1>3, <1>5, TopCall DEF Depth
  <2>2. AbstractCalls # <<>>
    BY <1>4, <2>1, EmptySeq
  <2> QED
    BY <1>4, <2>1, <2>2 DEF Top
<1> QED
  BY <1>2, <1>3, <1>4, <1>5

\* The same of the state after a step.
LEMMA RunsNext ==
  ASSUME RInv', exit' = Running, panic' = NoPanic
  PROVE  /\ AbstractCalls' = CallsAt(stack', Len(stack')) /\ AbstractResults' = results'
         /\ ~ AbstractOver'
<1>1. MapInv'
  BY Mapping, PTL
<1>2. panic'.kind = "none"
  BY DEF NoPanic
<1> QED
  BY <1>1, <1>2 DEF MapInv, AbstractOver

LEMMA MakesBlock ==
  ASSUME RInv, RInv', MakeBlock
  PROVE  Abstract!MakeBlock
<1>1. /\ exit = Running /\ panic = NoPanic /\ exit' = Running /\ panic' = NoPanic
      /\ stack # <<>> /\ stack' = stack /\ results' = results /\ homes' = homes
  BY DEF MakeBlock, Runs
<1>2. /\ AbstractCalls' = AbstractCalls /\ AbstractResults' = AbstractResults
      /\ ~ AbstractOver /\ ~ AbstractOver'
      /\ AbstractCalls # <<>>
  BY <1>1, RunsAbstractly, RunsNext
<1>3. AbstractCalls[Len(AbstractCalls)].home = Top.home
  BY <1>1, RunsAbstractly, AbstractCallType
<1>4. {b.home : b \in blocks'} = {b.home : b \in blocks} \cup {Top.home}
  <2> DEFINE d == [token |-> Top.token, home |-> Top.home]
  <2>1. blocks' = blocks \cup {d} /\ d.home = Top.home
    BY DEF MakeBlock
  <2> HIDE DEF d
  <2> QED
    BY <2>1
<1> QED
  BY <1>1, <1>2, <1>3, <1>4 DEF Abstract!MakeBlock, AbstractOver

LEMMA CallsBlock ==
  ASSUME RInv, RInv', NEW b \in blocks, CallBlock(b)
  PROVE  \E home \in {d.home : d \in blocks} : Abstract!EnterBlock(home)
<1> DEFINE c == [kind |-> "block", token |-> b.token, home |-> b.home]
<1>1. /\ exit = Running /\ panic = NoPanic /\ exit' = Running /\ panic' = NoPanic
      /\ stack # <<>> /\ results' = results /\ homes' = homes /\ blocks' = blocks
      /\ stack' = Append(stack, c)
  BY DEF CallBlock, Runs
<1>2. b \in Blocks
  BY DEF RInv, IInv, TypeOK
<1>3. c \in Calls
  BY <1>2 DEF Calls, Blocks
<1>4. AbstractCall(c) = [kind |-> "block", home |-> b.home]
  BY DEF AbstractCall
<1> HIDE DEF c
<1>5. stack \in Seq(Calls) /\ Len(stack') = Len(stack) + 1
  BY <1>1, <1>3, RunsAbstractly, AppendProperties
<1>6. AbstractCalls' = Append(AbstractCalls, AbstractCall(c))
  BY <1>1, <1>3, <1>5, RunsAbstractly, RunsNext, CallsAtPush
<1>7. /\ AbstractResults' = AbstractResults
      /\ ~ AbstractOver /\ ~ AbstractOver' /\ AbstractCalls # <<>>
  BY <1>1, RunsAbstractly, RunsNext
<1>8. Abstract!EnterBlock(b.home)
  BY <1>1, <1>4, <1>6, <1>7 DEF Abstract!EnterBlock, Abstract!Call, AbstractOver
<1> QED
  BY <1>8

\* A function is called, perhaps as a test.
LEMMA Enters ==
  ASSUME RInv, RInv', NEW asTest \in BOOLEAN, NEW canFarRet \in BOOLEAN,
         NEW below \in Seq(Calls), NEW kind \in {"fun", "test"},
         exit = Running, panic = NoPanic, exit' = Running, panic' = NoPanic,
         PushFun(below, kind, canFarRet), RunTestInv(below), HomesInv(below, homes),
         ~ InProgram(below) => kind = "test",
         CallsAt(below, Len(below)) =
           AbstractCalls \o (IF asTest THEN <<[kind |-> "runTest", home |-> 0]>> ELSE <<>>),
         UNCHANGED <<results, blocks>>
  PROVE  \E home \in 0..MaxHomes, test \in BOOLEAN : Abstract!Enter(home, test)
<1> DEFINE h == IF canFarRet THEN homes + 1 ELSE 0
           d == CallsAt(below, Len(below))
           e == [kind |-> "fun", home |-> h]
<1>1. PICK c \in Calls : stack' = Append(below, c) /\ c.kind = kind /\ c.home = h
  BY PushFunShape DEF RInv
<1>2. homes' = IF canFarRet THEN homes + 1 ELSE homes
  BY DEF PushFun
<1>3. AbstractCall(c) = e
  BY <1>1 DEF AbstractCall
<1>4. Len(stack') = Len(below) + 1
  BY <1>1, AppendProperties
<1>5. AbstractCalls' = Append(d, e)
  BY <1>1, <1>3, <1>4, RunsNext, CallsAtPush
<1>6. d \in Seq(ACalls) /\ e \in ACalls
  <2>1. Len(below) \in 0..Len(below)
    BY LenProperties
  <2>2. d \in Seq(ACalls)
    BY <2>1, CallsAtType
  <2>3. AbstractCall(c) \in ACalls
    BY <1>1, AbstractCallType
  <2> QED
    BY <1>3, <2>2, <2>3
<1>7. h \in 0..MaxHomes /\ (h = 0 \/ (h = homes + 1 /\ h <= MaxHomes))
      /\ homes' = IF h = 0 THEN homes ELSE h
  <2>1. homes \in Nat /\ MaxHomes \in Nat
    BY BoundAssumption DEF RInv, IInv, TypeOK
  <2>2. canFarRet => homes < MaxHomes
    BY DEF PushFun
  <2> QED
    BY <1>2, <2>1, <2>2
<1> HIDE DEF h, d
<1>8. AbstractCalls' = d \o <<e>>
  <2> HIDE DEF e
  <2>1. Append(d, e) = d \o <<e>>
    BY <1>6, AppendIsConcat
  <2> QED
    BY <1>5, <2>1
<1>9. AbstractResults' = AbstractResults /\ ~ AbstractOver /\ ~ AbstractOver'
  BY RunsAbstractly, RunsNext
<1>10. Abstract!Enter(h, asTest)
  BY <1>7, <1>8, <1>9 DEF Abstract!Enter, Abstract!Call, AbstractOver, d
<1> QED
  BY <1>7, <1>10

LEMMA CallsFun ==
  ASSUME RInv, RInv', NEW canFarRet \in BOOLEAN, CallFun(canFarRet)
  PROVE  \E home \in 0..MaxHomes, test \in BOOLEAN : Abstract!Enter(home, test)
<1>1. /\ exit = Running /\ panic = NoPanic /\ exit' = Running /\ panic' = NoPanic
      /\ results' = results /\ blocks' = blocks
      /\ PushFun(stack, "fun", canFarRet)
  BY DEF CallFun, Runs
<1>2. InProgram(stack) /\ RunTestInv(stack) /\ HomesInv(stack, homes)
  BY <1>1 DEF RInv
<1>3. /\ stack \in Seq(Calls) /\ AbstractCalls \in Seq(ACalls)
      /\ AbstractCalls = CallsAt(stack, Len(stack))
  BY <1>1, RunsAbstractly
<1> DEFINE asTest == FALSE
<1>4. CallsAt(stack, Len(stack)) =
        AbstractCalls \o (IF asTest THEN <<[kind |-> "runTest", home |-> 0]>> ELSE <<>>)
  BY <1>3, ConcatEmptySeq
<1>5. asTest \in BOOLEAN
  OBVIOUS
<1> HIDE DEF asTest
<1> QED
  BY <1>1, <1>2, <1>3, <1>4, <1>5, Enters

LEMMA MainCallsFun ==
  ASSUME RInv, RInv', NEW canFarRet \in BOOLEAN, MainCalls(canFarRet)
  PROVE  \E home \in 0..MaxHomes, test \in BOOLEAN : Abstract!Enter(home, test)
<1> DEFINE r == [kind |-> "runTest", token |-> 0, home |-> 0]
           q == [kind |-> "runTest", home |-> 0]
<1>1. /\ exit = Running /\ panic = NoPanic /\ exit' = Running /\ panic' = NoPanic
      /\ results' = results /\ blocks' = blocks /\ stack = <<>>
      /\ PushFun(<<r>>, "test", canFarRet) \/ PushFun(<<>>, "fun", canFarRet)
  BY DEF MainCalls
<1>2. r \in Calls /\ r.kind = "runTest" /\ r.home = 0 /\ AbstractCall(r) = q
  BY DEF Calls, AbstractCall
<1>3. <<>> \in Seq(Calls) /\ Len(<<>>) = 0 /\ Append(<<>>, r) = <<r>>
  OBVIOUS
<1>4. CallsAt(<<>>, 0) = <<>>
  BY <1>3, NoneAt
<1>5. AbstractCalls = <<>>
  BY <1>1, <1>3, <1>4, RunsAbstractly
<1>6. Len(<<r>>) = 1 /\ <<r>> \in Seq(Calls) /\ <<r>>[1] = r
  BY <1>2
<1>7. CallsAt(<<r>>, 1) = <<q>>
  <2> HIDE DEF r, q
  <2>1. CallsAt(Append(<<>>, r), Len(<<>>) + 1) = Append(CallsAt(<<>>, Len(<<>>)), AbstractCall(r))
    BY <1>2, <1>3, CallsAtPush
  <2>2. Append(<<>>, q) = <<q>>
    OBVIOUS
  <2>3. Len(<<>>) + 1 = 1
    BY <1>3
  <2> QED
    BY <1>2, <1>3, <1>4, <2>1, <2>2, <2>3
<1> HIDE DEF r
<1>8. CASE PushFun(<<r>>, "test", canFarRet)
  <2> DEFINE asTest == TRUE
             below == <<r>>
  <2>1. CallsAt(below, Len(below)) =
          AbstractCalls \o (IF asTest THEN <<[kind |-> "runTest", home |-> 0]>> ELSE <<>>)
    BY <1>5, <1>6, <1>7
  <2>2. asTest \in BOOLEAN /\ below \in Seq(Calls) /\ Len(below) = 1 /\ below[1] = r
    BY <1>6
  <2>3. PushFun(below, "test", canFarRet)
    BY <1>8
  <2> HIDE DEF asTest, below
  <2>4. RunTestInv(below) /\ HomesInv(below, homes)
    <3>1. \A i \in 1..Len(below) : i = 1 /\ below[i] = r
      BY <2>2
    <3> QED
      BY <1>2, <2>2, <3>1 DEF RunTestInv, HomesInv, IsFun
  <2> QED
    BY <1>1, <2>1, <2>2, <2>3, <2>4, Enters
<1>9. CASE PushFun(<<>>, "fun", canFarRet)
  <2> DEFINE asTest == FALSE
             below == <<>>
  <2>1. CallsAt(below, Len(below)) =
          AbstractCalls \o (IF asTest THEN <<[kind |-> "runTest", home |-> 0]>> ELSE <<>>)
    BY <1>3, <1>4, <1>5
  <2>2. asTest \in BOOLEAN /\ below \in Seq(Calls) /\ Len(below) = 0 /\ below = <<>>
    BY <1>3
  <2>3. PushFun(below, "fun", canFarRet)
    BY <1>9
  <2> HIDE DEF asTest, below
  <2>4. RunTestInv(below) /\ HomesInv(below, homes) /\ InProgram(below)
    BY <2>2 DEF RunTestInv, HomesInv, InProgram
  <2> QED
    BY <1>1, <2>1, <2>2, <2>3, <2>4, Enters
<1> QED
  BY <1>1, <1>8, <1>9

\* The abstract program drops the same calls for a return from position i.
LEMMA ReturnsFrom ==
  ASSUME RInv, exit = Running, panic = NoPanic, NEW i \in 1..Len(stack),
         AbstractCalls' = CallsAt(stack, Left(stack, i)),
         AbstractResults' =
           IF stack[i].kind = "test" THEN Append(results, "ok") ELSE results,
         ~ AbstractOver', UNCHANGED <<homes, blocks>>
  PROVE  Abstract!ReturnFrom(i)
<1>1. /\ AbstractCalls = CallsAt(stack, Len(stack)) /\ AbstractResults = results
      /\ ~ AbstractOver /\ stack \in Seq(Calls)
  BY RunsAbstractly
<1>2. Len(stack) \in Nat /\ i \in Nat /\ i >= 1 /\ i <= Len(stack)
  BY <1>1, LenProperties
<1>3. \A j \in 1..Len(stack) : AbstractCalls[j] = AbstractCall(stack[j])
  <2>1. stack \in Seq(Calls) /\ Len(stack) \in 0..Len(stack)
    BY <1>1, <1>2
  <2>2. \A j \in 1..Len(stack) : CallsAt(stack, Len(stack))[j] = AbstractCall(stack[j])
    BY <2>1, CallsAtType
  <2>3. AbstractCalls = CallsAt(stack, Len(stack))
    BY <1>1
  <2> QED
    BY <2>2, <2>3
<1>4. stack[i].kind = "test" => i > 1 /\ stack[i - 1].kind = "runTest"
  BY DEF RInv, IInv, StackInv
<1>5. Abstract!IsTest(i) <=> stack[i].kind = "test"
  <2>1. CASE i > 1
    <3>1. i - 1 \in 1..Len(stack) /\ i - 1 < Len(stack) /\ (i - 1) + 1 = i
      BY <1>2, <2>1
    <3>2. stack[i - 1] \in Calls
      BY <1>1, <3>1, ElementOfSeq
    <3>3. stack[i - 1].kind = "runTest" <=> AbstractCalls[i - 1].kind = "runTest"
      BY <1>3, <3>1, <3>2, AbstractCallType
    <3>4. stack[i - 1].kind = "runTest" => stack[i].kind = "test"
      BY <3>1 DEF RInv, RunTestInv
    <3> QED
      BY <1>4, <2>1, <3>3, <3>4 DEF Abstract!IsTest
  <2>2. CASE ~ i > 1
    BY <1>4, <2>2 DEF Abstract!IsTest
  <2> QED
    BY <2>1, <2>2
<1>6. Left(stack, i) \in 0..Len(stack)
  BY <1>2, <1>4 DEF Left
<1>7. AbstractCalls' = SubSeq(AbstractCalls, 1, Left(stack, i))
  <2>1. Len(stack) \in 0..Len(stack)
    BY <1>2
  <2> QED
    BY <1>1, <1>6, <2>1, CallsAtPrefix
<1>8. Left(stack, i) = IF Abstract!IsTest(i) THEN i - 2 ELSE i - 1
  BY <1>5 DEF Left
<1>9. AbstractResults' =
        IF Abstract!IsTest(i) THEN Append(AbstractResults, "ok") ELSE AbstractResults
  BY <1>1, <1>5
<1> QED
  BY <1>1, <1>7, <1>8, <1>9 DEF Abstract!ReturnFrom, AbstractOver

LEMMA Returns ==
  ASSUME RInv, RInv', Return
  PROVE  Abstract!Return
<1>1. /\ exit = Running /\ panic = NoPanic /\ exit' = Running /\ panic' = NoPanic
      /\ stack # <<>> /\ Leave /\ homes' = homes /\ blocks' = blocks
  BY DEF Return, Runs
<1> DEFINE k == Left(stack, Depth)
<1>2. /\ Depth \in 1..Len(stack) /\ Depth = Len(stack) /\ k \in 0..Len(stack)
      /\ stack' = SubSeq(stack, 1, k)
      /\ results' = IF stack[Depth].kind = "test" THEN Append(results, "ok") ELSE results
  BY <1>1, LeaveShape
<1>3. /\ AbstractCalls' = CallsAt(stack', Len(stack')) /\ AbstractResults' = results'
      /\ ~ AbstractOver'
  BY <1>1, RunsNext
<1>4. /\ stack \in Seq(Calls) /\ AbstractCalls # <<>> /\ Len(AbstractCalls) = Depth
      /\ ~ AbstractOver
  BY <1>1, <1>2, RunsAbstractly
<1>5. Len(stack') = k /\ \A i \in 1..k : stack'[i] = stack[i]
  BY <1>2, <1>4, PrefixOf
<1>6. AbstractCalls' = CallsAt(stack, k)
  BY <1>3, <1>5, CallsAtSame
<1>7. Abstract!ReturnFrom(Depth)
  BY <1>1, <1>2, <1>3, <1>6, ReturnsFrom
<1> QED
  BY <1>4, <1>7 DEF Abstract!Return, AbstractOver

\* A far return begins: the abstract program has returned, or has ended if its home
\* is gone.
LEMMA FarReturnBegins ==
  ASSUME RInv, RInv', FarRet
  PROVE  \/ \E i \in 1..Len(AbstractCalls) : Abstract!FarReturn(i)
         \/ Abstract!FarReturnNowhere
<1>1. /\ exit = Running /\ panic = NoPanic /\ exit' = Running /\ stack # <<>>
      /\ stack' = stack /\ results' = results /\ homes' = homes /\ blocks' = blocks
      /\ Top.kind = "block" /\ Top.home # 0
      /\ panic'.kind = "ret" /\ panic'.home = Top.home
  BY DEF FarRet, Runs
<1>2. /\ stack \in Seq(Calls) /\ Len(AbstractCalls) = Len(stack) /\ ~ AbstractOver
      /\ AbstractCalls = CallsAt(stack, Len(stack)) /\ AbstractResults = results
      /\ AbstractCalls # <<>> /\ Top \in Calls
      /\ AbstractCalls[Len(AbstractCalls)] = AbstractCall(Top)
  BY <1>1, RunsAbstractly
<1>3. Abstract!FarReturns
  <2>1. AbstractCall(Top).kind = "block" /\ AbstractCall(Top).home # 0
    BY <1>1, <1>2, AbstractCallType
  <2> QED
    BY <1>2, <2>1 DEF Abstract!FarReturns, AbstractOver
<1>4. \A i \in 1..Len(stack) : Abstract!IsHome(i) <=> IsHome(i, Top.home)
  <2> TAKE i \in 1..Len(stack)
  <2>1. stack[i] \in Calls /\ AbstractCalls[i] = AbstractCall(stack[i])
    <3>1. Len(stack) \in 0..Len(stack)
      BY <1>2, LenProperties
    <3> QED
      BY <1>2, <3>1, CallsAtType, ElementOfSeq
  <2>2. AbstractCall(Top).home = Top.home
    BY <1>2, AbstractCallType
  <2>3. Abstract!IsHome(i) <=> AbstractCalls[i] = [kind |-> "fun", home |-> Top.home]
    BY <1>2, <2>2 DEF Abstract!IsHome, Abstract!Call
  <2>4. AbstractCalls[i] = [kind |-> "fun", home |-> Top.home] <=>
          stack[i].kind \in {"fun", "test"} /\ stack[i].home = Top.home
    BY <2>1 DEF AbstractCall, Calls
  <2> QED
    BY <2>3, <2>4 DEF IsHome
<1>5. MapInv'
  BY Mapping, PTL
<1>6. CASE \E i \in 1..Len(stack) : IsHome(i, Top.home)
  <2>1. PICK i \in 1..Len(stack) : IsHome(i, Top.home)
    BY <1>6
  <2>2. i \in 1..Len(stack') /\ IsHome(i, panic.home)'
    BY <1>1, <2>1 DEF IsHome
  <2>3. /\ AbstractCalls' = CallsAt(stack, Left(stack, i))
        /\ AbstractResults' =
             IF stack[i].kind = "test" THEN Append(results, "ok") ELSE results
        /\ ~ AbstractOver'
    BY <1>1, <1>5, <2>2 DEF MapInv, AbstractOver, IsHome
  <2>4. Abstract!ReturnFrom(i)
    BY <1>1, <2>1, <2>3, ReturnsFrom
  <2>5. Abstract!FarReturn(i)
    BY <1>3, <1>4, <2>1, <2>4 DEF Abstract!FarReturn
  <2> QED
    BY <1>2, <2>5
<1>7. CASE \A i \in 1..Len(stack) : ~ IsHome(i, Top.home)
  <2>1. \A i \in 1..Len(stack') : ~ IsHome(i, panic.home)'
    BY <1>1, <1>7 DEF IsHome
  <2>2. AbstractCalls' = <<>> /\ AbstractResults' = results /\ AbstractOver'
    BY <1>1, <1>5, <2>1 DEF MapInv, AbstractOver, IsHome
  <2>3. Abstract!End
    BY <1>1, <1>2, <2>2 DEF Abstract!End, AbstractOver
  <2>4. \A i \in 1..Len(AbstractCalls) : ~ Abstract!IsHome(i)
    BY <1>2, <1>4, <1>7
  <2> QED
    BY <1>3, <2>3, <2>4 DEF Abstract!FarReturnNowhere
<1> QED
  BY <1>6, <1>7

\* A panic begins: the abstract program has left its test, or has ended.
LEMMA PanicBegins ==
  ASSUME RInv, RInv', Panic
  PROVE  \/ \E i \in 1..Len(AbstractCalls) : Abstract!Panic(i)
         \/ Abstract!PanicNoTest
<1>1. /\ exit = Running /\ panic = NoPanic /\ exit' = Running /\ stack # <<>>
      /\ stack' = stack /\ results' = results /\ homes' = homes /\ blocks' = blocks
      /\ panic'.kind = "val"
  BY DEF Panic, Throw, Runs
<1>2. /\ stack \in Seq(Calls) /\ Len(AbstractCalls) = Len(stack) /\ ~ AbstractOver
      /\ AbstractCalls = CallsAt(stack, Len(stack)) /\ AbstractResults = results
      /\ AbstractCalls # <<>> /\ Depth \in 1..Len(stack)
      /\ AbstractCalls \in Seq(ACalls)
  BY <1>1, RunsAbstractly
<1>3. Len(stack) \in Nat /\ 1 \in 1..Len(stack)
  BY <1>2, LenProperties
<1>4. \A i \in 1..Len(stack) : AbstractCalls[i].kind = "runTest" <=> stack[i].kind = "runTest"
  <2> TAKE i \in 1..Len(stack)
  <2>1. stack[i] \in Calls /\ AbstractCalls[i] = AbstractCall(stack[i])
    <3>1. Len(stack) \in 0..Len(stack)
      BY <1>3
    <3> QED
      BY <1>2, <3>1, CallsAtType, ElementOfSeq
  <2> QED
    BY <2>1, AbstractCallType
<1>5. \A i \in 1..Len(stack) : stack[i].kind = "runTest" => i = 1
  BY DEF RInv, RunTestInv
<1>6. MapInv'
  BY Mapping, PTL
<1>7. CASE InTest(stack)
  <2>1. AbstractCalls' = <<>> /\ AbstractResults' = Append(results, "failed") /\ ~ AbstractOver'
    BY <1>1, <1>6, <1>7 DEF MapInv, AbstractOver, InTest
  <2>2. AbstractCalls[1].kind = "runTest"
    BY <1>3, <1>4, <1>7 DEF InTest
  <2>3. \A j \in 1 + 1..Len(AbstractCalls) : AbstractCalls[j].kind # "runTest"
    <3>1. \A j \in 1 + 1..Len(AbstractCalls) : j \in 1..Len(stack) /\ j # 1
      BY <1>2, <1>3
    <3> QED
      BY <1>4, <1>5, <3>1
  <2>4. SubSeq(AbstractCalls, 1, 1 - 1) = <<>>
    BY <1>2, SubSeqEmpty
  <2>5. Abstract!Panic(1)
    BY <1>1, <1>2, <2>1, <2>2, <2>3, <2>4 DEF Abstract!Panic, AbstractOver
  <2> QED
    BY <1>2, <1>3, <2>5
<1>8. CASE ~ InTest(stack)
  <2>1. AbstractCalls' = <<>> /\ AbstractResults' = results /\ AbstractOver'
    BY <1>1, <1>6, <1>8 DEF MapInv, AbstractOver, InTest
  <2>2. \A j \in 1..Len(AbstractCalls) : AbstractCalls[j].kind # "runTest"
    BY <1>1, <1>2, <1>4, <1>5, <1>8 DEF InTest
  <2>3. Abstract!End
    BY <1>1, <1>2, <2>1 DEF Abstract!End, AbstractOver
  <2> QED
    BY <1>2, <2>2, <2>3 DEF Abstract!PanicNoTest, AbstractOver
<1> QED
  BY <1>7, <1>8

\* An error begins: the abstract program has ended.
LEMMA ErrorBegins ==
  ASSUME RInv, RInv', RuntimeError
  PROVE  Abstract!Error
<1>1. /\ exit = Running /\ panic = NoPanic /\ exit' = Running /\ stack # <<>>
      /\ stack' = stack /\ results' = results /\ homes' = homes /\ blocks' = blocks
      /\ panic'.kind = "error"
  BY DEF RuntimeError, Throw, Runs
<1>2. AbstractResults = results /\ ~ AbstractOver /\ AbstractCalls # <<>>
  BY <1>1, RunsAbstractly
<1>3. MapInv'
  BY Mapping, PTL
<1>4. AbstractCalls' = <<>> /\ AbstractResults' = results /\ AbstractOver'
  BY <1>1, <1>3 DEF MapInv, AbstractOver
<1> QED
  BY <1>1, <1>2, <1>4 DEF Abstract!Error, Abstract!End, AbstractOver

\* The home catches the far return: for the program it had returned already.
LEMMA CatchUnseen ==
  ASSUME RInv, RInv', Catch
  PROVE  [Abstract!Next]_(Abstract!vars)
<1>1. /\ exit = Running /\ exit' = Running /\ panic.kind = "ret" /\ panic' = NoPanic
      /\ stack # <<>> /\ Leave /\ IsMine /\ homes' = homes /\ blocks' = blocks
  BY DEF Catch, Unwinds, IsMine
<1> DEFINE k == Left(stack, Depth)
<1>2. /\ Depth \in 1..Len(stack) /\ Depth = Len(stack) /\ k \in 0..Len(stack)
      /\ stack' = SubSeq(stack, 1, k)
      /\ results' = IF stack[Depth].kind = "test" THEN Append(results, "ok") ELSE results
  BY <1>1, LeaveShape
<1>3. IsHome(Depth, panic.home)
  <2>1. Top.token = Top.home /\ panic.token = panic.home
    BY <1>1, TopCall DEF RInv, IInv, TokenInv
  <2> QED
    BY <1>1, <2>1 DEF IsMine, Catches, IsHome, Top
<1>4. MapInv
  BY Mapping
<1>5. /\ AbstractCalls = CallsAt(stack, k)
      /\ AbstractResults =
           IF stack[Depth].kind = "test" THEN Append(results, "ok") ELSE results
      /\ ~ AbstractOver
  BY <1>1, <1>2, <1>3, <1>4 DEF MapInv, AbstractOver
<1>6. stack \in Seq(Calls)
  BY DEF RInv, IInv, StackInv
<1>7. Len(stack') = k /\ \A i \in 1..k : stack'[i] = stack[i]
  BY <1>2, <1>6, PrefixOf
<1>8. CallsAt(stack', k) = CallsAt(stack, k)
  BY <1>7, CallsAtSame
<1>9. /\ AbstractCalls' = CallsAt(stack', Len(stack')) /\ AbstractResults' = results'
      /\ ~ AbstractOver'
  BY <1>1, RunsNext
<1> QED
  BY <1>1, <1>2, <1>5, <1>7, <1>8, <1>9, Stutters

\* A call is left that is not where unwinding stops: what will be left is the same.
LEMMA PassUnseen ==
  ASSUME RInv, RInv', Pass \/ PassTest
  PROVE  [Abstract!Next]_(Abstract!vars)
<1>1. /\ exit = Running /\ exit' = Running /\ panic' = panic /\ panic # NoPanic /\ panic.kind # "none"
      /\ stack # <<>> /\ stack' = Pop
      /\ results' = results /\ homes' = homes /\ blocks' = blocks
  BY DEF Pass, PassTest, Unwinds, RInv
<1>2. /\ stack \in Seq(Calls) /\ Depth \in 1..Len(stack) /\ Depth = Len(stack)
      /\ Depth - 1 \in 0..Len(stack) /\ panic \in Panics
  BY <1>1, PopShape DEF RInv, IInv, TypeOK
<1>3. /\ stack' \in Seq(Calls) /\ Len(stack') = Depth - 1
      /\ \A i \in 1..(Depth - 1) : i \in 1..Len(stack) /\ stack'[i] = stack[i]
  BY <1>1, <1>2, PrefixOf DEF Pop
<1>4. \A i \in 1..Len(stack) : i = Depth \/ i \in 1..(Depth - 1)
  BY <1>2
<1>5. MapInv /\ MapInv'
  BY Mapping, PTL
<1>6. CASE panic.kind = "ret"
  <2>1. ~ IsHome(Depth, panic.home)
    <3>1. Top.token = Top.home /\ panic.token = panic.home /\ panic.home # 0
      BY <1>1, <1>6, TopCall DEF RInv, IInv, TokenInv
    <3>2. Pass => ~ IsMine
      BY DEF Pass
    <3>3. PassTest => Top.kind = "runTest"
      BY DEF PassTest
    <3> QED
      BY <1>6, <3>1, <3>2, <3>3 DEF IsMine, Catches, IsHome, Top
  <2>2. CASE \E i \in 1..Len(stack) : IsHome(i, panic.home)
    <3>1. PICK i \in 1..Len(stack) : IsHome(i, panic.home)
      BY <2>2
    <3>2. i \in 1..(Depth - 1) /\ i \in 1..Len(stack') /\ stack'[i] = stack[i]
      BY <1>3, <1>4, <2>1, <3>1
    <3>3. IsHome(i, panic.home)' /\ Left(stack', i) = Left(stack, i)
      BY <1>1, <3>1, <3>2 DEF IsHome, Left
    <3>4. CallsAt(stack', Left(stack, i)) = CallsAt(stack, Left(stack, i))
      <4>1. \A j \in 1..Left(stack, i) : j \in 1..(Depth - 1)
        BY <1>2, <3>2 DEF Left
      <4>2. \A j \in 1..Left(stack, i) : stack'[j] = stack[j]
        BY <1>3, <4>1
      <4> QED
        BY <4>2, CallsAtSame
    <3>5. /\ AbstractCalls = CallsAt(stack, Left(stack, i))
          /\ AbstractResults =
               IF stack[i].kind = "test" THEN Append(results, "ok") ELSE results
          /\ ~ AbstractOver
      BY <1>1, <1>5, <1>6, <3>1 DEF MapInv, AbstractOver
    <3>6. /\ AbstractCalls' = CallsAt(stack', Left(stack', i))
          /\ AbstractResults' =
               IF stack[i].kind = "test" THEN Append(results, "ok") ELSE results
          /\ ~ AbstractOver'
      BY <1>1, <1>5, <1>6, <3>2, <3>3 DEF MapInv, AbstractOver, IsHome
    <3> QED
      BY <1>1, <3>3, <3>4, <3>5, <3>6, Stutters
  <2>3. CASE \A i \in 1..Len(stack) : ~ IsHome(i, panic.home)
    <3>1. \A i \in 1..Len(stack') : ~ IsHome(i, panic.home)'
      BY <1>1, <1>3, <2>3 DEF IsHome
    <3>2. AbstractCalls = <<>> /\ AbstractResults = results /\ AbstractOver
      BY <1>1, <1>5, <1>6, <2>3 DEF MapInv, AbstractOver
    <3>3. AbstractCalls' = <<>> /\ AbstractResults' = results /\ AbstractOver'
      BY <1>1, <1>5, <1>6, <3>1 DEF MapInv, AbstractOver, IsHome
    <3> QED
      BY <1>1, <3>2, <3>3, Stutters
  <2> QED
    BY <2>2, <2>3
<1>7. CASE panic.kind = "val"
  <2>1. Top.kind # "runTest"
    BY <1>7 DEF Pass, PassTest
  <2>2. InTest(stack') <=> InTest(stack)
    <3>1. InTest(stack) => Depth # 1
      BY <2>1 DEF InTest, Top
    <3>2. Depth \in Nat /\ Depth >= 1
      BY <1>2, LenProperties
    <3>3. stack' # <<>> <=> Depth # 1
      BY <1>3, <3>2, EmptySeq
    <3>4. Depth # 1 => stack'[1] = stack[1]
      BY <1>3, <3>2
    <3> QED
      BY <1>1, <3>1, <3>3, <3>4 DEF InTest
  <2>3. CASE InTest(stack)
    <3>1. AbstractCalls = <<>> /\ AbstractResults = Append(results, "failed") /\ ~ AbstractOver
      BY <1>1, <1>5, <1>7, <2>3 DEF MapInv, AbstractOver
    <3>2. AbstractCalls' = <<>> /\ AbstractResults' = Append(results, "failed")
          /\ ~ AbstractOver'
      BY <1>1, <1>5, <1>7, <2>2, <2>3 DEF MapInv, AbstractOver, InTest
    <3> QED
      BY <1>1, <3>1, <3>2, Stutters
  <2>4. CASE ~ InTest(stack)
    <3>1. AbstractCalls = <<>> /\ AbstractResults = results /\ AbstractOver
      BY <1>1, <1>5, <1>7, <2>4 DEF MapInv, AbstractOver
    <3>2. AbstractCalls' = <<>> /\ AbstractResults' = results /\ AbstractOver'
      BY <1>1, <1>5, <1>7, <2>2, <2>4 DEF MapInv, AbstractOver, InTest
    <3> QED
      BY <1>1, <3>1, <3>2, Stutters
  <2> QED
    BY <2>3, <2>4
<1>8. CASE panic.kind = "error"
  <2>1. AbstractCalls = <<>> /\ AbstractResults = results /\ AbstractOver
    BY <1>1, <1>5, <1>8 DEF MapInv, AbstractOver
  <2>2. AbstractCalls' = <<>> /\ AbstractResults' = results /\ AbstractOver'
    BY <1>1, <1>5, <1>8 DEF MapInv, AbstractOver
  <2> QED
    BY <1>1, <2>1, <2>2, Stutters
<1> QED
  BY <1>1, <1>2, <1>6, <1>7, <1>8 DEF Panics

\* runTest reports a failure that had ended the test already.
LEMMA TestFailsUnseen ==
  ASSUME RInv, RInv', TestFails
  PROVE  [Abstract!Next]_(Abstract!vars)
<1>1. /\ exit = Running /\ exit' = Running /\ panic.kind = "val" /\ panic' = NoPanic
      /\ stack # <<>> /\ stack' = Pop /\ Top.kind = "runTest"
      /\ results' = Append(results, "failed") /\ homes' = homes /\ blocks' = blocks
  BY DEF TestFails, Unwinds
<1>2. Depth = 1 /\ stack' = <<>>
  BY <1>1, PopShape
<1>3. InTest(stack)
  BY <1>1, <1>2 DEF InTest, Top
<1>4. AbstractCalls = <<>> /\ AbstractResults = results' /\ ~ AbstractOver
  BY <1>1, <1>3, Mapping DEF MapInv, AbstractOver
<1>5. /\ AbstractCalls' = CallsAt(stack', Len(stack')) /\ AbstractResults' = results'
      /\ ~ AbstractOver'
  BY <1>1, RunsNext
<1>6. AbstractCalls' = <<>>
  <2>1. <<>> \in Seq(Calls) /\ Len(<<>>) = 0
    OBVIOUS
  <2> QED
    BY <1>2, <1>5, <2>1, NoneAt
<1> QED
  BY <1>1, <1>4, <1>5, <1>6, Stutters

\* main ends the program that had ended already.
LEMMA MainEndsUnseen ==
  ASSUME RInv, RInv', MainRecovers \/ MainDies
  PROVE  [Abstract!Next]_(Abstract!vars)
<1>1. /\ exit = Running /\ exit' # Running /\ panic # NoPanic /\ panic.kind # "none"
      /\ stack = <<>> /\ panic \in Panics
      /\ results' = results /\ homes' = homes /\ blocks' = blocks
  BY DEF MainRecovers, MainDies, Unwinds, Running, RInv, IInv, TypeOK
<1>2. Len(stack) = 0 /\ ~ InTest(stack)
  BY <1>1 DEF InTest
<1>3. MapInv /\ MapInv'
  BY Mapping, PTL
<1>4. AbstractCalls = <<>> /\ AbstractResults = results /\ AbstractOver
  <2>1. CASE panic.kind = "ret"
    BY <1>1, <1>2, <1>3, <2>1 DEF MapInv, AbstractOver
  <2>2. CASE panic.kind = "val"
    BY <1>1, <1>2, <1>3, <2>2 DEF MapInv, AbstractOver
  <2>3. CASE panic.kind = "error"
    BY <1>1, <1>2, <1>3, <2>3 DEF MapInv, AbstractOver
  <2> QED
    BY <1>1, <2>1, <2>2, <2>3 DEF Panics
<1>5. AbstractCalls' = <<>> /\ AbstractResults' = results /\ AbstractOver'
  BY <1>1, <1>3 DEF MapInv, AbstractOver
<1> QED
  BY <1>1, <1>4, <1>5, Stutters

LEMMA MainReturnsLast ==
  ASSUME RInv, RInv', MainReturns
  PROVE  Abstract!Exit
<1>1. /\ exit = Running /\ exit' # Running /\ panic = NoPanic /\ stack = <<>>
      /\ results' = results /\ homes' = homes /\ blocks' = blocks
  <2>1. exitStatus # Running
    BY DEF RInv, IInv, TypeOK, Running
  <2> QED
    BY <2>1 DEF MainReturns
<1>2. AbstractCalls = CallsAt(stack, Len(stack)) /\ AbstractResults = results /\ ~ AbstractOver
  BY <1>1, RunsAbstractly
<1>3. AbstractCalls = <<>>
  <2>1. <<>> \in Seq(Calls) /\ Len(<<>>) = 0
    OBVIOUS
  <2> QED
    BY <1>1, <1>2, <2>1, NoneAt
<1>4. MapInv'
  BY Mapping, PTL
<1>5. AbstractCalls' = <<>> /\ AbstractResults' = results /\ AbstractOver'
  BY <1>1, <1>4 DEF MapInv, AbstractOver
<1> QED
  BY <1>1, <1>2, <1>3, <1>5 DEF Abstract!Exit, Abstract!End, AbstractOver

LEMMA InitImplements == Init => Abstract!Init
<1> SUFFICES ASSUME Init PROVE Abstract!Init
  OBVIOUS
<1>1. RInv /\ exit = Running /\ panic = NoPanic /\ stack = <<>> /\ results = <<>>
      /\ homes = 0 /\ blocks = {}
  BY RInit DEF Init
<1>2. AbstractCalls = CallsAt(stack, Len(stack)) /\ AbstractResults = results /\ ~ AbstractOver
  BY <1>1, RunsAbstractly
<1>3. AbstractCalls = <<>>
  <2>1. <<>> \in Seq(Calls) /\ Len(<<>>) = 0
    OBVIOUS
  <2> QED
    BY <1>1, <1>2, <2>1, NoneAt
<1>4. {b.home : b \in blocks} = {}
  BY <1>1
<1> QED
  BY <1>1, <1>2, <1>3, <1>4 DEF Abstract!Init, AbstractOver

LEMMA StepImplements == RInv /\ RInv' /\ [Next]_vars => [Abstract!Next]_(Abstract!vars)
<1> SUFFICES ASSUME RInv, RInv', [Next]_vars PROVE [Abstract!Next]_(Abstract!vars)
  OBVIOUS
<1>1. CASE \E canFarRet \in BOOLEAN : CallFun(canFarRet) \/ MainCalls(canFarRet)
  BY <1>1, CallsFun, MainCallsFun DEF Abstract!Next
<1>2. CASE MakeBlock
  BY <1>2, MakesBlock DEF Abstract!Next
<1>3. CASE \E b \in blocks : CallBlock(b)
  BY <1>3, CallsBlock DEF Abstract!Next
<1>4. CASE Return
  BY <1>4, Returns DEF Abstract!Next
<1>5. CASE FarRet
  BY <1>5, FarReturnBegins DEF Abstract!Next
<1>6. CASE Panic \/ RuntimeError
  BY <1>6, PanicBegins, ErrorBegins DEF Abstract!Next
<1>7. CASE Catch
  BY <1>7, CatchUnseen
<1>8. CASE Pass \/ PassTest
  BY <1>8, PassUnseen
<1>9. CASE TestFails
  BY <1>9, TestFailsUnseen
<1>10. CASE MainRecovers \/ MainDies
  BY <1>10, MainEndsUnseen
<1>11. CASE MainReturns
  BY <1>11, MainReturnsLast DEF Abstract!Next
<1>12. CASE Exited \/ UNCHANGED vars
  <2>1. UNCHANGED vars
    BY <1>12 DEF Exited
  <2> QED
    BY <2>1 DEF vars, Abstract!vars, AbstractCalls, AbstractResults, Landing, Homes, RunTests,
       Depth, IsHome, Below, AbstractCall
<1> QED
  BY <1>1, <1>2, <1>3, <1>4, <1>5, <1>6, <1>7, <1>8, <1>9, <1>10, <1>11, <1>12 DEF Next

-----------------------------------------------------------------------------
(* Theorem *)

\* What a generated program does with tokens, panics and deferred recovers is, for the
\* program, what NonLocalReturn says: a ^ in a block returns from the activation that
\* the block was made in, at once and with all calls within it dropped, or ends the
\* program if that activation is gone; a panic ends the running test, or the program, and a
\* run-time error the program.
\* For every number of tests, every nesting of calls and every use of blocks.
THEOREM ImplementsCorrect == Spec => Implements
BY InitImplements, StepImplements, RInvariance, PTL DEF Spec, Implements, Abstract!Spec

-----------------------------------------------------------------------------
(* What a program tells when it ends *)

Failed(rs) == \E i \in 1..Len(rs) : rs[i] = "failed"

\* What main calls after the initializers, and whether it has called these.
Later == IF Tests = 0 THEN "main" ELSE "test"
Started(ts) == ts = <<>> \/ ts[1] # "init"

\* Tests are told, under way, or still to do; but for one that a far return or an error has left,
\* after which only main's deferred function runs.
CountInv ==
  /\ \A i \in 1..Len(todo) : i > 1 \/ Started(todo) => todo[i] = Later
  /\ ~ Started(todo) => stack = <<>> /\ panic = NoPanic /\ results = <<>>
                         /\ (Tests # 0 => Len(todo) = Tests + 1)
  /\ Tests = 0 => results = <<>> /\ ~ InTest(stack)
  /\ Tests # 0 /\ InTest(stack) => Len(results) + Len(todo) + 1 = Tests
  /\ Tests # 0 /\ Started(todo) /\ ~ InTest(stack) =>
       /\ stack # <<>> => results = <<>> /\ Len(todo) = Tests
       /\ panic = NoPanic => Len(results) + Len(todo) = Tests
       /\ panic # NoPanic => Len(results) < Tests
       /\ panic.kind = "val" => results = <<>>

StatusInv ==
  /\ exitStatus = 1 <=> Failed(results)
  /\ exit # Running /\ panic = NoPanic => todo = <<>> /\ exit = exitStatus
  /\ exit # Running /\ panic # NoPanic => exit = IF panic.kind = "error" THEN 2 ELSE 0

SInv == RInv /\ CountInv /\ StatusInv

LEMMA FailedAppend ==
  ASSUME NEW rs \in Seq({"ok", "failed"}), NEW r \in {"ok", "failed"}
  PROVE  /\ Failed(Append(rs, r)) <=> Failed(rs) \/ r = "failed"
         /\ Len(Append(rs, r)) = Len(rs) + 1 /\ Len(rs) \in Nat
<1> DEFINE t == Append(rs, r)
<1>1. /\ Len(rs) \in Nat /\ Len(t) = Len(rs) + 1 /\ t[Len(rs) + 1] = r
      /\ \A i \in 1..Len(rs) : t[i] = rs[i]
  OBVIOUS
<1>2. 1..Len(t) = 1..Len(rs) \cup {Len(rs) + 1}
  BY <1>1
<1> HIDE DEF t
<1>3. Failed(t) <=> Failed(rs) \/ r = "failed"
  BY <1>1, <1>2 DEF Failed
<1> QED
  BY <1>1, <1>3 DEF t

LEMMA InitCount == Init => CountInv /\ StatusInv
<1> SUFFICES ASSUME Init PROVE CountInv /\ StatusInv
  OBVIOUS
<1> DEFINE later == IF Tests = 0 THEN <<"main">> ELSE [i \in 1..Tests |-> "test"]
           n == IF Tests = 0 THEN 1 ELSE Tests
<1>1. /\ stack = <<>> /\ panic = NoPanic /\ results = <<>> /\ exitStatus = 0 /\ exit = Running
      /\ todo = <<"init">> \o later
  BY DEF Init
<1>2. /\ later \in Seq({"main", "test"}) /\ Len(later) = n /\ n \in Nat
      /\ \A i \in 1..n : later[i] = Later
  <2>1. CASE Tests = 0
    BY <2>1 DEF Later
  <2>2. CASE Tests # 0
    <3>1. Tests \in Nat
      BY BoundAssumption
    <3> QED
      BY <2>2, <3>1 DEF Later
  <2> QED
    BY <2>1, <2>2
<1> HIDE DEF later
<1>3. /\ Len(todo) = n + 1 /\ todo[1] = "init"
      /\ \A i \in 2..n + 1 : todo[i] = later[i - 1]
  BY <1>1, <1>2
<1>4. \A i \in 1..Len(todo) : i > 1 => todo[i] = Later
  BY <1>2, <1>3
<1>5. ~ Started(todo) /\ (Tests # 0 => Len(todo) = Tests + 1)
  BY <1>2, <1>3 DEF Started
<1>6. ~ InTest(stack) /\ ~ Failed(results)
  BY <1>1 DEF InTest, Failed
<1> QED
  BY <1>1, <1>4, <1>5, <1>6 DEF CountInv, StatusInv

\* Dropping the innermost call: a test is under way if it was before, unless nothing is left.
LEMMA PopInTest ==
  ASSUME RInv, stack # <<>>
  PROVE  /\ Pop # <<>> => (InTest(Pop) <=> InTest(stack))
         /\ Pop = <<>> => (InTest(stack) <=> Top.kind = "runTest")
<1>1. stack \in Seq(Calls) /\ Depth = Len(stack) /\ Depth \in Nat \ {0} /\ Depth - 1 \in 0..Len(stack)
  BY PopShape, TopCall DEF RInv, IInv, StackInv
<1>2. /\ Pop \in Seq(Calls) /\ Len(Pop) = Depth - 1
      /\ \A i \in 1..Depth - 1 : Pop[i] = stack[i]
  BY <1>1, PrefixOf DEF Pop
<1>3. CASE Depth = 1
  <2>1. Pop = <<>>
    BY <1>2, <1>3, EmptySeq
  <2>2. Top = stack[1]
    BY <1>3 DEF Top
  <2> QED
    BY <2>1, <2>2 DEF InTest
<1>4. CASE Depth # 1
  <2>1. 1 \in 1..Depth - 1 /\ Len(Pop) # 0
    BY <1>1, <1>2, <1>4
  <2>2. Pop # <<>> /\ Pop[1] = stack[1]
    BY <1>2, <2>1, EmptySeq
  <2> QED
    BY <2>2 DEF InTest
<1> QED
  BY <1>3, <1>4

\* A return from a test leaves nothing on the stack.
LEMMA LeaveTest ==
  ASSUME RInv, stack # <<>>, Leave, Top.kind = "test"
  PROVE  InTest(stack) /\ stack' = <<>>
<1>1. /\ stack \in Seq(Calls) /\ Depth = Len(stack) /\ Depth \in Nat /\ Depth > 1
      /\ stack[Depth - 1].kind = "runTest" /\ RunTestInv(stack)
  BY TopCall DEF RInv, IInv, StackInv, Depth
<1>2. Depth - 1 \in 1..Len(stack)
  BY <1>1
<1>3. Depth - 1 = 1
  BY <1>1, <1>2 DEF RunTestInv
<1>4. Depth - 2 \in 0..Len(stack) /\ Depth - 2 = 0
  <2>1. Depth \in Nat /\ Depth - 1 = 1
    BY <1>1, <1>3
  <2>2. Depth = 2
    BY <2>1
  <2> QED
    BY <1>1, <2>2
<1>5. stack' = SubSeq(stack, 1, Depth - 2)
  BY DEF Leave
<1>6. stack' \in Seq(Calls) /\ Len(stack') = 0
  BY <1>1, <1>4, <1>5, PrefixOf
<1> QED
  BY <1>1, <1>3, <1>6, EmptySeq DEF InTest

\* The program runs on, or begins to unwind: no call is left.
LEMMA RunsCount ==
  ASSUME SInv, stack # <<>>, stack' # <<>>, InTest(stack') <=> InTest(stack),
         panic' = panic \/ panic = NoPanic, UNCHANGED <<todo, results, exitStatus, exit>>
  PROVE  CountInv' /\ StatusInv'
<1>1. Started(todo) /\ todo' = todo /\ results' = results
  BY DEF SInv, CountInv
<1>2. exit = Running /\ exit' = Running
  BY DEF SInv, RInv
<1>3. StatusInv'
  BY <1>1, <1>2 DEF SInv, StatusInv
<1>4. Tests \in Nat /\ Len(<<>>) = 0
  BY BoundAssumption
<1>5. CountInv'
  BY <1>1, <1>4 DEF SInv, CountInv
<1> QED
  BY <1>3, <1>5

\* A call is left without a result, by a return or by unwinding.
LEMMA PopCount ==
  ASSUME SInv, stack # <<>>, stack' = Pop, Top.kind # "runTest",
         panic' = panic \/ panic' = NoPanic, UNCHANGED <<todo, results, exitStatus, exit>>
  PROVE  CountInv' /\ StatusInv'
<1>1. Started(todo) /\ todo' = todo /\ results' = results
  BY DEF SInv, CountInv
<1>2. exit = Running /\ exit' = Running
  BY DEF SInv, RInv
<1>3. StatusInv'
  BY <1>1, <1>2 DEF SInv, StatusInv
<1>4. Tests \in Nat /\ Len(<<>>) = 0
  BY BoundAssumption
<1>5. CASE stack' # <<>>
  <2>1. InTest(stack') <=> InTest(stack)
    BY <1>5, PopInTest DEF SInv
  <2> QED
    BY <1>1, <1>3, <1>4, <1>5, <2>1 DEF SInv, CountInv
<1>6. CASE stack' = <<>>
  <2>1. ~ InTest(stack) /\ ~ InTest(stack')
    BY <1>6, PopInTest DEF SInv, InTest
  <2> QED
    BY <1>1, <1>3, <1>4, <1>6, <2>1 DEF SInv, CountInv
<1> QED
  BY <1>5, <1>6

\* A test gets its result.
LEMMA ResultCount ==
  ASSUME SInv, InTest(stack), stack' = <<>>, panic' = NoPanic,
         NEW r \in {"ok", "failed"}, results' = Append(results, r),
         exitStatus' = IF r = "failed" THEN 1 ELSE exitStatus,
         UNCHANGED <<todo, exit>>
  PROVE  CountInv' /\ StatusInv'
<1>1. Started(todo) /\ Tests # 0 /\ Len(results) + Len(todo) + 1 = Tests
  BY DEF SInv, CountInv, InTest
<1>2. exit = Running /\ exit' = Running
  BY DEF SInv, RInv, InTest
<1>3. /\ Failed(results') <=> Failed(results) \/ r = "failed"
      /\ Len(results') = Len(results) + 1 /\ Len(results) \in Nat /\ Len(todo) \in Nat
  BY FailedAppend DEF SInv, RInv, IInv, TypeOK
<1>4. StatusInv'
  BY <1>2, <1>3 DEF SInv, StatusInv
<1>5. Tests \in Nat /\ ~ InTest(stack')
  BY BoundAssumption DEF InTest
<1>6. Len(results') + Len(todo') = Tests
  BY <1>1, <1>3
<1>7. panic'.kind # "val"
  BY DEF NoPanic
<1>8. CountInv'
  BY <1>1, <1>5, <1>6, <1>7 DEF SInv, CountInv
<1> QED
  BY <1>4, <1>8

\* A far return or an error leaves a test without a result.
LEMMA LostCount ==
  ASSUME SInv, InTest(stack), stack' = <<>>, panic # NoPanic, panic.kind # "val",
         UNCHANGED <<panic, results, exitStatus, todo, exit>>
  PROVE  CountInv' /\ StatusInv'
<1>1. Started(todo) /\ Tests # 0 /\ Len(results) + Len(todo) + 1 = Tests
  BY DEF SInv, CountInv, InTest
<1>2. exit = Running
  BY DEF SInv, RInv, InTest
<1>3. Len(results) \in Nat /\ Len(todo) \in Nat
  BY DEF SInv, RInv, IInv, TypeOK
<1>4. StatusInv'
  BY <1>2 DEF SInv, StatusInv
<1>5. ~ InTest(stack') /\ Len(results) < Tests
  BY <1>1, <1>3 DEF InTest
<1>6. CountInv'
  BY <1>1, <1>5 DEF SInv, CountInv
<1> QED
  BY <1>4, <1>6

\* main calls an initializer, a test or the program.
LEMMA MainCount ==
  ASSUME SInv, NEW canFarRet \in BOOLEAN, MainCalls(canFarRet)
  PROVE  CountInv' /\ StatusInv'
<1> DEFINE r == [kind |-> "runTest", token |-> 0, home |-> 0]
           base == IF Head(todo) = "test" THEN <<r>> ELSE <<>>
<1>1. /\ exit = Running /\ panic = NoPanic /\ stack = <<>> /\ todo # <<>> /\ todo' = Tail(todo)
      /\ UNCHANGED <<panic, results, exitStatus, exit>>
  BY DEF MainCalls
<1>2. PICK c : stack' = Append(base, c) /\ c.kind \in {"fun", "test"}
  <2> DEFINE Fun(kind) == [kind |-> kind, token |-> IF canFarRet THEN nextToken ELSE 0,
                           home |-> IF canFarRet THEN homes + 1 ELSE 0]
  <2>1. CASE Head(todo) = "test"
    <3>1. stack' = Append(<<r>>, Fun("test")) /\ base = <<r>>
      BY <2>1 DEF MainCalls, PushFun
    <3>2. Fun("test").kind = "test"
      OBVIOUS
    <3> QED
      BY <3>1, <3>2
  <2>2. CASE Head(todo) # "test"
    <3>1. stack' = Append(<<>>, Fun("fun")) /\ base = <<>>
      BY <2>2 DEF MainCalls, PushFun
    <3>2. Fun("fun").kind = "fun"
      OBVIOUS
    <3> QED
      BY <3>1, <3>2
  <2> QED
    BY <2>1, <2>2
<1>3. stack' # <<>> /\ (InTest(stack') <=> Head(todo) = "test")
  <2>1. CASE Head(todo) = "test"
    <3>1. base = <<r>>
      BY <2>1
    <3>2. Len(stack') = 2 /\ stack'[1] = r
      BY <1>2, <3>1
    <3> QED
      BY <2>1, <3>2 DEF InTest
  <2>2. CASE Head(todo) # "test"
    <3>1. base = <<>>
      BY <2>2
    <3>2. Len(stack') = 1 /\ stack'[1] = c
      BY <1>2, <3>1
    <3> QED
      BY <1>2, <2>2, <3>2 DEF InTest
  <2> QED
    BY <2>1, <2>2
<1>4. /\ todo \in Seq({"init", "main", "test"}) /\ Len(todo) \in Nat /\ Len(todo) # 0
      /\ Head(todo) = todo[1] /\ Len(todo') = Len(todo) - 1
      /\ \A i \in 1..Len(todo') : todo'[i] = todo[i + 1] /\ i + 1 \in 1..Len(todo) /\ i + 1 > 1
  BY <1>1 DEF SInv, RInv, IInv, TypeOK
<1>5. \A i \in 1..Len(todo') : todo'[i] = Later
  BY <1>4 DEF SInv, CountInv
<1>6. Started(todo') /\ Later # "init"
  <2>1. Later # "init"
    BY DEF Later
  <2>2. todo' = <<>> \/ 1 \in 1..Len(todo')
    <3>1. todo' \in Seq({"init", "main", "test"})
      BY <1>1, <1>4
    <3> QED
      BY <3>1
  <2> QED
    BY <1>5, <2>1, <2>2 DEF Started
<1>7. StatusInv'
  BY <1>1 DEF SInv, StatusInv
<1>8. Tests \in Nat /\ ~ InTest(stack) /\ Len(<<>>) = 0
  BY <1>1, BoundAssumption DEF InTest
<1>9. CASE ~ Started(todo)
  <2>1. todo[1] = "init" /\ results = <<>> /\ (Tests # 0 => Len(todo) = Tests + 1)
    BY <1>9 DEF Started, SInv, CountInv
  <2>2. ~ InTest(stack') /\ (Tests # 0 => Len(todo') = Tests)
    BY <1>3, <1>4, <1>8, <2>1
  <2> QED
    BY <1>1, <1>3, <1>5, <1>6, <1>7, <1>8, <2>1, <2>2 DEF CountInv
<1>10. CASE Started(todo)
  <2>1. Head(todo) = Later
    <3>1. 1 \in 1..Len(todo)
      BY <1>4
    <3> QED
      BY <1>4, <1>10, <3>1 DEF SInv, CountInv
  <2>2. CASE Tests = 0
    <3>1. results = <<>> /\ ~ InTest(stack')
      BY <1>3, <2>1, <2>2 DEF SInv, CountInv, Later
    <3> QED
      BY <1>1, <1>5, <1>6, <1>7, <2>2, <3>1 DEF CountInv
  <2>3. CASE Tests # 0
    <3>1. InTest(stack') /\ Len(results) + Len(todo) = Tests
      BY <1>1, <1>3, <1>8, <1>10, <2>1, <2>3 DEF SInv, CountInv, Later
    <3>2. Len(results) \in Nat
      BY DEF SInv, RInv, IInv, TypeOK
    <3>3. Len(results') + Len(todo') + 1 = Tests
      BY <1>1, <1>4, <3>1, <3>2
    <3> QED
      BY <1>5, <1>6, <1>7, <2>3, <3>1, <3>3 DEF CountInv
  <2> QED
    BY <2>2, <2>3
<1> QED
  BY <1>9, <1>10

LEMMA StepCount == SInv /\ [Next]_vars => CountInv' /\ StatusInv'
<1> SUFFICES ASSUME SInv, [Next]_vars PROVE CountInv' /\ StatusInv'
  OBVIOUS
<1>1. /\ RInv /\ stack \in Seq(Calls) /\ exitStatus \in {0, 1}
      /\ NoPanic.kind = "none"
  BY DEF SInv, RInv, IInv, TypeOK, NoPanic
<1>2. ASSUME NEW c, stack # <<>>, stack' = Append(stack, c)
      PROVE  stack' # <<>> /\ (InTest(stack') <=> InTest(stack))
  <2>1. Len(stack) \in Nat /\ Len(stack) # 0 /\ Len(stack') = Len(stack) + 1 /\ stack'[1] = stack[1]
    BY <1>1, <1>2
  <2> QED
    BY <1>2, <2>1 DEF InTest
<1>3. ASSUME NEW canFarRet \in BOOLEAN, CallFun(canFarRet)
      PROVE  CountInv' /\ StatusInv'
  <2>1. /\ stack # <<>> /\ UNCHANGED <<panic, todo, results, exitStatus, exit>>
        /\ \E c : stack' = Append(stack, c)
    BY <1>3 DEF CallFun, Runs, PushFun
  <2> QED
    BY <1>2, <2>1, RunsCount
<1>4. ASSUME NEW b \in blocks, CallBlock(b)
      PROVE  CountInv' /\ StatusInv'
  <2>1. /\ stack # <<>> /\ UNCHANGED <<panic, todo, results, exitStatus, exit>>
        /\ \E c : stack' = Append(stack, c)
    BY <1>4 DEF CallBlock, Runs
  <2> QED
    BY <1>2, <2>1, RunsCount
<1>5. CASE MakeBlock \/ FarRet \/ Panic \/ RuntimeError
  <2>1. /\ stack # <<>> /\ stack' = stack /\ panic = NoPanic
        /\ UNCHANGED <<todo, results, exitStatus, exit>>
    BY <1>5 DEF MakeBlock, FarRet, Panic, RuntimeError, Throw, Runs
  <2> QED
    BY <2>1, RunsCount
<1>6. CASE Return \/ Catch
  <2>1. /\ stack # <<>> /\ Leave /\ panic' = NoPanic /\ UNCHANGED <<todo, exitStatus, exit>>
    BY <1>6 DEF Return, Catch, Runs, Unwinds
  <2>2. Top.kind # "runTest"
    <3>1. CASE Return
      BY <1>1, <3>1, PopShape DEF Return, Runs, RInv, InProgram, Top
    <3>2. CASE Catch
      BY <3>2 DEF Catch, IsMine, Catches
    <3> QED
      BY <1>6, <3>1, <3>2
  <2>3. CASE Top.kind = "test"
    <3>1. results' = Append(results, "ok") /\ InTest(stack) /\ stack' = <<>>
      BY <1>1, <2>1, <2>3, LeaveTest DEF Leave
    <3> QED
      BY <2>1, <3>1, ResultCount
  <2>4. CASE Top.kind # "test"
    <3>1. stack' = Pop /\ results' = results
      BY <2>1, <2>4 DEF Leave
    <3> QED
      BY <2>1, <2>2, <3>1, PopCount
  <2> QED
    BY <2>3, <2>4
<1>7. CASE Pass
  BY <1>7, PopCount DEF Pass
<1>8. ASSUME stack # <<>>, Top.kind = "runTest", stack' = Pop
      PROVE  InTest(stack) /\ stack' = <<>>
  BY <1>1, <1>8, PopShape, PopInTest
<1>9. CASE TestFails
  <2>1. /\ stack # <<>> /\ Top.kind = "runTest" /\ stack' = Pop /\ panic' = NoPanic
        /\ results' = Append(results, "failed") /\ exitStatus' = 1 /\ UNCHANGED <<todo, exit>>
    BY <1>9 DEF TestFails
  <2> QED
    BY <1>8, <2>1, ResultCount
<1>10. CASE PassTest
  <2>1. /\ stack # <<>> /\ Top.kind = "runTest" /\ stack' = Pop /\ panic # NoPanic
        /\ panic.kind # "val"
        /\ UNCHANGED <<panic, results, exitStatus, todo, exit>>
    BY <1>10 DEF PassTest, Unwinds
  <2> QED
    BY <1>8, <2>1, LostCount
<1>11. CASE MainRecovers \/ MainDies
  <2>1. /\ panic # NoPanic /\ exit' = IF panic.kind = "error" THEN 2 ELSE 0
        /\ UNCHANGED <<stack, panic, todo, results, exitStatus>>
    BY <1>11 DEF MainRecovers, MainDies, Unwinds
  <2> QED
    BY <2>1 DEF SInv, CountInv, StatusInv
<1>12. CASE MainReturns
  <2>1. /\ panic = NoPanic /\ todo = <<>> /\ exit' = exitStatus
        /\ UNCHANGED <<stack, panic, todo, results, exitStatus>>
    BY <1>12 DEF MainReturns
  <2> QED
    BY <2>1 DEF SInv, CountInv, StatusInv
<1>13. CASE UNCHANGED vars
  BY <1>13 DEF SInv, CountInv, StatusInv, vars
<1> QED
  BY <1>3, <1>4, <1>5, <1>6, <1>7, <1>9, <1>10, <1>11, <1>12, <1>13, MainCount DEF Next, Exited

\* Whatever the program, its tests and its blocks do, the lines that runTest has printed and
\* the status tell of all tests, unless the program ends unwinding; and the status tells
\* a run-time error from all other ends.
THEOREM StatusTellsCorrect == Spec => []StatusTells
<1>1. SInv => StatusTells
  <2> SUFFICES ASSUME SInv, exit # Running
               PROVE  /\ Len(results) = Tests <=> panic = NoPanic \/ Tests = 0
                      /\ panic.kind = "val" => results = <<>>
                      /\ exit = 1 <=> panic = NoPanic /\ Failed(results)
                      /\ exit = 2 <=> panic.kind = "error"
    BY DEF StatusTells, Failed
  <2>1. stack = <<>> /\ ~ InTest(stack)
    BY DEF SInv, RInv, InTest
  <2>2. /\ exit = 1 <=> panic = NoPanic /\ Failed(results)
        /\ exit = 2 <=> panic.kind = "error"
    <3>1. exitStatus \in {0, 1} /\ NoPanic.kind = "none"
      BY DEF SInv, RInv, IInv, TypeOK, NoPanic
    <3> QED
      BY <3>1 DEF SInv, StatusInv
  <2>3. /\ Len(results) \in Nat /\ Len(todo) \in Nat /\ Tests \in Nat /\ Len(<<>>) = 0
        /\ panic = NoPanic => todo = <<>>
    BY BoundAssumption DEF SInv, RInv, IInv, TypeOK, StatusInv
  <2>4. Started(todo) \/ Tests = 0
    BY <2>3 DEF SInv, CountInv, Started
  <2>5. CASE Tests = 0
    BY <2>2, <2>3, <2>5 DEF SInv, CountInv
  <2>6. CASE Tests # 0
    <3>1. /\ panic = NoPanic => Len(results) + Len(todo) = Tests
          /\ panic # NoPanic => Len(results) < Tests
          /\ panic.kind = "val" => results = <<>>
      BY <2>1, <2>4, <2>6 DEF SInv, CountInv
    <3> QED
      BY <2>2, <2>3, <2>6, <3>1
  <2> QED
    BY <2>5, <2>6
<1>2. Spec => []SInv
  <2>1. Init => SInv
    BY InitCount, RInit DEF SInv
  <2>2. SInv /\ [Next]_vars => SInv'
    BY StepCount, RStep DEF SInv
  <2> QED
    BY <2>1, <2>2, PTL DEF Spec
<1> QED
  BY <1>1, <1>2, PTL
=============================================================================
