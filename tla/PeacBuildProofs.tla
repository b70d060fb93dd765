-------------------------- MODULE PeacBuildProofs --------------------------
(***************************************************************************)
(* Proofs about PeacBuild, for every program, every order of time stamps   *)
(* and every number of edits and invocations.                              *)
(***************************************************************************)
EXTENDS PeacBuild, TLAPS

Compiling == {"stat", "parse", "check", "create", "flush"}
Linking == {"linkstat", "merge", "gocompile", "golink"}

USE DEF Running, Version, Time

\* What is assumed of the listings.
LEMMA OrderFacts ==
  /\ Order \in Seq(Mods)
  /\ \A m \in Mods : \E i \in 1..Len(Order) : Order[i] = m
  /\ \A i, j \in 1..Len(Order) : Order[i] = Order[j] => i = j
BY OrderAssumption DEF ListsOnce, ListsAll

LEMMA LinkOrderFacts ==
  /\ LinkOrder \in Seq(Mods)
  /\ \A m \in Mods : \E i \in 1..Len(LinkOrder) : LinkOrder[i] = m
BY LinkOrderAssumption DEF ListsAll

LEMMA CurType ==
  ASSUME n \in 1..Len(Order)
  PROVE  Cur \in Mods
BY OrderFacts DEF Cur

\* A module stands in Order once.
LEMMA EarlierInOrder ==
  ASSUME n \in 1..Len(Order), NEW i \in 1..(n - 1)
  PROVE  Order[i] \in Mods \ {Cur}
  <1>1. i \in 1..Len(Order) /\ i # n OBVIOUS
  <1>2. Order[i] \in Mods BY <1>1, OrderFacts
  <1>3. Order[i] # Order[n] BY <1>1, OrderFacts
  <1>4. QED BY <1>2, <1>3 DEF Cur

LEMMA OrderNonEmpty == Len(Order) \in Nat /\ Len(Order) >= 1
BY RootAssumption, OrderFacts

-----------------------------------------------------------------------------
\* The types of the variables, and the position in Order or LinkOrder being
\* valid as long as a module is compiled or object files are merged.
TypeInv ==
  /\ TypeOK
  /\ pc \in Compiling => n \in 1..Len(Order)
  /\ pc \in Linking => n \in 1..(Len(LinkOrder) + 1)

LEMMA AfterModuleType ==
  ASSUME TypeInv, pc \in Compiling, AfterModule
  PROVE  /\ pc' \in {"stat", "linkstat", "ok"}
         /\ n' \in Nat
         /\ pc' = "stat" => n' = n + 1 /\ n' \in 1..Len(Order)
         /\ pc' # "stat" => n' = 1 /\ n = Len(Order)
         /\ pc' = "ok" => opts.mode = "lib"
         /\ opts' = opts
         /\ out' = NoCode
  <1>1. n \in 1..Len(Order) BY DEF TypeInv
  <1>2. QED BY <1>1, OrderNonEmpty DEF AfterModule

LEMMA NoCodeType == NoCode \in [Mods -> Nat]
BY DEF NoCode

LEMMA PutObjType ==
  ASSUME TypeOK, NEW m \in Mods, NEW has \in [Mods -> Nat],
         NEW st \in {"missing", "empty", "ragged", "full"}, PutObj(m, st, has)
  PROVE  obj' \in [Mods -> ObjFile]
BY DEF TypeOK, ObjFile, PutObj

LEMMA TypeStep == TypeInv /\ [Next]_vars => TypeInv'
  <1> SUFFICES ASSUME TypeInv, [Next]_vars
               PROVE  TypeInv'
    OBVIOUS
  <1> USE DEF TypeInv, TypeOK, files
  <1> USE OrderNonEmpty, NoCodeType
  <1>0. Len(LinkOrder) \in Nat BY LinkOrderFacts
  <1>1. CASE UNCHANGED vars BY <1>1 DEF vars
  <1>2. CASE Tick BY <1>2 DEF Tick
  <1>3. ASSUME NEW m \in Mods, NEW f \in Files, Edit(m, f) PROVE TypeInv'
    BY <1>3 DEF Edit
  <1>4. ASSUME NEW m \in Mods, NEW f \in Files, Delete(m, f) PROVE TypeInv'
    BY <1>4 DEF Delete
  <1>5. CASE RemoveStray BY <1>5 DEF RemoveStray
  <1>6. ASSUME NEW force \in BOOLEAN, NEW mode \in Modes, Start(force, mode)
        PROVE  TypeInv'
    <2>1. opts' \in Options BY <1>6, ModesAssumption DEF Start, Options
    <2>2. QED BY <1>6, <2>1 DEF Start, Compiling, Linking
  <1>7. CASE Exited
    <2>1. opts' \in Options BY <1>7 DEF Exited, Options, NoOptions
    <2>2. QED BY <1>7, <2>1 DEF Exited, Compiling, Linking
  <1>8. CASE SkipModule
    BY <1>0, <1>8, AfterModuleType DEF SkipModule, Compiling, Linking
  <1>9. CASE BuildModule BY <1>9 DEF BuildModule, Compiling, Linking
  <1>10. CASE Parse
    <2>1. n \in 1..Len(Order) /\ Cur \in Mods BY <1>10, CurType DEF Parse, Compiling
    <2>2. out' \in [Mods -> Nat] BY <1>10, <2>1 DEF Parse, Die
    <2>3. QED BY <1>10, <2>1, <2>2 DEF Parse, Die, Compiling, Linking
  <1>11. CASE Check
    <2>1. out' \in [Mods -> Nat] BY <1>11 DEF Check, Die
    <2>2. QED BY <1>11, <2>1 DEF Check, Die, Compiling, Linking
  <1>12. CASE CreateObj
    <2>1. n \in 1..Len(Order) /\ Cur \in Mods BY <1>12, CurType DEF CreateObj, Compiling
    <2>2. obj' \in [Mods -> ObjFile] BY <1>12, <2>1, PutObjType DEF CreateObj
    <2>3. QED BY <1>12, <2>1, <2>2 DEF CreateObj, Compiling, Linking
  <1>13. CASE FlushObj
    <2>1. n \in 1..Len(Order) /\ Cur \in Mods BY <1>13, CurType DEF FlushObj, Compiling
    <2>2. obj' \in [Mods -> ObjFile] BY <1>13, <2>1, PutObjType DEF FlushObj
    <2>3. QED BY <1>0, <1>13, <2>2, AfterModuleType DEF FlushObj, Compiling, Linking
  <1>14. CASE FlushFails
    <2>1. n \in 1..Len(Order) /\ Cur \in Mods BY <1>14, CurType DEF FlushFails, Compiling
    <2>2. obj' \in [Mods -> ObjFile] BY <1>14, <2>1, PutObjType DEF FlushFails
    <2>3. QED BY <1>14, <2>2 DEF FlushFails, Die, Compiling, Linking
  <1>15. CASE LinkStat BY <1>15 DEF LinkStat, Compiling, Linking
  <1>16. CASE MergeAdd
    <2>1. n \in 1..Len(LinkOrder) BY <1>0, <1>16 DEF MergeAdd, Linking
    <2>2. LinkOrder[n] \in Mods BY <2>1, LinkOrderFacts
    <2>3. obj[LinkOrder[n]].has \in [Mods -> Nat] BY <2>2 DEF ObjFile
    <2>4. out' \in [Mods -> Nat] BY <1>16, <2>3 DEF MergeAdd, Die
    <2>5. QED BY <1>0, <1>16, <2>1, <2>4 DEF MergeAdd, Die, Compiling, Linking
  <1>17. CASE MergeDone BY <1>0, <1>17 DEF MergeDone, Compiling, Linking
  <1>18. CASE GoCompile BY <1>18 DEF GoCompile, Die, Compiling, Linking
  <1>19. CASE GoLink
    <2>1. bin' \in BinFile
      BY <1>19 DEF GoLink, PutBin, NoBin, BinFile, Options
    <2>2. QED BY <1>19, <2>1 DEF GoLink, Die, Compiling, Linking
  <1>20. CASE Kill
    <2>1. bin' \in BinFile BY <1>20 DEF Kill, PutBin, BinFile, Options
    <2>2. QED BY <1>20, <2>1 DEF Kill, Die, Compiling, Linking
  <1>21. CASE PeacStep
    BY <1>7, <1>8, <1>9, <1>10, <1>11, <1>12, <1>13, <1>14, <1>15, <1>16, <1>17,
       <1>18, <1>19, <1>21 DEF PeacStep
  <1>22. CASE Environment
    BY <1>2, <1>3, <1>4, <1>5, <1>6, <1>20, <1>22 DEF Environment
  <1>23. QED BY <1>1, <1>21, <1>22 DEF Next

LEMMA TypeInit == Init => TypeInv
  <1> SUFFICES ASSUME Init PROVE TypeInv OBVIOUS
  <1>1. NoObj \in ObjFile BY NoCodeType DEF NoObj, ObjFile
  <1>2. NoBin \in BinFile BY NoCodeType DEF NoBin, BinFile
  <1>3. NoOptions \in Options BY DEF NoOptions, Options
  <1>4. stray \in BOOLEAN BY DEF Init
  <1>5. /\ clock \in Nat \ {0} /\ edits \in Nat /\ n \in Nat
        /\ fileTime \in [Mods -> [Files -> Nat]] /\ srcVer \in [Mods -> Nat]
    BY DEF Init
  <1>6. pc = "idle" BY DEF Init
  <1>7. /\ obj \in [Mods -> ObjFile] /\ bin \in BinFile /\ opts \in Options
        /\ out \in [Mods -> Nat]
    BY <1>1, <1>2, <1>3, NoCodeType DEF Init
  <1>8. QED
    BY <1>4, <1>5, <1>6, <1>7 DEF TypeInv, TypeOK, Compiling, Linking

\* Type correctness of the driver and of all files it works on, in every
\* behaviour: crashes, edits at any time and deletions included.
THEOREM TypeCorrect == Spec => []TypeOK
  <1>1. TypeInv => TypeOK BY DEF TypeInv
  <1>2. QED BY <1>1, TypeInit, TypeStep, PTL DEF Spec

-----------------------------------------------------------------------------
(* Skipping is sound when nothing interferes with peac. *)

Quiet == ~ EditsDuringBuild /\ ~ Deletes /\ ~ Crashes

\* The object file is not the one peac is about to fill.
Settled(m) == ~ (pc = "flush" /\ Cur = m)

\* The strengthening of OwnFresh.  Its core is OldObjFresh: an object file that
\* is newer than all its sources is fresh, which is what compile relies on; it
\* is kept by Edit because no object file is from the future.
ObjNotFuture == \A m \in Mods : obj[m].time <= clock
OutCurrent == pc \in {"check", "create", "flush"} => out[Cur] = srcVer[Cur]
OldObjFresh == \A m \in Mods : SrcBefore(m, obj[m].time) /\ Settled(m) => ObjFresh(m)
DoneFresh == pc \in Compiling => \A i \in 1..(n - 1) : ObjFresh(Order[i])
AllObjFresh == pc \in Linking \cup {"ok"} => \A m \in Mods : ObjFresh(m)

OwnInv ==
  /\ TypeInv
  /\ ObjNotFuture
  /\ OutCurrent
  /\ OldObjFresh
  /\ DoneFresh
  /\ AllObjFresh

\* Steps that change neither files nor what the invariant says of peac.
LEMMA OwnKeep ==
  ASSUME OwnInv, TypeInv', UNCHANGED <<clock, fileTime, srcVer, obj>>,
         pc' = "failed" \/ pc' = "idle" \/
           (UNCHANGED <<pc, n, out>>) \/
           (pc \in Linking /\ pc' \in Linking \cup {"ok"}),
         pc # "flush" \/ UNCHANGED <<pc, n>>
  PROVE  OwnInv'
BY DEF OwnInv, ObjNotFuture, OutCurrent, OldObjFresh, DoneFresh, AllObjFresh,
       Settled, SrcBefore, ObjFresh, Cur, Compiling, Linking

\* Going on to the next module once the current one is fresh.
LEMMA OwnAfterModule ==
  ASSUME TypeInv, TypeInv', pc \in Compiling, AfterModule,
         UNCHANGED srcVer,
         \A m \in Mods \ {Cur} : obj'[m] = obj[m],
         DoneFresh, obj'[Cur].st = "full", obj'[Cur].has[Cur] = srcVer[Cur]
  PROVE  OutCurrent' /\ DoneFresh' /\ AllObjFresh' /\ pc' # "flush"
  <1>1. n \in 1..Len(Order) /\ Len(Order) \in Nat BY OrderNonEmpty DEF TypeInv
  <1>2. /\ pc' \in {"stat", "linkstat", "ok"}
        /\ pc' = "stat" => n' = n + 1
        /\ pc' # "stat" => n = Len(Order)
    BY AfterModuleType
  <1> DEFINE Fresh2(m) == obj'[m].st = "full" /\ obj'[m].has[m] = srcVer'[m]
  <1>3. \A i \in 1..n : Fresh2(Order[i])
    <2> SUFFICES ASSUME NEW i \in 1..n PROVE Fresh2(Order[i]) OBVIOUS
    <2>1. CASE Order[i] = Cur BY <2>1
    <2>2. CASE Order[i] # Cur
      <3>1. i \in 1..(n - 1) BY <1>1, <2>2 DEF Cur
      <3>2. Order[i] \in Mods BY <1>1, <3>1, OrderFacts
      <3>3. QED BY <2>2, <3>1, <3>2 DEF DoneFresh, ObjFresh
    <2>3. QED BY <2>1, <2>2
  <1>4. DoneFresh' BY <1>1, <1>2, <1>3 DEF DoneFresh, ObjFresh, Compiling
  <1>5. AllObjFresh'
    <2> SUFFICES ASSUME pc' # "stat", NEW m \in Mods PROVE Fresh2(m)
      BY <1>2 DEF AllObjFresh, ObjFresh, Linking
    <2>1. PICK i \in 1..Len(Order) : Order[i] = m BY OrderFacts
    <2>2. QED BY <1>2, <1>3, <2>1
  <1>6. QED BY <1>2, <1>4, <1>5 DEF OutCurrent

LEMMA OwnStep == Quiet /\ OwnInv /\ [Next]_vars => OwnInv'
  <1> SUFFICES ASSUME Quiet, OwnInv, [Next]_vars
               PROVE  OwnInv'
    OBVIOUS
  <1>0. TypeInv /\ TypeInv' BY TypeStep DEF OwnInv
  <1> USE <1>0 DEF files
  <1>a. TypeOK /\ (pc \in Compiling => n \in 1..Len(Order) /\ Cur \in Mods)
    BY CurType DEF TypeInv
  <1>1. CASE UNCHANGED vars BY <1>1, OwnKeep DEF vars, Linking
  <1>2. CASE Tick
    BY <1>a, <1>2 DEF Tick, OwnInv, TypeOK, ObjFile, ObjNotFuture, OutCurrent,
       OldObjFresh, DoneFresh, AllObjFresh, Settled, SrcBefore, ObjFresh, Cur
  <1>3. ASSUME NEW m \in Mods, NEW f \in Files, Edit(m, f) PROVE OwnInv'
    <2>1. pc = "idle" /\ pc' = "idle" BY <1>3 DEF Edit, Quiet
    <2>2. \A k \in Mods \ {m} : fileTime'[k] = fileTime[k] /\ srcVer'[k] = srcVer[k]
      BY <1>a, <1>3 DEF Edit, TypeOK
    <2>3. fileTime'[m][f] = clock BY <1>a, <1>3 DEF Edit, TypeOK
    <2>4. ObjNotFuture /\ ObjNotFuture' BY <1>3 DEF OwnInv, ObjNotFuture, Edit
    <2>5. ~ SrcBefore(m, obj[m].time)'
      BY <1>a, <1>3, <2>3, <2>4 DEF SrcBefore, ObjNotFuture, Edit, TypeOK, ObjFile
    <2>6. OldObjFresh'
      BY <1>3, <2>1, <2>2, <2>5
      DEF Edit, OldObjFresh, OwnInv, SrcBefore, ObjFresh, Settled
    <2>7. QED
      BY <2>1, <2>4, <2>6
      DEF OwnInv, OutCurrent, DoneFresh, AllObjFresh, Compiling, Linking
  <1>4. ASSUME NEW m \in Mods, NEW f \in Files, Delete(m, f) PROVE OwnInv'
    BY <1>4 DEF Delete, Quiet
  <1>5. CASE RemoveStray BY <1>5, OwnKeep DEF RemoveStray
  <1>6. ASSUME NEW force \in BOOLEAN, NEW mode \in Modes, Start(force, mode)
        PROVE  OwnInv'
    BY <1>6 DEF Start, OwnInv, ObjNotFuture, OutCurrent, OldObjFresh, DoneFresh,
       AllObjFresh, Settled, SrcBefore, ObjFresh, Linking
  <1>7. CASE Exited BY <1>7, OwnKeep DEF Exited
  <1>8. CASE SkipModule
    <2>1. pc = "stat" /\ SrcBefore(Cur, obj[Cur].time) BY <1>8 DEF SkipModule, UpToDate
    <2>2. ObjFresh(Cur) BY <1>a, <2>1 DEF OwnInv, OldObjFresh, Settled, Compiling
    <2>3. OutCurrent' /\ DoneFresh' /\ AllObjFresh' /\ pc' # "flush"
      BY <1>8, <2>1, <2>2, OwnAfterModule DEF SkipModule, ObjFresh, OwnInv, Compiling
    <2>4. QED
      BY <1>8, <2>1, <2>3
      DEF SkipModule, OwnInv, ObjNotFuture, OldObjFresh, Settled, SrcBefore, ObjFresh
  <1>9. CASE BuildModule
    BY <1>9 DEF BuildModule, OwnInv, ObjNotFuture, OutCurrent, OldObjFresh,
       DoneFresh, AllObjFresh, Settled, SrcBefore, ObjFresh, Linking, Compiling
  <1>10. CASE Parse
    <2>1. CASE pc' = "check"
      BY <1>a, <1>10, <2>1 DEF Parse, Die, OwnInv, TypeOK, ObjNotFuture, OutCurrent,
         OldObjFresh, DoneFresh, AllObjFresh, Settled, SrcBefore, ObjFresh, Cur,
         Linking, Compiling
    <2>2. CASE pc' = "failed" BY <1>10, <2>2, OwnKeep DEF Parse
    <2>3. QED BY <1>10, <2>1, <2>2 DEF Parse, Die
  <1>11. CASE Check
    <2>1. CASE pc' = "create"
      BY <1>a, <1>11, <2>1 DEF Check, Die, OwnInv, TypeOK, ObjNotFuture, OutCurrent,
         OldObjFresh, DoneFresh, AllObjFresh, Settled, SrcBefore, ObjFresh, Cur,
         Linking, Compiling
    <2>2. CASE pc' = "failed" BY <1>11, <2>2, OwnKeep DEF Check
    <2>3. QED BY <1>11, <2>1, <2>2 DEF Check, Die
  <1>12. CASE CreateObj
    <2>1. /\ pc = "create" /\ pc' = "flush" /\ n' = n /\ Cur' = Cur
          /\ n \in 1..Len(Order) /\ Cur \in Mods
      BY <1>a, <1>12 DEF CreateObj, Compiling, Cur
    <2>2. \A m \in Mods \ {Cur} : obj'[m] = obj[m]
      BY <1>12, <1>a DEF CreateObj, PutObj, TypeOK
    <2>3. obj'[Cur].time = clock BY <1>12, <1>a, <2>1 DEF CreateObj, PutObj, TypeOK
    <2>4. ObjNotFuture'
      <3>1. clock' = clock /\ clock \in Nat BY <1>12, <1>a DEF CreateObj, TypeOK
      <3>2. QED BY <2>2, <2>3, <3>1 DEF OwnInv, ObjNotFuture
    <2>5. OldObjFresh'
      BY <1>12, <2>1, <2>2 DEF OwnInv, OldObjFresh, Settled, SrcBefore, ObjFresh, CreateObj
    <2>6. \A i \in 1..(n - 1) : Order[i] \in Mods \ {Cur}
      BY <2>1, EarlierInOrder
    <2>7. DoneFresh'
      BY <1>12, <2>1, <2>2, <2>6 DEF OwnInv, DoneFresh, ObjFresh, CreateObj, Compiling
    <2>8. OutCurrent' /\ AllObjFresh'
      BY <1>12, <2>1 DEF OwnInv, OutCurrent, AllObjFresh, CreateObj, Linking
    <2>9. QED BY <2>4, <2>5, <2>7, <2>8 DEF OwnInv
  <1>13. CASE FlushObj
    <2>1. pc = "flush" /\ n \in 1..Len(Order) /\ Cur \in Mods /\ pc \in Compiling
      BY <1>a, <1>13 DEF FlushObj, Compiling
    <2>2. \A m \in Mods \ {Cur} : obj'[m] = obj[m]
      BY <1>13, <1>a DEF FlushObj, PutObj, TypeOK
    <2>3. obj'[Cur] = [time |-> clock, st |-> "full", has |-> out]
      BY <1>13, <1>a, <2>1 DEF FlushObj, PutObj, TypeOK
    <2>4. obj'[Cur].st = "full" /\ obj'[Cur].has[Cur] = srcVer[Cur]
      BY <2>1, <2>3 DEF OwnInv, OutCurrent
    <2>5. OutCurrent' /\ DoneFresh' /\ AllObjFresh' /\ pc' # "flush"
      BY <1>13, <2>1, <2>2, <2>4, OwnAfterModule DEF FlushObj, OwnInv
    <2>6. ObjNotFuture'
      <3>1. clock' = clock /\ clock \in Nat BY <1>13, <1>a DEF FlushObj, TypeOK
      <3>2. QED BY <2>2, <2>3, <3>1 DEF OwnInv, ObjNotFuture
    <2>7. OldObjFresh'
      <3> SUFFICES ASSUME NEW m \in Mods, SrcBefore(m, obj[m].time)'
                   PROVE  ObjFresh(m)'
        BY DEF OldObjFresh
      <3>1. CASE m = Cur BY <1>13, <2>4, <3>1 DEF ObjFresh, FlushObj
      <3>2. CASE m # Cur
        BY <1>13, <2>2, <3>2 DEF OwnInv, OldObjFresh, Settled, SrcBefore, ObjFresh, FlushObj
      <3>3. QED BY <3>1, <3>2
    <2>8. QED BY <2>5, <2>6, <2>7 DEF OwnInv
  <1>14. CASE FlushFails BY <1>14 DEF FlushFails, Quiet
  <1>15. CASE LinkStat BY <1>15, OwnKeep DEF LinkStat, Linking
  <1>16. CASE MergeAdd BY <1>16, OwnKeep DEF MergeAdd, Die, Linking
  <1>17. CASE MergeDone BY <1>17, OwnKeep DEF MergeDone, Linking
  <1>18. CASE GoCompile BY <1>18, OwnKeep DEF GoCompile, Die, Linking
  <1>19. CASE GoLink BY <1>19, OwnKeep DEF GoLink, Die, Linking
  <1>20. CASE Kill BY <1>20 DEF Kill, Quiet
  <1>21. CASE PeacStep
    BY <1>7, <1>8, <1>9, <1>10, <1>11, <1>12, <1>13, <1>14, <1>15, <1>16, <1>17,
       <1>18, <1>19, <1>21 DEF PeacStep
  <1>22. CASE Environment
    BY <1>2, <1>3, <1>4, <1>5, <1>6, <1>20, <1>22 DEF Environment
  <1>23. QED BY <1>1, <1>21, <1>22 DEF Next

\* compile may decide by time stamps alone, as long as the sources stay alone
\* while peac runs and nothing cuts a write short: after every successful
\* invocation each object file is whole and made from the present sources of
\* its module.
THEOREM OwnFreshCorrect ==
  ASSUME Quiet
  PROVE  Spec => []OwnFresh
  <1>1. Init => OwnInv
    <2> SUFFICES ASSUME Init PROVE OwnInv OBVIOUS
    <2>1. TypeInv BY TypeInit
    <2>2. \A m \in Mods : obj[m].time = 0 BY DEF Init, NoObj
    <2>3. QED
      BY <2>1, <2>2 DEF Init, OwnInv, ObjNotFuture, OutCurrent, OldObjFresh, DoneFresh,
         AllObjFresh, SrcBefore, Compiling, Linking
  <1>2. OwnInv => OwnFresh BY DEF OwnInv, AllObjFresh, OwnFresh, Built
  <1>3. OwnInv /\ [Next]_vars => OwnInv' BY OwnStep
  <1>4. QED BY <1>1, <1>2, <1>3, PTL DEF Spec

-----------------------------------------------------------------------------
(* The executable is the merge of the object files. *)

\* v is the code of d in the first of the object files before position k that
\* has any.
FirstWinsBefore(k, d, v) ==
  LET H == {i \in Holders(d) : i < k}
  IN \/ H = {} /\ v = 0
     \/ \E i \in H : (\A j \in H : i <= j) /\ v = obj[LinkOrder[i]].has[d]

\* The strengthening of BinMatchesObjs: an executable newer than all object
\* files is their merge, and so is, as far as it goes, the one being made.
BinNotFuture == bin.time <= clock
NewBinMatches ==
  ObjsBefore(bin.time) => bin.st = "full" /\ \A d \in Mods : FirstWins(d, bin.has[d])
OutEmpty == pc = "linkstat" => out = NoCode /\ n = 1
MergePrefix == pc = "merge" => \A d \in Mods : FirstWinsBefore(n, d, out[d])
MergeWhole == pc \in {"gocompile", "golink"} => \A d \in Mods : FirstWins(d, out[d])

BinInv ==
  /\ TypeInv
  /\ BinNotFuture
  /\ NewBinMatches
  /\ OutEmpty
  /\ MergePrefix
  /\ MergeWhole
  /\ BinMatchesObjs

\* One more object file: the first of the first k that has code of d.
LEMMA FirstWinsAdd ==
  ASSUME TypeOK, NEW k \in 1..Len(LinkOrder), NEW d \in Mods, NEW v \in Nat,
         FirstWinsBefore(k, d, v)
  PROVE  FirstWinsBefore(k + 1, d, IF v # 0 THEN v ELSE obj[LinkOrder[k]].has[d])
  <1> DEFINE H == {i \in Holders(d) : i < k}
             H1 == {i \in Holders(d) : i < k + 1}
             w == obj[LinkOrder[k]].has[d]
  <1>1. H1 \subseteq H \cup {k} /\ H \subseteq H1 /\ H \subseteq Nat /\ k \in Nat
        /\ \A i \in H : i < k
    <2>1. Len(LinkOrder) \in Nat BY LinkOrderFacts
    <2>2. Holders(d) \subseteq 1..Len(LinkOrder) BY DEF Holders
    <2>3. k \in Nat /\ Holders(d) \subseteq Nat BY <2>1, <2>2
    <2>4. QED BY <2>3
  <1>2. k \in Holders(d) <=> w # 0 BY DEF Holders
  <1>3. CASE H = {} /\ v = 0
    <2>1. CASE w = 0
      <3>1. H1 = {} BY <1>1, <1>2, <1>3, <2>1
      <3>2. QED BY <1>3, <2>1, <3>1 DEF FirstWinsBefore
    <2>2. CASE w # 0
      <3>1. H1 = {k} BY <1>1, <1>2, <1>3, <2>2
      <3>2. QED BY <1>1, <1>3, <2>2, <3>1 DEF FirstWinsBefore
    <2>3. QED BY <2>1, <2>2
  <1>4. CASE \E i \in H : (\A j \in H : i <= j) /\ v = obj[LinkOrder[i]].has[d]
    <2>1. PICK i \in H : (\A j \in H : i <= j) /\ v = obj[LinkOrder[i]].has[d]
      BY <1>4
    <2>2. v # 0 BY <2>1 DEF Holders
    <2>3. i \in H1 /\ \A j \in H1 : i <= j BY <1>1, <2>1
    <2>4. QED BY <2>1, <2>2, <2>3 DEF FirstWinsBefore
  <1>5. QED BY <1>3, <1>4 DEF FirstWinsBefore

LEMMA FirstWinsNone ==
  ASSUME NEW d \in Mods
  PROVE  FirstWinsBefore(1, d, 0)
BY LinkOrderFacts DEF FirstWinsBefore, Holders

LEMMA FirstWinsAll ==
  ASSUME NEW k \in Nat, k > Len(LinkOrder), NEW d \in Mods, NEW v,
         FirstWinsBefore(k, d, v)
  PROVE  FirstWins(d, v)
  <1>1. {i \in Holders(d) : i < k} = Holders(d) BY LinkOrderFacts DEF Holders
  <1>2. QED BY <1>1 DEF FirstWinsBefore, FirstWins

\* Steps that leave the object files and the executable alone.
LEMMA BinKeep ==
  ASSUME BinInv, TypeInv', UNCHANGED <<clock, obj, bin>>,
         pc' \in Compiling \cup {"failed", "idle"} \/ UNCHANGED <<pc, n, opts, out>>
  PROVE  BinInv'
BY DEF BinInv, BinNotFuture, NewBinMatches, OutEmpty, MergePrefix, MergeWhole,
       BinMatchesObjs, Linked, Built, ObjsBefore, FirstWins, FirstWinsBefore, Holders,
       Compiling

\* A newly written object file makes the executable out of date.
LEMMA BinOutdated ==
  ASSUME BinInv, TypeInv', clock' = clock, bin' = bin, NEW m \in Mods,
         obj'[m].time = clock,
         pc' # "merge", pc' \notin {"gocompile", "golink"}, OutEmpty', ~ Linked'
  PROVE  BinInv'
  <1>1. ~ ObjsBefore(bin.time)'
    <2>1. clock \in Nat /\ bin.time \in Nat BY DEF BinInv, TypeInv, TypeOK, BinFile
    <2>2. bin.time <= clock BY DEF BinInv, BinNotFuture
    <2>3. ~ (obj'[m].time < bin'.time) BY <2>1, <2>2
    <2>4. QED BY <2>3 DEF ObjsBefore
  <1>2. QED
    BY <1>1 DEF BinInv, BinNotFuture, NewBinMatches, MergePrefix, MergeWhole,
       BinMatchesObjs

LEMMA BinStep == ~ Crashes /\ BinInv /\ [Next]_vars => BinInv'
  <1> SUFFICES ASSUME ~ Crashes, BinInv, [Next]_vars
               PROVE  BinInv'
    OBVIOUS
  <1>0. TypeInv /\ TypeInv' BY TypeStep DEF BinInv
  <1> USE <1>0 DEF files
  <1>a. TypeOK /\ (pc \in Compiling => n \in 1..Len(Order) /\ Cur \in Mods)
    BY CurType DEF TypeInv
  <1>1. CASE UNCHANGED vars BY <1>1, BinKeep DEF vars
  <1>2. CASE Tick
    <2>1. BinNotFuture' BY <1>a, <1>2 DEF Tick, BinInv, BinNotFuture, TypeOK, BinFile
    <2>2. QED
      BY <1>2, <2>1 DEF Tick, BinInv, NewBinMatches, OutEmpty, MergePrefix, MergeWhole,
         BinMatchesObjs, Linked, Built, ObjsBefore, FirstWins, FirstWinsBefore, Holders
  <1>3. ASSUME NEW m \in Mods, NEW f \in Files, Edit(m, f) PROVE BinInv'
    BY <1>3, BinKeep DEF Edit
  <1>4. ASSUME NEW m \in Mods, NEW f \in Files, Delete(m, f) PROVE BinInv'
    BY <1>4, BinKeep DEF Delete
  <1>5. CASE RemoveStray BY <1>5, BinKeep DEF RemoveStray
  <1>6. ASSUME NEW force \in BOOLEAN, NEW mode \in Modes, Start(force, mode)
        PROVE  BinInv'
    BY <1>6, BinKeep DEF Start, Compiling
  <1>7. CASE Exited BY <1>7, BinKeep DEF Exited
  <1>8. CASE SkipModule
    <2>1. /\ pc' \in {"stat", "linkstat", "ok"} /\ out' = NoCode /\ opts' = opts
          /\ pc' # "stat" => n' = 1
          /\ pc' = "ok" => opts.mode = "lib"
      BY <1>8, AfterModuleType DEF SkipModule, Compiling
    <2>2. QED
      BY <1>8, <2>1 DEF SkipModule, BinInv, BinNotFuture, NewBinMatches, OutEmpty,
         MergePrefix, MergeWhole, BinMatchesObjs, Linked, Built, ObjsBefore, FirstWins,
         Holders
  <1>9. CASE BuildModule BY <1>9, BinKeep DEF BuildModule, Compiling
  <1>10. CASE Parse BY <1>10, BinKeep DEF Parse, Die, Compiling
  <1>11. CASE Check BY <1>11, BinKeep DEF Check, Die, Compiling
  <1>12. CASE CreateObj
    <2>1. Cur \in Mods /\ obj'[Cur].time = clock /\ pc' = "flush"
      BY <1>a, <1>12 DEF CreateObj, PutObj, TypeOK, Compiling
    <2>2. QED BY <1>12, <2>1, BinOutdated DEF CreateObj, OutEmpty, Linked, Built
  <1>13. CASE FlushObj
    <2>1. Cur \in Mods /\ obj'[Cur].time = clock
      BY <1>a, <1>13 DEF FlushObj, PutObj, TypeOK, Compiling
    <2>2. /\ pc' \in {"stat", "linkstat", "ok"} /\ out' = NoCode /\ opts' = opts
          /\ pc' # "stat" => n' = 1
          /\ pc' = "ok" => opts.mode = "lib"
      BY <1>13, AfterModuleType DEF FlushObj, Compiling
    <2>3. QED BY <1>13, <2>1, <2>2, BinOutdated DEF FlushObj, OutEmpty, Linked, Built
  <1>14. CASE FlushFails BY <1>14 DEF FlushFails
  <1>15. CASE LinkStat
    <2>1. out = NoCode /\ n = 1 BY <1>15 DEF LinkStat, BinInv, OutEmpty
    <2>2. \A d \in Mods : FirstWinsBefore(n, d, out[d])
      BY <2>1, FirstWinsNone DEF NoCode
    <2>3. pc' = "ok" => ObjsBefore(bin.time) BY <1>15 DEF LinkStat, LinkSkip
    <2>4. pc' \in {"ok", "merge"} BY <1>15 DEF LinkStat
    <2>5. QED
      BY <1>15, <2>2, <2>3, <2>4 DEF LinkStat, BinInv, BinNotFuture, NewBinMatches,
         OutEmpty, MergePrefix, MergeWhole, BinMatchesObjs, Linked, Built, ObjsBefore,
         FirstWins, FirstWinsBefore, Holders
  <1>16. CASE MergeAdd
    <2>1. CASE pc' = "failed" BY <1>16, <2>1, BinKeep DEF MergeAdd
    <2>2. CASE pc' # "failed"
      <3>1. n \in 1..Len(LinkOrder)
        BY <1>16, LinkOrderFacts DEF MergeAdd, TypeInv, Linking
      <3>2. \A d \in Mods : out[d] \in Nat /\ FirstWinsBefore(n, d, out[d])
        BY <1>a, <1>16 DEF MergeAdd, TypeOK, BinInv, MergePrefix
      <3>3. \A d \in Mods :
              FirstWinsBefore(n + 1, d, IF out[d] # 0 THEN out[d] ELSE obj[LinkOrder[n]].has[d])
        BY <1>a, <3>1, <3>2, FirstWinsAdd
      <3>4. /\ pc' = "merge" /\ n' = n + 1
            /\ \A d \in Mods :
                 out'[d] = IF out[d] # 0 THEN out[d] ELSE obj[LinkOrder[n]].has[d]
        BY <1>16, <2>2 DEF MergeAdd, Die
      <3>5. MergePrefix'
        BY <1>16, <3>3, <3>4 DEF MergeAdd, MergePrefix, FirstWinsBefore, Holders
      <3>6. QED
        BY <1>16, <3>4, <3>5 DEF MergeAdd, BinInv, BinNotFuture, NewBinMatches,
           OutEmpty, MergeWhole, BinMatchesObjs, Linked, Built, ObjsBefore, FirstWins,
           Holders
    <2>3. QED BY <2>1, <2>2
  <1>17. CASE MergeDone
    <2>1. \A d \in Mods : FirstWins(d, out[d])
      BY <1>a, <1>17, FirstWinsAll DEF MergeDone, BinInv, MergePrefix, TypeOK
    <2>2. QED
      BY <1>17, <2>1 DEF MergeDone, BinInv, BinNotFuture, NewBinMatches, OutEmpty,
         MergePrefix, MergeWhole, BinMatchesObjs, Linked, Built, ObjsBefore, FirstWins,
         Holders
  <1>18. CASE GoCompile
    <2>1. CASE pc' = "failed" BY <1>18, <2>1, BinKeep DEF GoCompile
    <2>2. CASE pc' = "golink"
      BY <1>18, <2>2 DEF GoCompile, Die, BinInv, BinNotFuture, NewBinMatches, OutEmpty,
         MergePrefix, MergeWhole, BinMatchesObjs, Linked, Built, ObjsBefore, FirstWins,
         Holders
    <2>3. QED BY <1>18, <2>1, <2>2 DEF GoCompile, Die
  <1>19. CASE GoLink
    <2>1. CASE bin' = PutBin("full", out) /\ pc' = "ok"
      <3>1. bin'.st = "full" /\ bin'.has = out /\ bin'.time = clock
        BY <2>1 DEF PutBin
      <3>2. \A d \in Mods : FirstWins(d, out[d])
        BY <1>19 DEF GoLink, BinInv, MergeWhole
      <3>3. \A d \in Mods : FirstWins(d, bin.has[d])'
        BY <1>19, <3>1, <3>2 DEF GoLink, FirstWins, Holders
      <3>4. BinNotFuture' BY <1>a, <1>19, <3>1 DEF GoLink, BinNotFuture, TypeOK
      <3>5. QED
        BY <2>1, <3>1, <3>3, <3>4 DEF BinInv, NewBinMatches, OutEmpty, MergePrefix,
           MergeWhole, BinMatchesObjs
    <2>2. CASE pc' = "failed" /\ bin' = NoBin
      <3>1. bin'.time = 0 BY <2>2 DEF NoBin
      <3>2. BinNotFuture' BY <1>a, <1>19, <3>1 DEF GoLink, BinNotFuture, TypeOK
      <3>3. NewBinMatches' BY <3>1 DEF NewBinMatches, ObjsBefore
      <3>4. QED
        BY <2>2, <3>2, <3>3 DEF BinInv, OutEmpty, MergePrefix, MergeWhole,
           BinMatchesObjs, Linked, Built
    <2>3. CASE pc' = "failed" /\ bin' = bin BY <1>19, <2>3, BinKeep DEF GoLink
    <2>4. QED BY <1>19, <2>1, <2>2, <2>3 DEF GoLink, Die
  <1>20. CASE Kill BY <1>20 DEF Kill
  <1>21. CASE PeacStep
    BY <1>7, <1>8, <1>9, <1>10, <1>11, <1>12, <1>13, <1>14, <1>15, <1>16, <1>17,
       <1>18, <1>19, <1>21 DEF PeacStep
  <1>22. CASE Environment
    BY <1>2, <1>3, <1>4, <1>5, <1>6, <1>20, <1>22 DEF Environment
  <1>23. QED BY <1>1, <1>21, <1>22 DEF Next

\* link may decide by time stamps alone, whatever happens to the sources and
\* whenever, as long as no write is cut short: after every successful link the
\* executable holds, for each module, the code of the first object file in link
\* order that has code of that module.
THEOREM BinMatchesObjsCorrect ==
  ASSUME ~ Crashes
  PROVE  Spec => []BinMatchesObjs
  <1>1. Init => BinInv
    <2> SUFFICES ASSUME Init PROVE BinInv OBVIOUS
    <2>1. TypeInv BY TypeInit
    <2>2. bin.time = 0 /\ clock = 1 /\ pc = "idle" BY DEF Init, NoBin
    <2>3. QED
      BY <2>1, <2>2 DEF BinInv, BinNotFuture, NewBinMatches, OutEmpty, MergePrefix,
         MergeWhole, BinMatchesObjs, Linked, Built, ObjsBefore
  <1>2. BinInv => BinMatchesObjs BY DEF BinInv
  <1>3. BinInv /\ [Next]_vars => BinInv' BY BinStep
  <1>4. QED BY <1>1, <1>2, <1>3, PTL DEF Spec

-----------------------------------------------------------------------------
(* A forced build recovers from everything, crashes included. *)

\* An object file is whole and all code in it, copies included, is current.
Current(m) ==
  /\ obj[m].st = "full"
  /\ \A d \in Mods : obj[m].has[d] = IF d \in Copies[m] THEN srcVer[d] ELSE 0

SrcPositive == \A m \in Mods : srcVer[m] > 0

OutExact ==
  /\ pc \in {"stat", "parse", "linkstat"} => out = NoCode
  /\ pc = "check" =>
       \A d \in Mods : out[d] = IF d = Cur THEN srcVer[d] ELSE 0
  /\ pc \in {"create", "flush"} =>
       \A d \in Mods : out[d] = IF d \in Copies[Cur] THEN srcVer[d] ELSE 0
DoneCurrent == opts.force /\ pc \in Compiling => \A i \in 1..(n - 1) : Current(Order[i])
AllCurrent == opts.force /\ pc \in Linking => \A m \in Mods : Current(m)
MergedCurrent ==
  /\ pc = "linkstat" => n = 1
  /\ opts.force /\ pc = "merge" =>
       /\ \A d \in Mods : out[d] \in {0, srcVer[d]}
       /\ \A i \in 1..(n - 1) : out[LinkOrder[i]] = srcVer[LinkOrder[i]]
  /\ opts.force /\ pc \in {"gocompile", "golink"} => out = srcVer

\* The strengthening of ForcedFresh.
ForcedInv ==
  /\ TypeInv
  /\ SrcPositive
  /\ OutExact
  /\ DoneCurrent
  /\ AllCurrent
  /\ MergedCurrent
  /\ ForcedFresh

LEMMA ForcedEnd ==
  ASSUME ForcedInv, TypeInv', pc' \in {"failed", "idle"}, SrcPositive'
  PROVE  ForcedInv'
BY DEF ForcedInv, OutExact, DoneCurrent, AllCurrent, MergedCurrent, ForcedFresh,
       Linked, Built, Compiling, Linking

LEMMA ForcedKeep ==
  ASSUME ForcedInv, TypeInv', UNCHANGED <<srcVer, obj, bin, pc, n, opts, out>>
  PROVE  ForcedInv'
BY DEF ForcedInv, SrcPositive, OutExact, DoneCurrent, AllCurrent, MergedCurrent,
       ForcedFresh, Linked, Built, Current, Cur

\* Going on to the next module once the current one is current.
LEMMA ForcedAfterModule ==
  ASSUME ForcedInv, TypeInv', pc \in Compiling, AfterModule,
         UNCHANGED srcVer,
         \A m \in Mods \ {Cur} : obj'[m] = obj[m],
         opts.force => /\ obj'[Cur].st = "full"
                       /\ \A d \in Mods :
                            obj'[Cur].has[d] = IF d \in Copies[Cur] THEN srcVer[d] ELSE 0
  PROVE  ForcedInv'
  <1>0. TypeInv BY DEF ForcedInv
  <1>1. n \in 1..Len(Order) /\ Len(Order) \in Nat BY <1>0, OrderNonEmpty DEF TypeInv
  <1>2. /\ pc' \in {"stat", "linkstat", "ok"} /\ out' = NoCode /\ opts' = opts
        /\ pc' = "stat" => n' = n + 1
        /\ pc' # "stat" => n' = 1 /\ n = Len(Order)
        /\ pc' = "ok" => opts.mode = "lib"
    BY <1>0, AfterModuleType
  <1>3. opts.force => \A i \in 1..n : Current(Order[i])'
    <2> SUFFICES ASSUME opts.force, NEW i \in 1..n PROVE Current(Order[i])' OBVIOUS
    <2>1. CASE Order[i] = Cur BY <2>1 DEF Current
    <2>2. CASE Order[i] # Cur
      <3>1. i \in 1..(n - 1) BY <1>1, <2>2 DEF Cur
      <3>2. Order[i] \in Mods BY <1>1, <3>1, OrderFacts
      <3>3. QED BY <2>2, <3>1, <3>2 DEF ForcedInv, DoneCurrent, Current
    <2>3. QED BY <2>1, <2>2
  <1>4. DoneCurrent' BY <1>1, <1>2, <1>3 DEF DoneCurrent, Compiling
  <1>5. AllCurrent'
    <2> SUFFICES ASSUME opts.force, pc' # "stat", NEW m \in Mods PROVE Current(m)'
      BY <1>2 DEF AllCurrent, Linking
    <2>1. PICK i \in 1..Len(Order) : Order[i] = m BY OrderFacts
    <2>2. i \in 1..n BY <1>2
    <2>3. Current(Order[i])' BY <1>3, <2>2
    <2>4. QED BY <2>1, <2>3
  <1>6. SrcPositive' BY DEF ForcedInv, SrcPositive
  <1>7. OutExact' /\ MergedCurrent' /\ ForcedFresh'
    BY <1>2 DEF OutExact, MergedCurrent, ForcedFresh, Linked, Built
  <1>8. QED BY <1>4, <1>5, <1>6, <1>7 DEF ForcedInv

LEMMA ForcedStep == ~ EditsDuringBuild /\ ForcedInv /\ [Next]_vars => ForcedInv'
  <1> SUFFICES ASSUME ~ EditsDuringBuild, ForcedInv, [Next]_vars
               PROVE  ForcedInv'
    OBVIOUS
  <1>0. TypeInv /\ TypeInv' BY TypeStep DEF ForcedInv
  <1> USE <1>0 DEF files
  <1>a. TypeOK /\ (pc \in Compiling => n \in 1..Len(Order) /\ Cur \in Mods)
    BY CurType DEF TypeInv
  <1>b. UNCHANGED srcVer => SrcPositive' BY DEF ForcedInv, SrcPositive
  <1>1. CASE UNCHANGED vars BY <1>1, ForcedKeep DEF vars
  <1>2. CASE Tick BY <1>2, ForcedKeep DEF Tick
  <1>3. ASSUME NEW m \in Mods, NEW f \in Files, Edit(m, f) PROVE ForcedInv'
    <2>1. pc' = "idle" BY <1>3 DEF Edit
    <2>2. SrcPositive' BY <1>a, <1>3 DEF Edit, TypeOK, ForcedInv, SrcPositive
    <2>3. QED BY <2>1, <2>2, ForcedEnd
  <1>4. ASSUME NEW m \in Mods, NEW f \in Files, Delete(m, f) PROVE ForcedInv'
    <2>1. pc' = "idle" BY <1>4 DEF Delete
    <2>2. SrcPositive' BY <1>a, <1>4 DEF Delete, TypeOK, ForcedInv, SrcPositive
    <2>3. QED BY <2>1, <2>2, ForcedEnd
  <1>5. CASE RemoveStray BY <1>5, ForcedKeep DEF RemoveStray
  <1>6. ASSUME NEW force \in BOOLEAN, NEW mode \in Modes, Start(force, mode)
        PROVE  ForcedInv'
    BY <1>b, <1>6 DEF Start, ForcedInv, OutExact, DoneCurrent, AllCurrent,
       MergedCurrent, ForcedFresh, Linked, Built, Linking
  <1>7. CASE Exited BY <1>b, <1>7, ForcedEnd DEF Exited
  <1>8. CASE SkipModule
    BY <1>8, ForcedAfterModule DEF SkipModule, UpToDate, Compiling
  <1>9. CASE BuildModule
    BY <1>b, <1>9 DEF BuildModule, ForcedInv, OutExact, DoneCurrent, AllCurrent,
       MergedCurrent, ForcedFresh, Linked, Built, Current, Linking, Compiling
  <1>10. CASE Parse
    <2>1. CASE pc' = "check"
      <3>1. \A d \in Mods : out'[d] = IF d = Cur THEN srcVer[d] ELSE 0
        BY <1>a, <1>10, <2>1 DEF Parse, Die, ForcedInv, OutExact, NoCode
      <3>2. QED
        BY <1>b, <1>10, <2>1, <3>1 DEF Parse, Die, ForcedInv, OutExact, DoneCurrent,
           AllCurrent, MergedCurrent, ForcedFresh, Linked, Built, Current, Cur, Linking,
           Compiling
    <2>2. CASE pc' = "failed" BY <1>b, <1>10, <2>2, ForcedEnd DEF Parse
    <2>3. QED BY <1>10, <2>1, <2>2 DEF Parse, Die
  <1>11. CASE Check
    <2>1. CASE pc' = "create"
      <3>1. \A d \in Mods : out'[d] = IF d \in Copies[Cur] THEN srcVer[d] ELSE 0
        BY <1>a, <1>11, <2>1, CopiesAssumption
        DEF Check, Die, ForcedInv, OutExact, Compiling
      <3>2. QED
        BY <1>b, <1>11, <2>1, <3>1 DEF Check, Die, ForcedInv, OutExact, DoneCurrent,
           AllCurrent, MergedCurrent, ForcedFresh, Linked, Built, Current, Cur, Linking,
           Compiling
    <2>2. CASE pc' = "failed" BY <1>b, <1>11, <2>2, ForcedEnd DEF Check
    <2>3. QED BY <1>11, <2>1, <2>2 DEF Check, Die
  <1>12. CASE CreateObj
    <2>1. /\ pc = "create" /\ pc' = "flush" /\ n' = n /\ Cur' = Cur
          /\ n \in 1..Len(Order) /\ Cur \in Mods
      BY <1>a, <1>12 DEF CreateObj, Compiling, Cur
    <2>2. \A m \in Mods \ {Cur} : obj'[m] = obj[m]
      BY <1>12, <1>a DEF CreateObj, PutObj, TypeOK
    <2>3. \A i \in 1..(n - 1) : Order[i] \in Mods \ {Cur}
      BY <2>1, EarlierInOrder
    <2>4. DoneCurrent'
      BY <1>12, <2>1, <2>2, <2>3 DEF ForcedInv, DoneCurrent, Current, CreateObj, Compiling
    <2>5. OutExact' BY <1>12, <2>1 DEF ForcedInv, OutExact, CreateObj
    <2>6. QED
      BY <1>b, <1>12, <2>1, <2>4, <2>5 DEF CreateObj, ForcedInv, AllCurrent,
         MergedCurrent, ForcedFresh, Linked, Built, Linking
  <1>13. CASE FlushObj
    <2>1. pc \in Compiling /\ Cur \in Mods BY <1>a, <1>13 DEF FlushObj, Compiling
    <2>2. \A m \in Mods \ {Cur} : obj'[m] = obj[m]
      BY <1>13, <1>a DEF FlushObj, PutObj, TypeOK
    <2>3. obj'[Cur].st = "full" /\ obj'[Cur].has = out
      BY <1>13, <1>a, <2>1 DEF FlushObj, PutObj, TypeOK
    <2>4. \A d \in Mods : out[d] = IF d \in Copies[Cur] THEN srcVer[d] ELSE 0
      BY <1>13 DEF FlushObj, ForcedInv, OutExact
    <2>5. QED BY <1>13, <2>1, <2>2, <2>3, <2>4, ForcedAfterModule DEF FlushObj
  <1>14. CASE FlushFails BY <1>b, <1>14, ForcedEnd DEF FlushFails, Die
  <1>15. CASE LinkStat
    <2>1. opts.force => pc' = "merge" BY <1>15 DEF LinkStat, LinkSkip
    <2>2. out = NoCode /\ n = 1 /\ pc' \in {"ok", "merge"}
      BY <1>15 DEF LinkStat, ForcedInv, OutExact, MergedCurrent
    <2>3. MergedCurrent' BY <1>15, <2>2 DEF LinkStat, MergedCurrent, NoCode
    <2>4. QED
      BY <1>b, <1>15, <2>1, <2>2, <2>3 DEF LinkStat, ForcedInv, OutExact, DoneCurrent,
         AllCurrent, ForcedFresh, Linked, Built, Current, Linking, Compiling
  <1>16. CASE MergeAdd
    <2>1. CASE pc' = "failed" BY <1>b, <1>16, <2>1, ForcedEnd DEF MergeAdd
    <2>2. CASE pc' # "failed"
      <3>1. n \in 1..Len(LinkOrder) /\ LinkOrder[n] \in Mods
        BY <1>16, LinkOrderFacts DEF MergeAdd, TypeInv, Linking
      <3>2. /\ pc = "merge" /\ pc' = "merge" /\ n' = n + 1 /\ opts' = opts
            /\ \A d \in Mods :
                 out'[d] = IF out[d] # 0 THEN out[d] ELSE obj[LinkOrder[n]].has[d]
        BY <1>16, <2>2 DEF MergeAdd, Die
      <3>3. ASSUME opts.force
            PROVE  /\ \A d \in Mods : out'[d] \in {0, srcVer[d]}
                   /\ \A i \in 1..n : out'[LinkOrder[i]] = srcVer[LinkOrder[i]]
        <4>1. Current(LinkOrder[n])
          BY <3>1, <3>2, <3>3 DEF ForcedInv, AllCurrent, Linking
        <4>2. \A d \in Mods : obj[LinkOrder[n]].has[d] \in {0, srcVer[d]}
          BY <4>1 DEF Current
        <4>3. obj[LinkOrder[n]].has[LinkOrder[n]] = srcVer[LinkOrder[n]]
          BY <3>1, <4>1, CopiesAssumption DEF Current
        <4>4. /\ \A d \in Mods : out[d] \in {0, srcVer[d]} /\ srcVer[d] # 0
              /\ \A i \in 1..(n - 1) : out[LinkOrder[i]] = srcVer[LinkOrder[i]]
          BY <1>a, <3>2, <3>3 DEF ForcedInv, MergedCurrent, SrcPositive, TypeOK
        <4>5. \A d \in Mods : out'[d] \in {0, srcVer[d]} BY <3>2, <4>2, <4>4
        <4>6. ASSUME NEW i \in 1..n PROVE out'[LinkOrder[i]] = srcVer[LinkOrder[i]]
          <5>1. LinkOrder[i] \in Mods BY <3>1, LinkOrderFacts
          <5>2. CASE i = n BY <3>1, <3>2, <4>3, <4>4, <5>2
          <5>3. CASE i # n
            <6>1. i \in 1..(n - 1) BY <3>1, <5>3
            <6>2. QED BY <3>2, <4>4, <5>1, <6>1
          <5>4. QED BY <5>2, <5>3
        <4>7. QED BY <4>5, <4>6
      <3>4. MergedCurrent'
        <4>1. n \in Nat /\ n' - 1 = n BY <3>1, <3>2, LinkOrderFacts
        <4>2. srcVer' = srcVer BY <1>16 DEF MergeAdd
        <4>3. QED BY <3>2, <3>3, <4>1, <4>2 DEF MergedCurrent
      <3>5. QED
        BY <1>b, <1>16, <3>2, <3>4 DEF MergeAdd, ForcedInv, OutExact, DoneCurrent,
           AllCurrent, ForcedFresh, Linked, Built, Current, Linking, Compiling
    <2>3. QED BY <2>1, <2>2
  <1>17. CASE MergeDone
    <2>1. opts.force => out = srcVer
      <3> SUFFICES ASSUME opts.force, NEW d \in Mods PROVE out[d] = srcVer[d]
        BY <1>a DEF TypeOK
      <3>1. PICK i \in 1..Len(LinkOrder) : LinkOrder[i] = d BY LinkOrderFacts
      <3>2. i \in 1..(n - 1) BY <1>a, <1>17, LinkOrderFacts DEF MergeDone, TypeOK
      <3>3. QED BY <1>17, <3>1, <3>2 DEF MergeDone, ForcedInv, MergedCurrent
    <2>2. QED
      BY <1>b, <1>17, <2>1 DEF MergeDone, ForcedInv, OutExact, DoneCurrent, AllCurrent,
         MergedCurrent, ForcedFresh, Linked, Built, Current, Linking, Compiling
  <1>18. CASE GoCompile
    <2>1. CASE pc' = "failed" BY <1>b, <1>18, <2>1, ForcedEnd DEF GoCompile
    <2>2. CASE pc' = "golink"
      BY <1>b, <1>18, <2>2 DEF GoCompile, Die, ForcedInv, OutExact, DoneCurrent,
         AllCurrent, MergedCurrent, ForcedFresh, Linked, Built, Current, Linking,
         Compiling
    <2>3. QED BY <1>18, <2>1, <2>2 DEF GoCompile, Die
  <1>19. CASE GoLink
    <2>1. CASE bin' = PutBin("full", out) /\ pc' = "ok" /\ opts' = opts
      <3>1. bin'.st = "full" /\ bin'.has = out /\ bin'.mode = opts.mode
        BY <2>1 DEF PutBin
      <3>2. opts.force => out = srcVer BY <1>19 DEF GoLink, ForcedInv, MergedCurrent
      <3>3. ForcedFresh' BY <1>19, <2>1, <3>1, <3>2 DEF GoLink, ForcedFresh
      <3>4. QED
        BY <1>b, <1>19, <2>1, <3>3 DEF GoLink, ForcedInv, OutExact, DoneCurrent,
           AllCurrent, MergedCurrent, Linking, Compiling
    <2>2. CASE pc' = "failed" BY <1>b, <1>19, <2>2, ForcedEnd DEF GoLink
    <2>3. QED BY <1>19, <2>1, <2>2 DEF GoLink, Die
  <1>20. CASE Kill BY <1>b, <1>20, ForcedEnd DEF Kill, Die
  <1>21. CASE PeacStep
    BY <1>7, <1>8, <1>9, <1>10, <1>11, <1>12, <1>13, <1>14, <1>15, <1>16, <1>17,
       <1>18, <1>19, <1>21 DEF PeacStep
  <1>22. CASE Environment
    BY <1>2, <1>3, <1>4, <1>5, <1>6, <1>20, <1>22 DEF Environment
  <1>23. QED BY <1>1, <1>21, <1>22 DEF Next

\* -force is the way out of every state the object files can be in: whatever
\* crashes, failed writes and deletions came before, and whatever stale copies
\* other object files hold, a forced build that succeeds leaves an executable
\* of the kind asked for with nothing but current code, if the sources were
\* left alone while it ran.
THEOREM ForcedFreshCorrect ==
  ASSUME ~ EditsDuringBuild
  PROVE  Spec => []ForcedFresh
  <1>1. Init => ForcedInv
    <2> SUFFICES ASSUME Init PROVE ForcedInv OBVIOUS
    <2>1. TypeInv BY TypeInit
    <2>2. SrcPositive BY DEF Init, SrcPositive
    <2>3. pc = "idle" BY DEF Init
    <2>4. QED
      BY <2>1, <2>2, <2>3 DEF ForcedInv, OutExact, DoneCurrent, AllCurrent,
         MergedCurrent, ForcedFresh, Linked, Built, Compiling, Linking
  <1>2. ForcedInv => ForcedFresh BY DEF ForcedInv
  <1>3. ForcedInv /\ [Next]_vars => ForcedInv' BY ForcedStep
  <1>4. QED BY <1>1, <1>2, <1>3, PTL DEF Spec

-----------------------------------------------------------------------------
(* Nothing is compiled needlessly, whatever happens to peac and the sources. *)

\* Every version is that of an edit that was made, and no time stamp is from the
\* future, so that an edit makes an object file stale and a build makes it newer.
VersionsMade ==
  \A d \in Mods : /\ srcVer[d] <= edits /\ out[d] <= edits
                  /\ \A m \in Mods : obj[m].has[d] <= edits
TimesPast ==
  \A m \in Mods : obj[m].time <= clock /\ \A f \in Files : fileTime[m][f] <= clock
FreshIsNewer ==
  \A m \in Mods : ObjFresh(m) =>
    0 < obj[m].time /\ \A f \in Files : fileTime[m][f] <= obj[m].time
\* What made compile build a module is still so when its object file is created.
BuildNeeded ==
  pc \in {"parse", "check", "create"} => opts.force \/ ~ SrcBefore(Cur, obj[Cur].time)

NeedInv == TypeInv /\ VersionsMade /\ TimesPast /\ FreshIsNewer /\ BuildNeeded

\* Steps that leave sources and object files alone.
LEMMA NeedKeep ==
  ASSUME NeedInv, TypeInv', UNCHANGED <<clock, fileTime, srcVer, edits, obj>>,
         \A d \in Mods : out'[d] <= edits,
         pc' \in {"parse", "check", "create"} => BuildNeeded'
  PROVE  NeedInv'
BY DEF NeedInv, VersionsMade, TimesPast, FreshIsNewer, BuildNeeded, ObjFresh

\* An object file is written, with what has been read.
LEMMA NeedPut ==
  ASSUME NeedInv, TypeInv', n \in 1..Len(Order), NEW st, NEW has \in [Mods -> Nat],
         PutObj(Cur, st, has), \A d \in Mods : has[d] <= edits,
         UNCHANGED <<clock, fileTime, srcVer, edits>>,
         \A d \in Mods : out'[d] <= edits,
         pc' \notin {"parse", "check", "create"}
  PROVE  NeedInv'
  <1> USE DEF NeedInv
  <1>1. Cur \in Mods BY CurType
  <1>2. /\ clock \in Nat \ {0} /\ edits \in Nat /\ obj \in [Mods -> ObjFile]
        /\ fileTime \in [Mods -> [Files -> Nat]]
    BY DEF TypeInv, TypeOK
  <1>3. /\ obj'[Cur] = [time |-> clock, st |-> st, has |-> has]
        /\ \A m \in Mods : m # Cur => obj'[m] = obj[m]
    BY <1>1, <1>2 DEF PutObj
  <1>4. obj'[Cur].time = clock /\ obj'[Cur].has = has BY <1>3
  <1>5. VersionsMade'
    BY <1>3, <1>4 DEF VersionsMade
  <1>6. TimesPast'
    <2>1. ASSUME NEW m \in Mods PROVE obj'[m].time <= clock
      <3>1. CASE m = Cur BY <3>1, <1>2, <1>4
      <3>2. CASE m # Cur BY <3>2, <1>3 DEF TimesPast
      <3>3. QED BY <3>1, <3>2
    <2>2. QED BY <2>1 DEF TimesPast
  <1>7. FreshIsNewer'
    <2> SUFFICES ASSUME NEW m \in Mods, ObjFresh(m)'
                 PROVE  0 < obj'[m].time /\ \A f \in Files : fileTime[m][f] <= obj'[m].time
      BY DEF FreshIsNewer
    <2>1. CASE m = Cur BY <2>1, <1>2, <1>4 DEF TimesPast
    <2>2. CASE m # Cur BY <2>2, <1>3 DEF FreshIsNewer, ObjFresh
    <2>3. QED BY <2>1, <2>2
  <1>8. QED BY <1>5, <1>6, <1>7 DEF BuildNeeded

\* A source file is written or deleted: its module has a version never seen.
LEMMA NeedChange ==
  ASSUME NeedInv, TypeInv', NEW m \in Mods, NEW f \in Files, Edit(m, f) \/ Delete(m, f)
  PROVE  NeedInv'
  <1> USE DEF NeedInv
  <1>1. /\ clock \in Nat \ {0} /\ edits \in Nat /\ obj \in [Mods -> ObjFile]
        /\ fileTime \in [Mods -> [Files -> Nat]] /\ srcVer \in [Mods -> Nat]
        /\ out \in [Mods -> Nat]
    BY DEF TypeInv, TypeOK
  <1>2. /\ edits' = edits + 1 /\ srcVer'[m] = edits + 1
        /\ \A d \in Mods : d # m => srcVer'[d] = srcVer[d] /\ fileTime'[d] = fileTime[d]
        /\ UNCHANGED <<clock, obj, pc, n, opts, out>>
    BY <1>1 DEF Edit, Delete
  <1>3. \A g \in Files : \/ fileTime'[m][g] = fileTime[m][g]
                         \/ g = f /\ (fileTime'[m][g] = clock \/ (fileTime'[m][g] = 0 /\ pc = "idle"))
    BY <1>1 DEF Edit, Delete
  <1>4. VersionsMade'
    <2>1. \A d \in Mods : srcVer'[d] \in Nat /\ srcVer'[d] <= edits + 1
      BY <1>1, <1>2 DEF VersionsMade
    <2>2. \A d \in Mods, c \in Mods : obj[c].has[d] \in Nat
      BY <1>1 DEF ObjFile
    <2>3. QED BY <1>1, <1>2, <2>1, <2>2 DEF VersionsMade
  <1>5. TimesPast'
    <2>1. \A g \in Files : fileTime'[m][g] <= clock BY <1>1, <1>3 DEF TimesPast
    <2>2. QED BY <1>2, <2>1 DEF TimesPast
  <1>6. FreshIsNewer'
    <2>1. obj[m].has[m] \in Nat /\ obj[m].has[m] <= edits
      BY <1>1 DEF ObjFile, VersionsMade
    <2>2. ~ ObjFresh(m)' BY <1>1, <1>2, <2>1 DEF ObjFresh
    <2>3. \A d \in Mods : d # m => (ObjFresh(d)' <=> ObjFresh(d))
      BY <1>2 DEF ObjFresh
    <2>4. QED BY <1>2, <2>2, <2>3 DEF FreshIsNewer
  <1>7. BuildNeeded'
    <2> SUFFICES ASSUME pc \in {"parse", "check", "create"}, ~ opts.force
                 PROVE  ~ SrcBefore(Cur, obj[Cur].time)'
      BY <1>2 DEF BuildNeeded, Cur
    <2>1. ~ SrcBefore(Cur, obj[Cur].time) BY DEF BuildNeeded
    <2>2. n \in 1..Len(Order) /\ Cur \in Mods BY CurType DEF TypeInv, Compiling
    <2>3. obj[Cur].time \in Nat /\ obj[Cur].time <= clock
      BY <1>1, <2>2 DEF ObjFile, TimesPast
    <2>4. Cur' = Cur BY <1>2 DEF Cur
    <2>5. CASE obj[Cur].time = 0 BY <1>2, <2>4, <2>5 DEF SrcBefore
    <2>6. CASE obj[Cur].time # 0
      <3>1. PICK g \in Files : ~ fileTime[Cur][g] < obj[Cur].time
        BY <2>1, <2>3, <2>6 DEF SrcBefore
      <3>2. ~ fileTime'[Cur][g] < obj[Cur].time
        <4>1. CASE Cur # m BY <4>1, <1>2, <2>2, <3>1
        <4>2. CASE Cur = m
          <5>1. fileTime'[m][g] = fileTime[m][g] \/ fileTime'[m][g] = clock BY <1>3
          <5>2. QED BY <4>2, <5>1, <1>1, <2>3, <3>1
        <4>3. QED BY <4>1, <4>2
      <3>3. QED BY <1>2, <2>4, <3>2 DEF SrcBefore
    <2>7. QED BY <2>5, <2>6
  <1>8. QED BY <1>4, <1>5, <1>6, <1>7

LEMMA NeedStep == NeedInv /\ [Next]_vars => NeedInv'
  <1> SUFFICES ASSUME NeedInv, [Next]_vars
               PROVE  NeedInv'
    OBVIOUS
  <1>a. TypeInv' BY TypeStep DEF NeedInv
  <1>b. /\ TypeInv /\ edits \in Nat /\ clock \in Nat \ {0} /\ out \in [Mods -> Nat]
        /\ \A d \in Mods : out[d] <= edits /\ srcVer[d] <= edits
    BY DEF NeedInv, TypeInv, TypeOK, VersionsMade
  <1>c. \A d \in Mods : NoCode[d] = 0 /\ NoCode[d] <= edits BY <1>b DEF NoCode
  <1> USE DEF files
  <1>1. CASE UNCHANGED vars
    BY <1>a, <1>b, <1>1, NeedKeep DEF vars, NeedInv, BuildNeeded, Cur, SrcBefore
  <1>2. CASE Tick
    <2>1. /\ clock' = clock + 1
          /\ UNCHANGED <<fileTime, srcVer, edits, obj, pc, n, opts, out>>
      BY <1>2 DEF Tick
    <2>2. /\ \A m \in Mods : obj[m].time \in Nat
          /\ \A m \in Mods, f \in Files : fileTime[m][f] \in Nat
      BY <1>b DEF TypeInv, TypeOK, ObjFile
    <2>3. TimesPast' BY <1>b, <2>1, <2>2 DEF NeedInv, TimesPast
    <2>4. QED
      BY <1>a, <2>1, <2>3 DEF NeedInv, VersionsMade, FreshIsNewer, BuildNeeded, ObjFresh,
         SrcBefore, Cur
  <1>3. ASSUME NEW m \in Mods, NEW f \in Files, Edit(m, f) PROVE NeedInv'
    BY <1>a, <1>3, NeedChange
  <1>4. ASSUME NEW m \in Mods, NEW f \in Files, Delete(m, f) PROVE NeedInv'
    BY <1>a, <1>4, NeedChange
  <1>5. CASE RemoveStray
    BY <1>a, <1>b, <1>5, NeedKeep DEF RemoveStray
  <1>6. ASSUME NEW force \in BOOLEAN, NEW mode \in Modes, Start(force, mode)
        PROVE  NeedInv'
    BY <1>a, <1>c, <1>6, NeedKeep DEF Start
  <1>7. CASE Exited BY <1>a, <1>c, <1>7, NeedKeep DEF Exited
  <1>8. CASE SkipModule
    <2>1. pc' \notin {"parse", "check", "create"} /\ out' = NoCode
      BY <1>b, <1>8, AfterModuleType DEF SkipModule, Compiling
    <2>2. QED BY <1>a, <1>c, <1>8, <2>1, NeedKeep DEF SkipModule
  <1>9. CASE BuildModule
    <2>1. BuildNeeded' BY <1>9 DEF BuildModule, BuildNeeded, UpToDate, SrcBefore, Cur
    <2>2. QED BY <1>a, <1>b, <1>9, <2>1, NeedKeep DEF BuildModule
  <1>10. CASE Parse
    <2>1. \A d \in Mods : out'[d] <= edits BY <1>b, <1>10 DEF Parse, Die
    <2>2. pc' = "check" => BuildNeeded'
      BY <1>10 DEF Parse, Die, NeedInv, BuildNeeded, SrcBefore, Cur
    <2>3. QED BY <1>a, <1>10, <2>1, <2>2, NeedKeep DEF Parse, Die
  <1>11. CASE Check
    <2>1. \A d \in Mods : out'[d] <= edits BY <1>b, <1>11 DEF Check, Die
    <2>2. pc' = "create" => BuildNeeded'
      BY <1>11 DEF Check, Die, NeedInv, BuildNeeded, SrcBefore, Cur
    <2>3. QED BY <1>a, <1>11, <2>1, <2>2, NeedKeep DEF Check, Die
  <1>12. CASE CreateObj
    <2>1. n \in 1..Len(Order) BY <1>b, <1>12 DEF CreateObj, TypeInv, Compiling
    <2>2. QED BY <1>a, <1>b, <1>c, <1>12, <2>1, NoCodeType, NeedPut DEF CreateObj
  <1>13. CASE FlushObj
    <2>1. n \in 1..Len(Order) BY <1>b, <1>13 DEF FlushObj, TypeInv, Compiling
    <2>2. pc' \notin {"parse", "check", "create"} /\ out' = NoCode
      BY <1>b, <1>13, AfterModuleType DEF FlushObj, Compiling
    <2>3. QED BY <1>a, <1>b, <1>c, <1>13, <2>1, <2>2, NeedPut DEF FlushObj
  <1>14. CASE FlushFails
    <2>1. n \in 1..Len(Order) BY <1>b, <1>14 DEF FlushFails, TypeInv, Compiling
    <2>2. QED BY <1>a, <1>b, <1>c, <1>14, <2>1, NoCodeType, NeedPut DEF FlushFails, Die
  <1>15. CASE LinkStat BY <1>a, <1>b, <1>15, NeedKeep DEF LinkStat
  <1>16. CASE MergeAdd
    <2>1. n \in 1..Len(LinkOrder) BY <1>b, <1>16, LinkOrderFacts DEF MergeAdd, TypeInv, Linking
    <2>2. LinkOrder[n] \in Mods BY <2>1, LinkOrderFacts
    <2>3. \A d \in Mods : obj[LinkOrder[n]].has[d] <= edits
      BY <2>2 DEF NeedInv, VersionsMade
    <2>4. \A d \in Mods : out'[d] <= edits BY <1>b, <1>16, <2>3 DEF MergeAdd, Die
    <2>5. pc' \notin {"parse", "check", "create"} BY <1>16 DEF MergeAdd, Die
    <2>6. QED BY <1>a, <1>16, <2>4, <2>5, NeedKeep DEF MergeAdd
  <1>17. CASE MergeDone BY <1>a, <1>b, <1>17, NeedKeep DEF MergeDone
  <1>18. CASE GoCompile BY <1>a, <1>b, <1>18, NeedKeep DEF GoCompile, Die
  <1>19. CASE GoLink BY <1>a, <1>b, <1>19, NeedKeep DEF GoLink, Die
  <1>20. CASE Kill BY <1>a, <1>b, <1>20, NeedKeep DEF Kill, Die
  <1>21. CASE PeacStep
    BY <1>7, <1>8, <1>9, <1>10, <1>11, <1>12, <1>13, <1>14, <1>15, <1>16, <1>17,
       <1>18, <1>19, <1>21 DEF PeacStep
  <1>22. CASE Environment
    BY <1>2, <1>3, <1>4, <1>5, <1>6, <1>20, <1>22 DEF Environment
  <1>23. QED BY <1>1, <1>21, <1>22 DEF Next

\* compile (peac.go:69-78) never rewrites an object file that is whole, current
\* and newer than its sources, unless it is told to: with crashes, deletions and
\* edits at any time.
THEOREM NoNeedlessBuildCorrect == Spec => NoNeedlessBuild
  <1>1. Init => NeedInv
    <2> SUFFICES ASSUME Init PROVE NeedInv OBVIOUS
    <2>1. TypeInv BY TypeInit
    <2>2. \A m \in Mods : obj[m] = NoObj BY DEF Init
    <2>3. NoObj.time = 0 /\ NoObj.st = "missing" /\ \A d \in Mods : NoObj.has[d] = 0
      BY DEF NoObj, NoCode
    <2>4. VersionsMade BY <2>2, <2>3 DEF Init, VersionsMade, NoCode
    <2>5. TimesPast BY <2>2, <2>3 DEF Init, TimesPast
    <2>6. FreshIsNewer BY <2>2, <2>3 DEF FreshIsNewer, ObjFresh
    <2>7. BuildNeeded BY DEF Init, BuildNeeded
    <2>8. QED BY <2>1, <2>4, <2>5, <2>6, <2>7 DEF NeedInv
  <1>2. ASSUME NeedInv, [Next]_vars, NEW m \in Mods,
               obj'[m] # obj[m], pc = "create", ~ opts.force
        PROVE  ~ ObjFresh(m) \/ \E f \in Files : fileTime[m][f] = obj[m].time
    <2>1. CreateObj
      BY <1>2 DEF Next, vars, files, PeacStep, Environment, SkipModule, BuildModule, Parse, Check,
         FlushObj, FlushFails, LinkStat, MergeAdd, MergeDone, GoCompile, GoLink, Exited,
         Tick, Edit, Delete, RemoveStray, Start, Kill
    <2>2. n \in 1..Len(Order) /\ Cur \in Mods
      BY <1>2, CurType DEF NeedInv, TypeInv, Compiling
    <2>3. m = Cur
      BY <1>2, <2>1, <2>2 DEF CreateObj, PutObj, NeedInv, TypeInv, TypeOK
    <2>4. ~ SrcBefore(m, obj[m].time)
      BY <1>2, <2>3 DEF NeedInv, BuildNeeded
    <2>5. obj[m].time \in Nat /\ \A f \in Files : fileTime[m][f] \in Nat
      BY <1>2 DEF NeedInv, TypeInv, TypeOK, ObjFile
    <2>6. QED BY <1>2, <2>4, <2>5 DEF SrcBefore, NeedInv, FreshIsNewer
  <1>3. NeedInv /\ [Next]_vars =>
          [\A m \in Mods :
             obj'[m] # obj[m] /\ pc = "create" /\ ~ opts.force =>
               ~ ObjFresh(m) \/ \E f \in Files : fileTime[m][f] = obj[m].time]_vars
    BY <1>2
  <1>4. QED BY <1>1, <1>3, NeedStep, PTL DEF Spec, NoNeedlessBuild
=============================================================================
