------------------------------ MODULE Optimize -----------------------------
(***************************************************************************)
(* basic/optimize.go and the passes it runs: inline.go, lift.go,           *)
(* tailcall.go, escape.go, cleanup.go, copy.go and sub.go.                 *)
(*                                                                         *)
(* The functions of a module are optimized one after the other, what a     *)
(* function calls or creates before it.  Each pass that changes something  *)
(* is followed by rounds of cleaning up.  A deleted statement stays in its *)
(* block until then, and its values count it as a user.                    *)
(***************************************************************************)
EXTENDS Build

CONSTANTS
  Programs  \* trees of modules, by name

VARIABLES
  program, \* the name of the one that is compiled
  funs,    \* Mod.Funs, by name
  order,   \* the functions that are not optimized yet, the first being at it
  passes,  \* the passes that it still has to go through
  cleaning, \* cleanUp is under way
  inlined  \* inlinedCall

vars == <<program, funs, order, passes, cleaning, inlined>>

Least(S) == CHOOSE x \in S : \A y \in S : x <= y

(***************************************************************************)
(* sub.go                                                                  *)
(***************************************************************************)
\* valMap.get: a value that is substituted by one that is substituted, and so on.
\* Mutant: one step only.
GetOnce(sub, v) == IF v \in DOMAIN sub THEN sub[v] ELSE v
RECURSIVE Get(_, _)
Get(sub, v) == IF v \in DOMAIN sub THEN Get(sub, sub[v]) ELSE v
SubVals(f, sub) ==
  LET Sub(s) == With(Each(s.args, LAMBDA v : Get(sub, v)), LAMBDA args :
                     [s EXCEPT !.args = args, !.del = @ \/ (s.op = "Copy" /\ args[1] = args[2])])
  IN MapStmts(f, Sub)

(***************************************************************************)
(* cleanup.go                                                              *)
(***************************************************************************)
\* unused, if the statements with an id in gone are not counted.
Unused(stmts, v, gone) ==
  \A s \in stmts : v.id \in Uses(s) /\ ~s.gone /\ s.id \notin gone => v.op = "Alloc" /\ StoresTo(s, v.id)

\* What is deleted with deleted: values without users, and the users of these.
RECURSIVE Spread(_, _, _)
Spread(stmts, copies, deleted) ==
  With({v \in stmts : IsVal(v) /\ v.id \notin deleted /\ Unused(stmts, v, deleted \cup copies)}, LAMBDA vs :
    IF vs = {} THEN deleted
    ELSE Spread(stmts, copies, deleted \cup UNION {{v.id} \cup {s.id : s \in {t \in stmts : v.id \in Uses(t) /\ ~t.gone}} : v \in vs}))
\* propagateDeletes.  A copy to itself is no user any more, but stays.  The function
\* of a block that is not created any more loses its body.
PropagateDeletes(fs, name) ==
  LET stmts == StmtsOf(fs[name])
      Propagated(copies, gone) ==
        LET Mark(s) == [s EXCEPT !.del = @ \/ s.id \in gone, !.gone = @ \/ s.id \in gone \cup copies]
            lost == {s.name : s \in {t \in stmts : t.id \in gone /\ t.op = "MakeVirt"}}
        IN [n \in DOMAIN fs |-> CASE n = name -> MapStmts(fs[n], Mark)
                                  [] n # name /\ n \in lost -> [fs[n] EXCEPT !.bblks = <<>>]
                                  [] OTHER -> fs[n]]
  IN With({s.id : s \in {t \in stmts : t.op = "Copy" /\ ~t.del /\ t.args[1] = t.args[2]}}, LAMBDA copies :
          Propagated(copies, Spread(stmts, copies, {s.id : s \in {t \in stmts : t.del}})))

RmDeletes(f) ==
  [f EXCEPT !.bblks =
     SelectSeq(Each(@, LAMBDA b : [b EXCEPT !.stmts = SelectSeq(@, LAMBDA s : ~s.del)]), LAMBDA b : b.stmts # <<>>)]

\* The block with an id.
BBlkAt(f, id) == CHOOSE i \in DOMAIN f.bblks : f.bblks[i].id = id

\* collapseChains, from block k: it takes in the only block it goes to if that has no
\* other way in, and is left out if it was taken in itself.
Without(f, k) == [f EXCEPT !.bblks = SubSeq(@, 1, k - 1) \o SubSeq(@, k + 1, Len(@))]
Joined(f, k, i) ==
  LET whole == SubSeq(f.bblks[k].stmts, 1, Len(f.bblks[k].stmts) - 1) \o f.bblks[i].stmts
  IN [f EXCEPT !.bblks[k].stmts = whole, !.bblks[i].stmts = <<>>]
RECURSIVE CollapseChains(_, _)
CollapseChains(f, k) ==
  CASE k > Len(f.bblks) -> f
    [] k <= Len(f.bblks) /\ f.bblks[k].stmts = <<>> -> CollapseChains(Without(f, k), k)
    [] OTHER -> With(Out(f.bblks[k]), LAMBDA out :
         IF Len(out) = 1 /\ Cardinality(Ins(f, f.bblks[BBlkAt(f, out[1])])) = 1
         THEN LET g == Joined(f, k, BBlkAt(f, out[1]))
              IN IF g.bblks[k].stmts = <<>> THEN CollapseChains(g, k + 1) ELSE CollapseChains(g, k)
         ELSE CollapseChains(f, k + 1))

\* deleteEmptyBBlks: blocks that only go to another one are skipped, and then blocks
\* without a way in deleted.
RECURSIVE Skip(_, _)
Skip(f, id) ==
  With(f.bblks[BBlkAt(f, id)], LAMBDA b :
    IF Len(b.stmts) = 1 /\ Len(Out(b)) = 1 THEN Skip(f, Out(b)[1]) ELSE id)
SkipEmptyBBlks(f) ==
  MapStmts(f, LAMBDA s : [s EXCEPT !.to = Each(@, LAMBDA id : Skip(f, id))])
NoWayIn(f) == {f.bblks[i].id : i \in {j \in DOMAIN f.bblks : j > 1 /\ Ins(f, f.bblks[j]) = {}}}
\* Mutant: only the values of the blocks.
DeleteTheirVals(f, ids) ==
  [f EXCEPT !.bblks = Each(@, LAMBDA b :
     IF b.id \in ids THEN [b EXCEPT !.stmts = Each(@, LAMBDA s : [s EXCEPT !.del = @ \/ IsVal(s)])] ELSE b)]
DeleteBBlks(f, ids) ==
  [f EXCEPT !.bblks = Each(@, LAMBDA b :
     IF b.id \in ids THEN [b EXCEPT !.stmts = Each(@, LAMBDA s : [s EXCEPT !.del = TRUE])] ELSE b)]

\* One round of cleanUp, and whether there must be another one.
CleanUp(fs, name) ==
  With(PropagateDeletes(fs, name), LAMBDA gs :
  With(SkipEmptyBBlks(CollapseChains(RmDeletes(gs[name]), 2)), LAMBDA f :
  With(NoWayIn(f), LAMBDA ids : [funs |-> [gs EXCEPT ![name] = DeleteBBlks(f, ids)], again |-> ids # {}])))

(***************************************************************************)
(* inline.go and copy.go                                                   *)
(***************************************************************************)
\* Mutant: forgets that functions are passed by reference.
HasFunValueParm(f) == \E i \in DOMAIN f.parms : f.parms[i].type = FunT
HasFunParm(f) == \E i \in DOMAIN f.parms : f.parms[i].type = Ref(FunT)
\* Functions that can far return, or call others, are not inlined.
CanInline(f) == ~f.canFarRet /\ (\A s \in StmtsOf(f) : s.op = "Call" => s.del) /\ f.bblks # <<>>

\* singleStore: the one statement that stores to v, if there is one.
Stores(f, v) == {s \in Users(f, v) : StoresTo(s, v)}
SingleStore(f, v) == LET ss == Stores(f, v) IN IF Cardinality(ss) = 1 THEN ss ELSE {}
\* Mutant: what is passed to a function is not written there.
StoredOnceBesides(f, v, call) == Cardinality(Stores(f, v)) <= 1
ReadOnlyBesides(f, v, call) ==
  /\ Cardinality(Stores(f, v)) <= 1
  /\ \A s \in Users(f, v) : StoresTo(s, v) \/ s.op \in {"Load", "Copy"} \/ (s.op = "VirtCall" /\ s.id = call)
ReadOnly(f, v) == ReadOnlyBesides(f, v, 0)

\* The MakeVirt that the function v comes from, over copies that nothing else stores to.
RECURSIVE MadeBy(_, _, _)
MadeBy(f, v, call) ==
  UNION {CASE s.op = "MakeVirt" -> {s}
           [] s.op = "Copy" /\ ReadOnlyBesides(f, v, call) -> MadeBy(f, s.args[2], call)
           [] OTHER -> {} : s \in SingleStore(f, v)}
\* inlineableBlockLitVirtCall: the MakeAnd of the block that is called.
BlockLit(f, s) ==
  IF s.op # "VirtCall" \/ s.del THEN {}
  ELSE UNION {{c \in SingleStore(f, virt.args[2]) : c.op = "MakeAnd"} :
              virt \in {m \in MadeBy(f, s.args[1], s.id) :
                          LET obj == StmtOf(f, m.args[2]) IN obj.op = "Alloc" /\ RefElem(obj).k = "Block"}}

\* captureLoad: the capture that load s of f reads, or 0.
CaptureLoad(f, s) ==
  IF s.op # "Load" THEN 0
  ELSE With(StmtOf(f, s.args[1]), LAMBDA field :
         IF field.op # "Field" THEN 0
         ELSE With(StmtOf(f, field.args[1]), LAMBDA obj : IF obj.op = "Arg" /\ obj.n = 0 THEN field.n ELSE 0))

\* copyBBlks: ids are moved behind top.
CopyBBlks(src, top) ==
  LET Move(v) == IF v = 0 THEN 0 ELSE v + top
      Moved(s) == [s EXCEPT !.id = Move(@), !.args = Each(@, Move), !.to = Each(@, Move), !.gone = FALSE]
      Undeleted(b) == [id |-> Move(b.id), stmts |-> Each(SelectSeq(b.stmts, LAMBDA s : ~s.del), Moved)]
  IN [src EXCEPT !.bblks = Each(@, Undeleted), !.top = top + @]

\* copyForInline: c is the copied function; returns go to block ret, parameters are
\* args and captured variables caps.
CopyForInline(c, f, ret, caps, args) ==
  LET ArgSub(s)  == s.op = "Arg" /\ (caps = <<>> \/ s.n > 0)
      LoadSub(s) == caps # <<>> /\ CaptureLoad(c, s) > 0
      sub == [v \in {s.id : s \in {t \in StmtsOf(c) : ArgSub(t) \/ LoadSub(t)}} |->
               With(StmtOf(c, v), LAMBDA s : IF ArgSub(s) THEN args[s.n + 1] ELSE caps[CaptureLoad(c, s)])]
      Inlined(s) == [s EXCEPT !.del = @ \/ ArgSub(s) \/ (s.op = "Ret" /\ ~s.flag),
                              !.flag = IF s.op = "Ret" /\ @ THEN f.block ELSE @]
      Jumps(b, i) == IF Last(b).op = "Ret" /\ Last(b).del
                     THEN [b EXCEPT !.stmts = Append(@, [Stmt("Jmp", <<>>) EXCEPT !.id = c.top + i, !.to = <<ret>>])]
                     ELSE b
      g == SubVals(MapStmts(c, Inlined), sub)
  IN With(g.bblks, LAMBDA bs : <<>> \o [i \in DOMAIN bs |-> Jumps(bs[i], i)])

\* moveAllocs: those that are on the stack move to the first block of f.
IsStackAlloc(s) == s.op = "Alloc" /\ s.flag
BeforeEnd(b, stmts) == [b EXCEPT !.stmts = SubSeq(@, 1, Len(@) - 1) \o stmts \o <<Last(b)>>]

\* The call at statement j of block k is replaced by the body of lit.
InlineAt(f, k, j, lit, caps, args) ==
  LET b == f.bblks[k]
      next == lit.top + f.top + Len(lit.bblks) + 1
      Spliced(bs) ==
        LET moved == SelectSeq(bs[1].stmts, IsStackAlloc)
            first == BeforeEnd(f.bblks[1], moved)
            body == [bs EXCEPT ![1].stmts = SelectSeq(@, LAMBDA s : ~IsStackAlloc(s))]
            b0 == [b EXCEPT !.stmts = Append(SubSeq(@, 1, j - 1), [Stmt("Jmp", <<>>) EXCEPT !.id = next + 1, !.to = <<bs[1].id>>])]
            b1 == [id |-> next, stmts |-> [SubSeq(b.stmts, j, Len(b.stmts)) EXCEPT ![1].del = TRUE]]
        IN [f EXCEPT !.bblks = <<first>> \o SubSeq(@, 2, k - 1) \o <<b0>> \o body \o <<b1>> \o SubSeq(@, k + 1, Len(@)),
                     !.top = next + 2]
  IN Spliced(CopyForInline(CopyBBlks(lit, f.top), f, next, caps, args))

\* inlineCalls from block k on; what is inlined is looked through again.
RECURSIVE InlineCalls(_, _, _)
InlineCalls(fs, f, k) ==
  IF k > Len(f.bblks) THEN f
  ELSE LET stmts == f.bblks[k].stmts
           js == {j \in DOMAIN stmts : stmts[j].op = "Call" /\ ~stmts[j].del /\ fs[stmts[j].name].canInline}
       IN InlineCalls(fs, IF js = {} THEN f
                          ELSE With(stmts[Least(js)], LAMBDA s : InlineAt(f, k, Least(js), fs[s.name], <<>>, s.args)), k + 1)
\* inlineBlockLits from block k on.
RECURSIVE InlineBlockLits(_, _, _)
InlineBlockLits(fs, f, k) ==
  IF k > Len(f.bblks) THEN f
  ELSE LET stmts == f.bblks[k].stmts
           js == {j \in DOMAIN stmts : BlockLit(f, stmts[j]) # {}}
           Inline(j, lit) == InlineAt(f, k, j, fs[lit.name], Tail(lit.args), stmts[j].args)
       IN InlineBlockLits(fs, IF js = {} THEN f
                              ELSE Inline(Least(js), CHOOSE c \in BlockLit(f, stmts[Least(js)]) : TRUE), k + 1)

(***************************************************************************)
(* lift.go                                                                 *)
(***************************************************************************)
IsParm(f, s) == \E i \in DOMAIN f.parms : f.parms[i].var = s.name
\* Mutant: stored to any number of times.
LiftableAnyhow(f, s, liftParms) ==
  /\ s.op = "Alloc" /\ ~s.del /\ SimpleType(RefElem(s))
  /\ liftParms \/ ~IsParm(f, s)
  /\ \A u \in Users(f, s.id) : u.op = "Load" \/ (u.op = "Store" /\ u.args[2] # s.id)
  /\ Stores(f, s.id) # {}
\* liftableAlloc: of a simple type, loaded, and stored to once.
Liftable(f, s, liftParms) ==
  /\ s.op = "Alloc" /\ ~s.del /\ SimpleType(RefElem(s))
  /\ liftParms \/ ~IsParm(f, s)
  /\ \A u \in Users(f, s.id) : u.op = "Load" \/ (u.op = "Store" /\ u.args[2] # s.id)
  /\ Cardinality(Stores(f, s.id)) = 1
Lifts(f, liftParms) == {s \in SeqX!ToSet(f.bblks[1].stmts) : Liftable(f, s, liftParms)}
\* Each load of a lifted allocation and what was stored there.
LiftSub(f, lifts) ==
  LET loads == {u \in UNION {Users(f, s.id) : s \in lifts} : u.op = "Load"}
  IN [v \in {u.id : u \in loads} |->
       With(StmtOf(f, v), LAMBDA u : (CHOOSE s \in Stores(f, u.args[1]) : \A t \in Stores(f, u.args[1]) : t.id <= s.id).args[2])]
LiftAllocs(f, lifts) ==
  LET gone == {s.id : s \in lifts} \cup UNION {{u.id : u \in Users(f, s.id)} : s \in lifts}
  IN SubVals(MapStmts(f, LAMBDA s : [s EXCEPT !.del = @ \/ s.id \in gone]), LiftSub(f, lifts))

(***************************************************************************)
(* tailcall.go                                                             *)
(***************************************************************************)
\* nextStmt: what comes after statement i of block k, over jumps: <<>> if nothing does.
RECURSIVE NextStmt(_, _, _)
NextStmt(f, k, i) ==
  IF i >= Len(f.bblks[k].stmts) THEN <<>>
  ELSE With(f.bblks[k].stmts[i + 1], LAMBDA s :
         CASE s.op = "Jmp" -> NextStmt(f, BBlkAt(f, s.to[1]), 0)
           [] s.op # "Jmp" /\ s.del -> NextStmt(f, k, i + 1)
           [] OTHER -> <<[k |-> k, i |-> i + 1, s |-> s]>>)
\* The statements after it, up to n.
RECURSIVE Following(_, _, _, _)
Following(f, k, i, n) ==
  IF n = 0 THEN <<>>
  ELSE With(NextStmt(f, k, i), LAMBDA next :
         IF next = <<>> THEN <<>> ELSE <<next[1].s>> \o Following(f, next[1].k, next[1].i, n - 1))

\* Only the load of what it returns and its store to where f returns it come after the call.
ReturnsResult(f, s, after) ==
  /\ Len(after) = 3 /\ after[1].op = "Load" /\ after[2].op = "Store" /\ after[3].op = "Ret"
  /\ Cardinality(Users(f, after[1].id)) = 1
  /\ s.args # <<>> /\ s.args[Len(s.args)] = after[1].args[1]
  /\ after[2].args[2] = after[1].id
  /\ With(StmtOf(f, after[2].args[1]), LAMBDA dst : dst.op = "Arg" /\ f.ret # <<>> /\ dst.n = f.ret[1].n)
SelfTailCall(f, k, i) ==
  With(f.bblks[k].stmts[i], LAMBDA s :
    /\ s.op = "Call" /\ ~s.del /\ s.name = f.name
    /\ With(Following(f, k, i, 3), LAMBDA after :
         (after # <<>> /\ after[1].op = "Ret") \/ ReturnsResult(f, s, after)))

\* Argument i of the call becomes the parameter's value; b builds the block before it.
Assigned(b, i, arg) ==
  LET parm == b.f.parms[i]
      Unchanged(dst) == With(StmtOf(b.f, arg), LAMBDA s : s.op = "Load" /\ s.args[1] = dst /\ ReadOnly(b.f, dst))
      \* the copy that was made for the call is not
      Uncopied(c) == IF ~parm.value THEN [b |-> c, v |-> arg]
                     ELSE With(CHOOSE s \in SingleStore(c.f, arg) : TRUE, LAMBDA copy :
                            [b |-> [c EXCEPT !.f = MapStmts(@, LAMBDA s : [s EXCEPT !.del = @ \/ s.id = copy.id])],
                             v |-> copy.args[2]])
      Op(c, v) == IF ~parm.value /\ SimpleType(StmtOf(c.f, v).type) THEN "Store" ELSE "Copy"
  IN IF i > Len(b.f.parms) THEN b
     ELSE With(FindVar(b, parm.var), LAMBDA dst :
            IF Unchanged(dst.v) THEN dst
            ELSE With(Uncopied(dst), LAMBDA r : Emit(r.b, Stmt(Op(r.b, r.v), <<dst.v, r.v>>))))
\* The call at statement i of block k becomes a jump to the start of the body.
Looped(f, k, i) ==
  LET call == f.bblks[k].stmts[i]
      rest == [SubSeq(f.bblks[k].stmts, i, Len(f.bblks[k].stmts)) EXCEPT ![1].del = TRUE]
      cut == [f EXCEPT !.bblks = SubSeq(@, 1, k - 1) \o <<[@[k] EXCEPT !.stmts = SubSeq(@, 1, i - 1)]>>
                                 \o <<[id |-> f.top, stmts |-> rest]>> \o SubSeq(@, k + 1, Len(@)),
                       !.top = @ + 1]
      b == SeqX!FoldLeft(LAMBDA c, n : Assigned(c, n, call.args[n]), [f |-> cut, cur |-> k, v |-> 0, lits |-> <<>>],
                         [n \in DOMAIN call.args |-> n])
  IN Jmp(b, f.bblks[2].id).f
\* rmSelfTailCalls from block k on.
RECURSIVE RmSelfTailCalls(_, _)
RmSelfTailCalls(f, k) ==
  IF k > Len(f.bblks) THEN f
  ELSE With({i \in DOMAIN f.bblks[k].stmts : SelfTailCall(f, k, i)}, LAMBDA is :
         RmSelfTailCalls(IF is = {} THEN f ELSE Looped(f, k, Least(is)), k + 1))

(***************************************************************************)
(* escape.go                                                               *)
(***************************************************************************)
\* May s let the address v of an allocation get out, if stack are on the stack?
LetsOut(f, s, v, stack) ==
  LET type == StmtOf(f, s.args[1]).type.t
      field == Least({i \in DOMAIN s.args : i > 1 /\ s.args[i] = v})
  IN CASE StoresTo(s, v) \/ s.op \in {"Load", "Copy"} -> FALSE
       [] ~StoresTo(s, v) /\ s.op = "MakeAnd" -> SimpleType(type.parts[field - 1])
       [] ~StoresTo(s, v) /\ s.op = "MakeOr"  -> SimpleType(type.parts[s.n])
       [] ~StoresTo(s, v) /\ s.op = "Store"   -> s.args[1] \notin stack
       [] s.op = "Call" -> funs[s.name].ret = <<>> \/ \E i \in 1..(Len(s.args) - 1) : s.args[i] = v
       [] OTHER -> TRUE
Escapes(f, v, stack) == \E s \in Users(f, v) : LetsOut(f, s, v, stack)

\* moveAllocsToStack
RECURSIVE OnStack(_, _)
OnStack(f, stack) ==
  With({s.id : s \in {t \in StmtsOf(f) : t.op = "Alloc" /\ t.id \notin stack /\ ~Escapes(f, t.id, stack)}}, LAMBDA more :
    IF more = {} THEN stack ELSE OnStack(f, stack \cup more))
MoveAllocsToStack(f) ==
  LET stack == OnStack(f, {s.id : s \in {t \in StmtsOf(f) : IsStackAlloc(t)}})
      OfBlocks(g) == SeqX!FlattenSeq([k \in 1..(Len(g.bblks) - 1) |-> SelectSeq(g.bblks[k + 1].stmts, IsStackAlloc)])
      Moved(g) == [g EXCEPT !.bblks =
                     <<BeforeEnd(@[1], OfBlocks(g))>> \o
                     Each(Tail(@), LAMBDA b : [b EXCEPT !.stmts = SelectSeq(@, LAMBDA s : ~IsStackAlloc(s))])]
  IN Moved(MapStmts(f, LAMBDA s : [s EXCEPT !.flag = @ \/ s.id \in stack]))

(***************************************************************************)
(* optimize.go                                                             *)
(***************************************************************************)
AllPasses == <<"inlineCalls", "inlineBlockLits", "liftAllocs", "rmSelfTailCalls", "liftParms",
               "moveAllocsToStack", "cleanUp", "canInline">>

Init ==
  /\ program \in DOMAIN Programs
  /\ funs = BuildMod(Programs[program].src)
  /\ order = TopoSort(funs, Programs[program].names)
  /\ passes = AllPasses
  /\ cleaning = FALSE
  /\ inlined = FALSE

Fun == funs[Head(order)]
\* The pass is the next one for the function.
Due(pass) == order # <<>> /\ Fun.bblks # <<>> /\ ~cleaning /\ passes # <<>> /\ Head(passes) = pass
\* It leaves g, which is cleaned up if that is due.
Passed(g, clean) ==
  /\ funs' = [funs EXCEPT ![g.name] = g]
  /\ passes' = Tail(passes)
  /\ cleaning' = clean
  /\ UNCHANGED <<program, order>>

\* Calls in a test stay: a panic tells the line of the test that it comes from.
IsTest(f) == ~f.block /\ Programs[program].src[f.name].test
InlineCallsPass ==
  /\ Due("inlineCalls")
  /\ \E g \in {IF IsTest(Fun) THEN Fun ELSE InlineCalls(funs, Fun, 2)} : Passed(g, g # Fun) /\ inlined' = (g # Fun)
InlineBlockLitsPass ==
  /\ Due("inlineBlockLits")
  /\ \E g \in {InlineBlockLits(funs, Fun, 2)} : Passed(g, g # Fun)
  /\ UNCHANGED inlined
LiftAllocsPass ==
  \E pass \in {"liftAllocs", "liftParms"} :
    /\ Due(pass)
    /\ \E lifts \in {Lifts(Fun, pass = "liftParms")} : Passed(LiftAllocs(Fun, lifts), lifts # {})
    /\ UNCHANGED inlined
RmSelfTailCallsPass ==
  /\ Due("rmSelfTailCalls")
  /\ \E g \in {RmSelfTailCalls(Fun, 2)} : Passed(g, g # Fun)
  /\ UNCHANGED inlined
MoveAllocsToStackPass ==
  /\ Due("moveAllocsToStack")
  /\ Passed(MoveAllocsToStack(Fun), FALSE)
  /\ UNCHANGED inlined
LastCleanUp ==
  /\ Due("cleanUp")
  /\ Passed(Fun, TRUE)
  /\ UNCHANGED inlined
CleanUpRound ==
  /\ cleaning
  /\ \E r \in {CleanUp(funs, Head(order))} : funs' = r.funs /\ cleaning' = r.again
  /\ UNCHANGED <<program, order, passes, inlined>>

Done(f) ==
  /\ funs' = [funs EXCEPT ![f.name] = f]
  /\ order' = Tail(order)
  /\ passes' = AllPasses
  /\ inlined' = FALSE
  /\ UNCHANGED <<program, cleaning>>
\* The far return may be gone, which lets the function be inlined.
Finish ==
  /\ Due("canInline")
  /\ LET far == Fun.canFarRet /\ CanFarRet(funs, Fun)
         g == [Fun EXCEPT !.canFarRet = far]
     IN Done([g EXCEPT !.canInline = CanInline(g) /\ (HasFunParm(g) \/ ~inlined)])
\* A function that has no body is left alone.
NoBody ==
  /\ order # <<>> /\ ~cleaning /\ Fun.bblks = <<>>
  /\ Done([Fun EXCEPT !.canInline = FALSE])

\* rmDeletedFuns
Deleted == {name \in DOMAIN funs : funs[name].block /\ funs[name].bblks = <<>>}
RmDeletedFuns ==
  /\ order = <<>> /\ Deleted # {}
  /\ funs' = [name \in DOMAIN funs \ Deleted |-> funs[name]]
  /\ UNCHANGED <<program, order, passes, cleaning, inlined>>

Next ==
  \/ InlineCallsPass \/ InlineBlockLitsPass \/ LiftAllocsPass \/ RmSelfTailCallsPass
  \/ MoveAllocsToStackPass \/ LastCleanUp \/ CleanUpRound \/ Finish \/ NoBody \/ RmDeletedFuns

Spec == Init /\ [][Next]_vars

(***************************************************************************)
(* Properties                                                              *)
(***************************************************************************)
\* Between the passes no statement is deleted, blocks are ended by their last statement
\* alone and go to blocks of the function, what is used is one value of the function, and
\* what is allocated on the stack is allocated by the first block.
WholeBBlk(f, b) ==
  /\ b.stmts # <<>> /\ \A j \in DOMAIN b.stmts : (b.stmts[j].op \in Terms) <=> (j = Len(b.stmts))
  /\ SeqX!ToSet(Last(b).to) \subseteq {f.bblks[i].id : i \in DOMAIN f.bblks}
Whole(f) ==
  LET stmts == StmtsOf(f)
      vals == {s.id : s \in {t \in stmts : IsVal(t)}}
  IN /\ \A i \in DOMAIN f.bblks : WholeBBlk(f, f.bblks[i])
     /\ \A s \in stmts : ~s.del /\ Uses(s) \subseteq vals
     /\ Cardinality(vals) = Cardinality({s \in stmts : IsVal(s)})
     /\ \A i \in DOMAIN f.bblks : i > 1 => ~\E j \in DOMAIN f.bblks[i].stmts : IsStackAlloc(f.bblks[i].stmts[j])
WellFormed == ~cleaning => \A name \in DOMAIN funs : Whole(funs[name])

\* What the comment in cleanup.go:29-32 says: a block is created in one place, so that its function
\* is unused when that is deleted, and loses its body.  A block that is created has one.  Inlining
\* copies the place, which refutes it (LostBlock.cfg).
BlocksHaveBodies ==
  ~cleaning => \A name \in DOMAIN funs : \A s \in StmtsOf(funs[name]) :
    s.op = "MakeVirt" => s.name \in DOMAIN funs /\ funs[s.name].bblks # <<>>

\* Replacing values ends: no value that lifting replaces is replaced by itself, over others.
RECURSIVE Ends(_, _, _)
Ends(sub, v, seen) == v \notin seen /\ (v \in DOMAIN sub => Ends(sub, sub[v], seen \cup {v}))
LiftsEnd ==
  \A pass \in {"liftAllocs", "liftParms"} : Due(pass) =>
    With(LiftSub(Fun, Lifts(Fun, pass = "liftParms")), LAMBDA sub : \A v \in DOMAIN sub : Ends(sub, v, {}))

\* A round of cleaning up leaves fewer statements, which makes cleaning up end if it holds for each
\* that asks for another one.
Left(fs) == UNION {{<<name, s.id>> : s \in {t \in StmtsOf(fs[name]) : ~t.del}} : name \in DOMAIN fs}
LeavesLess == Cardinality(Left(funs')) < Cardinality(Left(funs))

\* The main of a program of small functions and blocks is left without a call
\* (optimize_test.go: TestIfTrue, TestToDo, TestInlineNestedBlocks, TestInlineFunParmFuncs).
NoCallsLeft ==
  order = <<>> /\ Programs[program].free =>
    ~\E s \in StmtsOf(funs["main"]) : s.op \in {"Call", "VirtCall"}
=============================================================================
