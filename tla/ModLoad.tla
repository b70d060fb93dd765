------------------------------ MODULE ModLoad ------------------------------
(***************************************************************************)
(* Package mod (src/mod/mod.go): loading the modules a program imports and *)
(* putting them in order; and the two tools built on it, peac (which       *)
(* compiles in the order of TopologicalDeps and links in the order of      *)
(* objFiles) and pealist (which lists every module directory, after its    *)
(* dependencies).                                                          *)
(*                                                                         *)
(* A *Mod is an object on a heap: two objects may well have the same path, *)
(* and all algorithms here tell them apart by identity.  Module paths are  *)
(* numbers, so that alphabetical order is the order of numbers.            *)
(*                                                                         *)
(* The four walks are recursive closures that loop over the dependencies   *)
(* of a module.  The model takes one step per turn of a loop that does     *)
(* something and per return: path has the calls in progress, and a loop is *)
(* at the first dependency that it still has something to do for.          *)
(***************************************************************************)
EXTENDS Naturals, SequencesExt, Listings

CONSTANTS
  NumPaths,     \* modules have the paths 1..NumPaths
  PealistPaths, \* bound on the paths when pealist runs, which reads them in any order
  Tools         \* which of the tools "peac" and "pealist" is run

ASSUME NumPathsAssumption == NumPaths \in Nat \ {0} /\ PealistPaths \in 1..NumPaths
ASSUME ToolsAssumption == Tools \subseteq {"peac", "pealist"}

Paths == 1..NumPaths
PathsFor(t) == IF t = "pealist" THEN 1..PealistPaths ELSE Paths

VARIABLES
  imports, \* imports[p]: the import statements in the sources of module p
  exists,  \* the module paths that have a directory
  sources, \* those whose directory holds .pea files
  broken,  \* those with a .pea file that cannot be opened or parsed
  tool,    \* the tool that runs
  pc,      \* "walk", "load", "see", "sort", "list", "link", "done" or "died"
  dirs,    \* directories with sources that the tool has yet to visit
  heap,    \* the Mod objects: heap[i] = [path, deps]
  loaded,  \* the map of loadDeps from path to Mod, 0 if there is none
  seen,    \* pealist's map from path to Mod
  mods,    \* the roots: Mod objects that were loaded for themselves
  path,    \* the calls in progress of the closure that runs, outermost first
  sorted,  \* what TopologicalDeps returns, without what was listed of it
  order,   \* the paths of modules in the order in which they are compiled or printed
  links    \* the modules in the order in which peac links them

given == <<imports, exists, sources, broken, tool>>
vars == <<given, pc, dirs, heap, loaded, seen, mods, path, sorted, order, links>>

NoMods == [p \in Paths |-> 0]

\* Every import graph, and every order in which directories may be read.  What a broken
\* module imports is never known: deps returns its error and no imports.
Init ==
  /\ tool \in Tools
  /\ exists \in {E \in SUBSET PathsFor(tool) : 1 \in E}
  /\ sources \in {S \in SUBSET exists : 1 \in S}
  /\ broken \in SUBSET sources
  /\ imports \in {f \in [Paths -> SUBSET PathsFor(tool)] :
                   \A p \in Paths \ (sources \ broken) : f[p] = {}}
  /\ pc = "walk"
  /\ dirs \in IF tool = "peac" THEN {<<1>>} ELSE SetToSeqs(sources)
  /\ heap = <<>> /\ loaded = NoMods /\ seen = NoMods /\ mods = {} /\ path = <<>>
  /\ sorted = <<>> /\ order = <<>> /\ links = <<>>

-----------------------------------------------------------------------------
(* Helpers *)

\* newMod; its dependencies are loaded later.
Mod(p) == [path |-> p, deps |-> <<>>]

Path(m) == heap[m].path
Dep(m, i) == heap[m].deps[i]
Deps(m) == ToSet(heap[m].deps)
DepPaths(m) == {Path(d) : d \in Deps(m)}

\* The module that the innermost call is for.
Top == path[Len(path)]

Least(S) == CHOOSE p \in S : \A q \in S : p <= q

\* Mutant: the error of newMod is not looked at.
CanLoadAny(p) == TRUE

\* newMod fails if there is no such directory.
CanLoad(p) == p \in exists

\* deps fails if one of the files cannot be opened, or ReadImports cannot parse it.
CanRead(m) == Path(m) \notin broken

\* deps: the imports of all files of a module, sorted and without duplicates; these are
\* the ones that addDeps has yet to come to.
ImportsLeft(m) == imports[Path(m)] \ DepPaths(m)

\* Mutant: a dependency keeps its own object.
UnsettledKeep(m) == {i \in DOMAIN heap[m].deps : seen[Path(Dep(m, i))] = 0}

\* Dependencies that are not the object that pealist has seen for their path.
Unsettled(m) == {i \in DOMAIN heap[m].deps : seen[Path(Dep(m, i))] # Dep(m, i)}

\* Dependencies that add has not been called for.
Unadded(m) == {i \in DOMAIN heap[m].deps : Dep(m, i) \notin ToSet(sorted) \cup ToSet(path)}

\* Mutant: only direct dependencies are linked.
UnlinkedDirect(m) ==
  {i \in DOMAIN heap[m].deps : Len(path) = 1 /\ Dep(m, i) \notin ToSet(links)}

\* Dependencies that addObjFiles has not been called for.
Unlinked(m) == {i \in DOMAIN heap[m].deps : Dep(m, i) \notin ToSet(links)}

-----------------------------------------------------------------------------
(* main of pealist, and of peac, which visits its root only *)

\* The directory of a module that is already loaded.
VisitSeen ==
  /\ pc = "walk" /\ dirs # <<>> /\ seen[Head(dirs)] # 0
  /\ dirs' = Tail(dirs)
  /\ UNCHANGED <<given, pc, heap, loaded, seen, mods, path, sorted, order, links>>

\* mod.Load; LoadDeps begins.
Visit ==
  /\ pc = "walk" /\ dirs # <<>> /\ seen[Head(dirs)] = 0
  /\ LET p == Head(dirs)
         m == Len(heap) + 1
     IN /\ heap' = Append(heap, Mod(p))
        /\ seen' = IF tool = "pealist" THEN [seen EXCEPT ![p] = m] ELSE seen
        /\ loaded' = [NoMods EXCEPT ![p] = m]
        /\ mods' = mods \cup {m}
        /\ path' = <<m>>
  /\ dirs' = Tail(dirs)
  /\ pc' = "load"
  /\ UNCHANGED <<given, sorted, order, links>>

\* All directories are visited.
WalkEnd ==
  /\ pc = "walk" /\ dirs = <<>>
  /\ pc' = "sort"
  /\ UNCHANGED <<given, dirs, heap, loaded, seen, mods, path, sorted, order, links>>

-----------------------------------------------------------------------------
(* addDeps, the closure of loadDeps *)

\* An import that is loaded already.
AddLoaded ==
  /\ pc = "load" /\ ImportsLeft(Top) # {}
  /\ LET p == Least(ImportsLeft(Top))
     IN /\ loaded[p] # 0
        /\ heap' = [heap EXCEPT ![Top].deps = Append(@, loaded[p])]
  /\ UNCHANGED <<given, pc, dirs, loaded, seen, mods, path, sorted, order, links>>

\* A new module, whose own dependencies come next.
AddNew ==
  /\ pc = "load" /\ ImportsLeft(Top) # {}
  /\ LET p == Least(ImportsLeft(Top))
         d == Len(heap) + 1
     IN /\ loaded[p] = 0 /\ CanLoad(p)
        /\ heap' = Append([heap EXCEPT ![Top].deps = Append(@, d)], Mod(p))
        /\ loaded' = [loaded EXCEPT ![p] = d]
        /\ path' = Append(path, d)
  /\ UNCHANGED <<given, pc, dirs, seen, mods, sorted, order, links>>

\* The tool dies with the error of newMod.
AddMissing ==
  /\ pc = "load" /\ ImportsLeft(Top) # {}
  /\ LET p == Least(ImportsLeft(Top)) IN loaded[p] = 0 /\ ~ CanLoad(p)
  /\ pc' = "died"
  /\ UNCHANGED <<given, dirs, heap, loaded, seen, mods, path, sorted, order, links>>

\* The tool dies with the error of deps, before anything is added.
AddUnreadable ==
  /\ pc = "load" /\ ~ CanRead(Top)
  /\ pc' = "died"
  /\ UNCHANGED <<given, dirs, heap, loaded, seen, mods, path, sorted, order, links>>

\* addDeps returns; at last LoadDeps does, and pealist goes on with seeDeps.
AddReturn ==
  /\ pc = "load" /\ CanRead(Top) /\ ImportsLeft(Top) = {}
  /\ IF Len(path) > 1 THEN path' = Front(path) /\ UNCHANGED pc
     ELSE IF tool = "pealist" THEN pc' = "see" /\ UNCHANGED path
     ELSE pc' = "walk" /\ path' = <<>>
  /\ UNCHANGED <<given, dirs, heap, loaded, seen, mods, sorted, order, links>>

-----------------------------------------------------------------------------
(* seeDeps *)

\* A path that pealist has seen no object for.
SeeNew ==
  /\ pc = "see" /\ Unsettled(Top) # {}
  /\ LET d == Dep(Top, Least(Unsettled(Top)))
     IN /\ seen[Path(d)] = 0
        /\ seen' = [seen EXCEPT ![Path(d)] = d]
        /\ path' = Append(path, d)
  /\ UNCHANGED <<given, pc, dirs, heap, loaded, mods, sorted, order, links>>

\* The object of the dependency is replaced by the one that was seen.
SeeOther ==
  /\ pc = "see" /\ Unsettled(Top) # {}
  /\ LET i == Least(Unsettled(Top))
         s == seen[Path(Dep(Top, i))]
     IN s # 0 /\ heap' = [heap EXCEPT ![Top].deps[i] = s]
  /\ UNCHANGED <<given, pc, dirs, loaded, seen, mods, path, sorted, order, links>>

SeeReturn ==
  /\ pc = "see" /\ Unsettled(Top) = {}
  /\ path' = Front(path)
  /\ pc' = IF Len(path) > 1 THEN "see" ELSE "walk"
  /\ UNCHANGED <<given, dirs, heap, loaded, seen, mods, sorted, order, links>>

-----------------------------------------------------------------------------
(* add, the closure of TopologicalDeps *)

\* The roots are sorted, and each is added that was not added as a dependency.
SortRoot ==
  /\ pc = "sort" /\ path = <<>> /\ ~ mods \subseteq ToSet(sorted)
  /\ LET left == mods \ ToSet(sorted)
     IN path' = <<CHOOSE m \in left : \A x \in left : Path(m) <= Path(x)>>
  /\ UNCHANGED <<given, pc, dirs, heap, loaded, seen, mods, sorted, order, links>>

SortDep ==
  /\ pc = "sort" /\ path # <<>> /\ Unadded(Top) # {}
  /\ path' = Append(path, Dep(Top, Least(Unadded(Top))))
  /\ UNCHANGED <<given, pc, dirs, heap, loaded, seen, mods, sorted, order, links>>

\* Mutant: the module is put before the others.
AddInFront(m) == <<m>> \o sorted

AddSorted(m) == Append(sorted, m)

SortReturn ==
  /\ pc = "sort" /\ path # <<>> /\ Unadded(Top) = {}
  /\ sorted' = AddSorted(Top)
  /\ path' = Front(path)
  /\ UNCHANGED <<given, pc, dirs, heap, loaded, seen, mods, order, links>>

SortEnd ==
  /\ pc = "sort" /\ path = <<>> /\ mods \subseteq ToSet(sorted)
  /\ pc' = "list"
  /\ UNCHANGED <<given, dirs, heap, loaded, seen, mods, path, sorted, order, links>>

-----------------------------------------------------------------------------
(* The last loop of main *)

\* pealist prints the modules whose directories it walked, but not an imported directory
\* without sources; peac compiles all.
Listed == IF tool = "peac" THEN Paths ELSE sources

List ==
  /\ pc = "list" /\ sorted # <<>>
  /\ LET p == Path(Head(sorted))
     IN order' = IF p \in Listed THEN Append(order, p) ELSE order
  /\ sorted' = Tail(sorted)
  /\ UNCHANGED <<given, pc, dirs, heap, loaded, seen, mods, path, links>>

\* peac links if the root is a program; addObjFiles begins with the root.
ListEnd ==
  /\ pc = "list" /\ sorted = <<>>
  /\ IF tool = "peac"
     THEN \E m \in mods : pc' = "link" /\ links' = <<m>> /\ path' = <<m>>
     ELSE pc' = "done" /\ UNCHANGED <<links, path>>
  /\ UNCHANGED <<given, dirs, heap, loaded, seen, mods, sorted, order>>

-----------------------------------------------------------------------------
(* addObjFiles, the closure of objFiles (and of goFiles): parents first *)

LinkDep ==
  /\ pc = "link" /\ Unlinked(Top) # {}
  /\ LET d == Dep(Top, Least(Unlinked(Top)))
     IN links' = Append(links, d) /\ path' = Append(path, d)
  /\ UNCHANGED <<given, pc, dirs, heap, loaded, seen, mods, sorted, order>>

LinkReturn ==
  /\ pc = "link" /\ Unlinked(Top) = {}
  /\ path' = Front(path)
  /\ pc' = IF Len(path) > 1 THEN "link" ELSE "done"
  /\ UNCHANGED <<given, dirs, heap, loaded, seen, mods, sorted, order, links>>

-----------------------------------------------------------------------------

Done == pc \in {"done", "died"} /\ UNCHANGED vars

Next ==
  \/ VisitSeen \/ Visit \/ WalkEnd
  \/ AddLoaded \/ AddNew \/ AddMissing \/ AddUnreadable \/ AddReturn
  \/ SeeNew \/ SeeOther \/ SeeReturn
  \/ SortRoot \/ SortDep \/ SortReturn \/ SortEnd
  \/ List \/ ListEnd
  \/ LinkDep \/ LinkReturn
  \/ Done

Spec == Init /\ [][Next]_vars

-----------------------------------------------------------------------------
(* Reference definitions and properties *)

\* The paths that can be reached from those of P through imports: the least set that
\* has P and what its members import.
Closed(C) == \A p \in C : imports[p] \subseteq C
Reach(P) == {q \in Paths : \A C \in SUBSET Paths : P \subseteq C /\ Closed(C) => q \in C}

Needed == Reach(IF tool = "peac" THEN {1} ELSE sources)

Acyclic == \A p \in Paths : p \notin Reach(imports[p])

\* Whatever the imports are, cyclic ones included, every module the tool needs
\* is in the order exactly once, although pealist loads one module several
\* times into different objects (mod.go:192-210, pealist.go:62-74).
EachOnce ==
  pc = "done" =>
    /\ ToSet(order) = Needed \cap Listed
    /\ \A i, j \in 1..Len(order) : order[i] = order[j] => i = j

\* "with dependencies before their dependants" (mod.go:189-191).
DepsFirst ==
  pc = "done" /\ Acyclic =>
    \A i \in 1..Len(order) : \A d \in imports[order[i]] \cap Listed :
      \E j \in 1..Len(order) : j < i /\ order[j] = d

\* What peac links is what it compiled, the root module first (peac.go:171-187).
LinksAll ==
  pc = "done" /\ tool = "peac" =>
    /\ {Path(m) : m \in ToSet(links)} = ToSet(order)
    /\ \A i, j \in 1..Len(links) : Path(links[i]) = Path(links[j]) => i = j
    /\ Path(links[1]) = 1

\* The listings of peac meet what PeacBuild assumes of Mods, Root, Order and LinkOrder: the
\* modules that the root needs, each once (peac.go:61-66, 171-187).
MeetsBuild ==
  pc = "done" /\ tool = "peac" =>
    /\ 1 \in Needed
    /\ ListsOnce(order, Needed)
    /\ ListsOnce([i \in 1..Len(links) |-> Path(links[i])], Needed)

\* A tool gives up exactly if a module it needs has no directory or has a source file that
\* cannot be read or parsed, however deep below the roots it is and whatever was loaded
\* before (mod.go:136-159, 162-172).
DiesIfUnloadable ==
  /\ pc = "died" => ~ Needed \subseteq exists \ broken
  /\ pc = "done" => Needed \subseteq exists \ broken

(* What is left to do, at most *)

\* The phases that come.
PhasesLeft ==
  {s \in {"sort", "list", "link"} :
     \/ pc \in {"walk", "load", "see"}
     \/ pc = "sort" /\ s # "sort"
     \/ pc = "list" /\ s = "link"}

\* addDeps, for the directory that is k-th from the last: the import q of module p is to be
\* added, or p to be returned for if q is 0.
AddLeft(k, p, q) ==
  \/ k <= Len(dirs)
  \/ /\ pc = "load"
     /\ \/ loaded[p] = 0
        \/ loaded[p] \in ToSet(path) /\ q \in ImportsLeft(loaded[p]) \cup {0}
AddsLeft ==
  {e \in (1..Len(dirs) + 1) \X Paths \X (Paths \cup {0}) : AddLeft(e[1], e[2], e[3])}

\* seeDeps: the dependency q of module p is to be settled, or p to be returned for.
SeeLeft(p, q) ==
  \/ seen[p] = 0
  \/ /\ pc \in {"load", "see"} /\ seen[p] \in ToSet(path)
     /\ \/ pc = "load" \/ q = 0
        \/ \E i \in Unsettled(seen[p]) : Path(Dep(seen[p], i)) = q
SeesLeft == {e \in Paths \X (Paths \cup {0}) : SeeLeft(e[1], e[2])}

\* The paths of which no object is among those of S.
Without(S) == {p \in Paths : \A m \in S : Path(m) # p}

\* add: the modules to call it for, and those to return for.
SortCallsLeft ==
  IF pc = "sort" THEN Without(ToSet(sorted) \cup ToSet(path))
  ELSE IF "sort" \in PhasesLeft THEN Paths ELSE {}
SortReturnsLeft ==
  IF pc = "sort" THEN Without(ToSet(sorted)) ELSE IF "sort" \in PhasesLeft THEN Paths ELSE {}

\* The paths to list.
ListsLeft ==
  IF pc = "list" THEN {Path(m) : m \in ToSet(sorted)}
  ELSE IF "list" \in PhasesLeft THEN Paths ELSE {}

\* addObjFiles: the modules to call it for, and those to return for.
LinkCallsLeft ==
  IF pc = "link" THEN Without(ToSet(links)) ELSE IF "link" \in PhasesLeft THEN Paths ELSE {}
LinkReturnsLeft ==
  IF pc = "link" THEN Without(ToSet(links) \ ToSet(path))
  ELSE IF "link" \in PhasesLeft THEN Paths ELSE {}

WorkLeft ==
  [phases      |-> PhasesLeft,    dirs        |-> 1..Len(dirs),
   adds        |-> AddsLeft,      sees        |-> SeesLeft,
   sortCalls   |-> SortCallsLeft, sortReturns |-> SortReturnsLeft,
   lists       |-> ListsLeft,
   linkCalls   |-> LinkCallsLeft, linkReturns |-> LinkReturnsLeft]

\* Every step of a tool does some of the work that is left and makes no more of it:
\* whatever imports what, the walks come to an end (mod.go:141-155, 192-210,
\* pealist.go:62-74, peac.go:171-187).
WorkShrinks ==
  [][/\ \A kind \in DOMAIN WorkLeft : WorkLeft'[kind] \subseteq WorkLeft[kind]
     /\ WorkLeft' # WorkLeft]_vars
=============================================================================
