--------------------------- MODULE ModLoadProofs ---------------------------
(* Proofs for ModLoad, for any number of paths and either tool: what the tools do, and *)
(* that they end. *)
EXTENDS ModLoad, LeastElements

\* The values of heap.
ModType == [path : Paths, deps : Seq(Nat)]

Objects == 1..Len(heap)

\* The paths where the tool starts, and those of the roots that it has loaded.
Start == IF tool = "peac" THEN {1} ELSE sources
RootPaths == {Path(m) : m \in mods}

\* addDeps is not through with the module.
Loading(m) == pc \in {"load", "died"} /\ m \in ToSet(path)

\* seeDeps is not.
Seeing(m) ==
  /\ tool = "pealist"
  /\ \/ pc \in {"load", "died"} /\ m = path[1]
     \/ pc = "see" /\ m \in ToSet(path)

\* The map that decides which object stands for a path.
Known == IF tool = "peac" THEN loaded ELSE seen
IsKnown(m) == Known[Path(m)] = m

-----------------------------------------------------------------------------
(* The inductive invariant: at all times *)

\* What the tool finds, and does not change.
GivenInv ==
  /\ imports \in [Paths -> SUBSET Paths]
  /\ exists \subseteq Paths /\ sources \subseteq exists /\ 1 \in sources
  /\ tool \in {"peac", "pealist"}

HeapInv ==
  /\ heap \in Seq(ModType)
  /\ \A m \in Objects : Deps(m) \subseteq Objects

\* Every object has the path of a module that exists and is reached from a root.
RootedInv ==
  /\ mods \subseteq Objects /\ RootPaths \subseteq Start
  /\ \A m \in Objects : Path(m) \in exists
  /\ \A C \in SUBSET Paths :
       Closed(C) /\ RootPaths \subseteq C => \A m \in Objects : Path(m) \in C

\* The dependencies of an object are imports of it, and once addDeps is through with
\* it, they are all of them and its files could be read.
ImportsInv ==
  /\ \A m \in Objects : DepPaths(m) \subseteq imports[Path(m)]
  /\ \A m \in Objects : DepPaths(m) = imports[Path(m)] \/ Loading(m)
  /\ \A m \in Objects : Path(m) \notin broken \/ Loading(m)

\* The maps lead to objects of their path.
MapIs(f) ==
  /\ f \in [Paths -> Nat]
  /\ \A p \in Paths : f[p] # 0 => f[p] \in Objects /\ Path(f[p]) = p

MapsInv == MapIs(loaded) /\ MapIs(seen)

\* The objects that stand for their paths depend on such objects only, but for those
\* that pealist still works on; the modules that it is loading are not among them, but
\* for the root.
SettledInv ==
  /\ \A m \in mods : IsKnown(m)
  /\ \A m \in Objects : IsKnown(m) => Seeing(m) \/ \A d \in Deps(m) : IsKnown(d)
  /\ pc = "load" /\ tool = "pealist" => \A i \in 2..Len(path) : ~ IsKnown(path[i])

DirsInv ==
  /\ dirs \in Seq(sources)
  /\ tool = "pealist" => \A p \in sources : p \in ToSet(dirs) \/ seen[p] # 0
  /\ tool = "peac" =>
       /\ seen = NoMods
       /\ \/ pc = "walk" /\ dirs = <<1>> /\ mods = {}
          \/ dirs = <<>> /\ RootPaths = {1}

\* What the variables hold in a phase that does not use them.
PhaseInv ==
  /\ pc \in {"walk", "load", "see", "sort", "list", "link", "done", "died"}
  /\ path \in Seq(Nat) /\ ToSet(path) \subseteq Objects
  /\ pc \in {"load", "see", "link"} => path # <<>>
  /\ pc \in {"walk", "list", "done"} => path = <<>>
  /\ pc = "see" => tool = "pealist"
  /\ pc = "link" => tool = "peac"
  /\ pc \notin {"sort", "list"} => sorted = <<>>
  /\ pc \notin {"list", "link", "done"} => order = <<>>
  /\ pc \notin {"walk", "load", "see", "died"} => dirs = <<>>

Always ==
  GivenInv /\ HeapInv /\ RootedInv /\ ImportsInv /\ MapsInv /\ SettledInv /\ DirsInv /\ PhaseInv

-----------------------------------------------------------------------------
(* ... and in the later phases *)

\* The paths that are reached from the imports of a module.
Leads(p) == Reach(imports[p])

Added == ToSet(sorted) \cup ToSet(path)

\* No element occurs twice.
Distinct(s) == \A i, j \in 1..Len(s) : s[i] = s[j] => i = j

\* The calls in progress, each for a dependency of the module before.
Chain == \A i, j \in 1..Len(path) : i < j => Path(path[j]) \in Leads(Path(path[i]))

\* The modules that are sorted come after their dependencies.
PostOrder ==
  Acyclic => \A i \in 1..Len(sorted) : \A d \in Deps(sorted[i]) :
    \E j \in 1..Len(sorted) : j < i /\ sorted[j] = d

\* sorted is a post-order of what was added, path a chain of dependencies.
SortInv ==
  /\ sorted \in Seq(Nat) /\ Added \subseteq Objects
  /\ \A m \in Added : IsKnown(m)
  /\ Distinct(path) /\ Distinct(sorted) /\ ToSet(sorted) \cap ToSet(path) = {}
  /\ \A m \in ToSet(sorted) : Deps(m) \subseteq Added
  /\ Chain /\ PostOrder

\* The paths that have yet to be listed.
PathsLeft == {Path(m) : m \in ToSet(sorted)}

\* The paths that are listed come after those of their imports, and so will the others.
OrderedPaths ==
  Acyclic => \A i \in 1..Len(order) : \A d \in imports[order[i]] \cap Listed :
    \E j \in 1..Len(order) : j < i /\ order[j] = d

OrderedLeft ==
  Acyclic => \A i \in 1..Len(sorted) : \A d \in imports[Path(sorted[i])] \cap Listed :
    d \in ToSet(order) \/ \E j \in 1..Len(sorted) : j < i /\ Path(sorted[j]) = d

\* order and what is left of sorted.
ListInv ==
  /\ sorted \in Seq(Nat) /\ ToSet(sorted) \subseteq Objects
  /\ order \in Seq(Paths) /\ Distinct(order)
  /\ ToSet(order) \cup (PathsLeft \cap Listed) = Needed \cap Listed
  /\ ToSet(order) \cap PathsLeft = {}
  /\ \A i, j \in 1..Len(sorted) : Path(sorted[i]) = Path(sorted[j]) => i = j
  /\ OrderedPaths /\ OrderedLeft
  /\ Needed \subseteq exists \ broken

\* links has the root and what it depends on, but for the modules of calls in progress.
LinkInv ==
  /\ links \in Seq(Nat) /\ ToSet(links) \subseteq Objects
  /\ links # <<>> /\ Path(links[1]) = 1
  /\ \A m \in ToSet(links) : IsKnown(m)
  /\ Distinct(links)
  /\ ToSet(path) \subseteq ToSet(links)
  /\ \A m \in ToSet(links) : Deps(m) \subseteq ToSet(links) \/ m \in ToSet(path)

IInv ==
  /\ Always
  /\ pc = "sort" => SortInv
  /\ pc \in {"list", "link", "done"} => ListInv
  /\ pc \in {"link", "done"} /\ tool = "peac" => LinkInv
  /\ pc = "died" => ~ Needed \subseteq exists \ broken

-----------------------------------------------------------------------------
(* Sequences *)

LEMMA ToSetEmpty == ToSet(<<>>) = {}
BY DEF ToSet

LEMMA ToSetOne ==
  ASSUME NEW x
  PROVE  ToSet(<<x>>) = {x}
BY DEF ToSet

LEMMA ElementsOf ==
  ASSUME NEW S, NEW s \in Seq(S)
  PROVE  /\ \A i \in 1..Len(s) : s[i] \in ToSet(s)
         /\ \A x \in ToSet(s) : \E i \in 1..Len(s) : s[i] = x
         /\ ToSet(s) \subseteq S
BY DEF ToSet

LEMMA ToSetAppend ==
  ASSUME NEW S, NEW s \in Seq(S), NEW x \in S
  PROVE  ToSet(Append(s, x)) = ToSet(s) \cup {x}
<1>1. /\ Append(s, x) \in Seq(S) /\ Len(Append(s, x)) = Len(s) + 1
      /\ \A i \in 1..Len(s) : Append(s, x)[i] = s[i]
      /\ Append(s, x)[Len(s) + 1] = x /\ Len(s) \in Nat
  OBVIOUS
<1> DEFINE t == Append(s, x)
<1>2. PICK u : u = t
  OBVIOUS
<1>3. /\ u \in Seq(S) /\ Len(u) = Len(s) + 1 /\ Len(s) \in Nat
      /\ \A i \in 1..Len(s) : u[i] = s[i]
      /\ u[Len(s) + 1] = x
  BY <1>1, <1>2
<1> HIDE DEF t
<1>4. ToSet(u) \subseteq ToSet(s) \cup {x}
  <2> SUFFICES ASSUME NEW y \in ToSet(u) PROVE y \in ToSet(s) \cup {x}
    OBVIOUS
  <2>1. PICK i \in 1..Len(u) : u[i] = y
    BY <1>3, ElementsOf
  <2>2. i \in 1..Len(s) \/ i = Len(s) + 1
    BY <1>3, <2>1
  <2> QED
    BY <1>3, <2>1, <2>2, ElementsOf
<1>5. ToSet(s) \cup {x} \subseteq ToSet(u)
  <2>1. x \in ToSet(u)
    <3>1. Len(s) + 1 \in 1..Len(u)
      BY <1>3
    <3> QED
      BY <1>3, <3>1, ElementsOf
  <2>2. ASSUME NEW y \in ToSet(s) PROVE y \in ToSet(u)
    <3>1. PICK i \in 1..Len(s) : s[i] = y
      BY ElementsOf
    <3>2. i \in 1..Len(u)
      BY <1>3, <3>1
    <3> QED
      BY <1>3, <3>1, <3>2, ElementsOf
  <2> QED
    BY <2>1, <2>2
<1> QED
  BY <1>2, <1>4, <1>5 DEF t

\* The calls that remain when the innermost returns.
LEMMA FrontOf ==
  ASSUME NEW S, NEW s \in Seq(S), s # <<>>
  PROVE  /\ Front(s) \in Seq(S) /\ Len(Front(s)) = Len(s) - 1
         /\ Len(s) \in Nat \ {0} /\ s[Len(s)] \in ToSet(s)
         /\ \A i \in 1..Len(s) - 1 : Front(s)[i] = s[i]
         /\ ToSet(s) = ToSet(Front(s)) \cup {s[Len(s)]}
<1>1. Len(s) \in Nat \ {0}
  OBVIOUS
<1>2. PICK f : f = Front(s)
  OBVIOUS
<1>3. /\ f \in Seq(S) /\ Len(f) = Len(s) - 1
      /\ \A i \in 1..Len(s) - 1 : f[i] = s[i]
  <2>1. f = SubSeq(s, 1, Len(s) - 1)
    BY <1>2 DEF Front
  <2>2. /\ 1 \in Int /\ Len(s) - 1 \in Int
        /\ \A i \in 1..(Len(s) - 1) : s[i] \in S
    BY <1>1, ElementOfSeq
  <2>3. /\ f \in Seq(S)
        /\ Len(f) = IF 1 <= Len(s) - 1 THEN Len(s) - 1 - 1 + 1 ELSE 0
        /\ \A i \in 1..(Len(s) - 1) - 1 + 1 : f[i] = s[1 + i - 1]
    BY <2>1, <2>2, SubSeqProperties
  <2>4. ASSUME NEW i \in 1..Len(s) - 1 PROVE f[i] = s[i]
    BY <1>1, <2>3
  <2>5. \A n \in Nat \ {0} : (1 <= n - 1 /\ n - 1 - 1 + 1 = n - 1) \/ (~ (1 <= n - 1) /\ 0 = n - 1)
    OBVIOUS
  <2>6. Len(f) = Len(s) - 1
    BY <1>1, <2>3, <2>5
  <2> QED
    BY <2>3, <2>4, <2>6
<1>4. ToSet(f) \cup {s[Len(s)]} \subseteq ToSet(s)
  <2>1. s[Len(s)] \in ToSet(s)
    BY <1>1, ElementsOf
  <2>2. ASSUME NEW y \in ToSet(f) PROVE y \in ToSet(s)
    <3>1. PICK i \in 1..Len(f) : f[i] = y
      BY <1>3, ElementsOf
    <3>2. i \in 1..Len(s) /\ i \in 1..Len(s) - 1
      BY <1>1, <1>3, <3>1
    <3> QED
      BY <1>3, <3>1, <3>2, ElementsOf
  <2> QED
    BY <2>1, <2>2
<1>5. ASSUME NEW y \in ToSet(s) PROVE y \in ToSet(f) \cup {s[Len(s)]}
  <2>1. PICK i \in 1..Len(s) : s[i] = y
    BY ElementsOf
  <2>2. i = Len(s) \/ (i \in 1..Len(s) - 1 /\ i \in 1..Len(f))
    BY <1>1, <1>3, <2>1
  <2> QED
    BY <1>3, <2>1, <2>2, ElementsOf
<1> QED
  BY <1>1, <1>2, <1>3, <1>4, <1>5

LEMMA TailOf ==
  ASSUME NEW S, NEW s \in Seq(S), s # <<>>
  PROVE  /\ Tail(s) \in Seq(S) /\ Len(Tail(s)) = Len(s) - 1
         /\ Len(s) \in Nat \ {0} /\ Head(s) = s[1]
         /\ \A i \in 1..Len(s) - 1 : Tail(s)[i] = s[i + 1]
         /\ ToSet(s) = ToSet(Tail(s)) \cup {Head(s)}
<1>1. Len(s) \in Nat \ {0} /\ Head(s) = s[1]
  OBVIOUS
<1>2. PICK f : f = Tail(s)
  OBVIOUS
<1>3. /\ f \in Seq(S) /\ Len(f) = Len(s) - 1
      /\ \A i \in 1..Len(s) - 1 : f[i] = s[i + 1]
  BY <1>1, <1>2, HeadTailProperties
<1>4. ToSet(f) \cup {s[1]} \subseteq ToSet(s)
  <2>1. s[1] \in ToSet(s)
    BY <1>1, ElementsOf
  <2>2. ASSUME NEW y \in ToSet(f) PROVE y \in ToSet(s)
    <3>1. PICK i \in 1..Len(f) : f[i] = y
      BY <1>3, ElementsOf
    <3>2. i + 1 \in 1..Len(s) /\ i \in 1..Len(s) - 1
      BY <1>1, <1>3, <3>1
    <3> QED
      BY <1>3, <3>1, <3>2, ElementsOf
  <2> QED
    BY <2>1, <2>2
<1>5. ASSUME NEW y \in ToSet(s) PROVE y \in ToSet(f) \cup {s[1]}
  <2>1. PICK i \in 1..Len(s) : s[i] = y
    BY ElementsOf
  <2>2. i = 1 \/ (i - 1 \in 1..Len(s) - 1 /\ i - 1 \in 1..Len(f) /\ (i - 1) + 1 = i)
    BY <1>1, <1>3, <2>1
  <2>3. CASE i = 1
    BY <2>1, <2>3
  <2>4. CASE i # 1
    <3>1. f[i - 1] = y
      BY <1>3, <2>1, <2>2, <2>4
    <3> QED
      BY <1>3, <2>2, <2>4, <3>1, ElementsOf
  <2> QED
    BY <2>3, <2>4
<1> QED
  BY <1>1, <1>2, <1>3, <1>4, <1>5

-----------------------------------------------------------------------------
(* What is reached through imports *)

\* Reach(P) has P and is closed.
LEMMA ReachClosed ==
  ASSUME imports \in [Paths -> SUBSET Paths], NEW P \in SUBSET Paths
  PROVE  P \subseteq Reach(P) /\ Closed(Reach(P)) /\ Reach(P) \in SUBSET Paths
<1>1. P \subseteq Reach(P) /\ Reach(P) \in SUBSET Paths
  BY DEF Reach
<1>2. ASSUME NEW p \in Reach(P), NEW q \in imports[p]
      PROVE  q \in Reach(P)
  <2>1. p \in Paths /\ q \in Paths
    BY <1>1
  <2>2. ASSUME NEW C \in SUBSET Paths, P \subseteq C, Closed(C)
        PROVE  q \in C
    <3>1. p \in C
      BY <2>2 DEF Reach
    <3> QED
      BY <2>2, <3>1 DEF Closed
  <2> QED
    BY <2>1, <2>2 DEF Reach
<1> QED
  BY <1>1, <1>2 DEF Closed

\* It is the least such set.
LEMMA ReachLeast ==
  ASSUME NEW P, NEW C \in SUBSET Paths, P \subseteq C, Closed(C)
  PROVE  Reach(P) \subseteq C
BY DEF Reach

\* The imports do not change, nor does what they lead to.
LEMMA ReachKeep ==
  ASSUME imports' = imports
  PROVE  /\ \A C : Closed(C)' = Closed(C)
         /\ \A p : Leads(p)' = Leads(p)
         /\ Acyclic' = Acyclic
<1>1. \A C : Closed(C)' = Closed(C)
  BY DEF Closed
<1>2. \A p : Leads(p)' = Leads(p)
  BY DEF Leads, Reach, Closed
<1>3. Acyclic' = Acyclic
  BY DEF Acyclic, Reach, Closed
<1> QED
  BY <1>1, <1>2, <1>3

LEMMA NeededKeep ==
  ASSUME given' = given
  PROVE  Needed' = Needed /\ Listed' = Listed /\ Start' = Start
<1>1. imports' = imports /\ broken' = broken /\ tool' = tool /\ sources' = sources
  BY DEF given
<1> QED
  BY <1>1 DEF Needed, Listed, Start, Reach, Closed

\* What a module leads to, its imports lead to or are.
LEMMA LeadsOn ==
  ASSUME imports \in [Paths -> SUBSET Paths], NEW p \in Paths
  PROVE  /\ imports[p] \subseteq Leads(p) /\ Leads(p) \subseteq Paths
         /\ \A q \in Leads(p) : imports[q] \subseteq Leads(p) /\ Leads(q) \subseteq Leads(p)
<1>1. imports[p] \in SUBSET Paths
  OBVIOUS
<1>2. imports[p] \subseteq Leads(p) /\ Closed(Leads(p)) /\ Leads(p) \in SUBSET Paths
  BY <1>1, ReachClosed DEF Leads
<1>3. ASSUME NEW q \in Leads(p)
      PROVE  imports[q] \subseteq Leads(p) /\ Leads(q) \subseteq Leads(p)
  <2>1. imports[q] \subseteq Leads(p)
    BY <1>2 DEF Closed
  <2> QED
    BY <1>2, <2>1, ReachLeast DEF Leads
<1> QED
  BY <1>2, <1>3

-----------------------------------------------------------------------------
(* The heap *)

LEMMA LeastOf ==
  ASSUME NEW S \in SUBSET Nat, S # {}
  PROVE  Least(S) \in S
BY SmallestOf DEF Least

\* What is known of an object.
LEMMA ObjectIs ==
  ASSUME HeapInv, NEW m \in Objects
  PROVE  /\ heap[m] \in ModType /\ Path(m) \in Paths
         /\ heap[m].deps \in Seq(Nat) /\ Len(heap) \in Nat
         /\ \A i \in 1..Len(heap[m].deps) : Dep(m, i) \in Deps(m)
         /\ DOMAIN heap[m].deps = 1..Len(heap[m].deps)
<1>1. heap[m] \in ModType /\ Len(heap) \in Nat
  BY DEF HeapInv, Objects
<1>2. heap[m].deps \in Seq(Nat) /\ Path(m) \in Paths
  BY <1>1 DEF ModType, Path
<1> QED
  BY <1>1, <1>2, ElementsOf DEF Deps, Dep

\* g is h, where the object t has one more dependency.
HasDep(g, h, t, d) ==
  /\ g \in Seq(ModType) /\ Len(g) = Len(h)
  /\ \A o \in 1..Len(h) : g[o].path = h[o].path /\ (o # t => g[o].deps = h[o].deps)
  /\ g[t].deps = Append(h[t].deps, d)
  /\ ToSet(g[t].deps) = ToSet(h[t].deps) \cup {d}

\* A dependency is appended.
LEMMA DepAppended ==
  ASSUME NEW h \in Seq(ModType), NEW t \in 1..Len(h), NEW d \in Nat
  PROVE  HasDep([h EXCEPT ![t].deps = Append(@, d)], h, t, d)
<1> PICK g : g = [h EXCEPT ![t].deps = Append(@, d)]
  OBVIOUS
<1>1. h[t] \in ModType /\ h[t].path \in Paths /\ h[t].deps \in Seq(Nat)
  <2>1. h[t] \in ModType
    OBVIOUS
  <2> QED
    BY <2>1 DEF ModType
<1>2. PICK e : e = Append(h[t].deps, d)
  OBVIOUS
<1>3. e \in Seq(Nat)
  BY <1>1, <1>2, AppendProperties
<1>4. PICK r : r = [h[t] EXCEPT !.deps = e]
  OBVIOUS
<1>5. r \in ModType /\ r.path = h[t].path /\ r.deps = e
  BY <1>1, <1>3, <1>4 DEF ModType
<1>6. g = [h EXCEPT ![t] = r]
  BY <1>2, <1>4
<1>7. g \in Seq(ModType) /\ Len(g) = Len(h)
  <2>1. r \in ModType
    BY <1>5
  <2> QED
    BY <1>6, <2>1
<1>8. g[t] = r /\ \A o \in 1..Len(h) : o # t => g[o] = h[o]
  BY <1>6
<1>9. ToSet(e) = ToSet(h[t].deps) \cup {d}
  <2>1. ToSet(Append(h[t].deps, d)) = ToSet(h[t].deps) \cup {d}
    BY <1>1, ToSetAppend
  <2> QED
    BY <1>2, <2>1
<1> QED
  BY <1>2, <1>5, <1>7, <1>8, <1>9 DEF HasDep

\* g is h and then an object for path p, without dependencies as yet.
IsAppended(g, h, p) ==
  /\ g \in Seq(ModType) /\ Len(g) = Len(h) + 1 /\ Len(h) \in Nat
  /\ \A o \in 1..Len(h) : g[o] = h[o]
  /\ g[Len(h) + 1].path = p /\ ToSet(g[Len(h) + 1].deps) = {}

\* A module is loaded.
LEMMA ModAppended ==
  ASSUME NEW h \in Seq(ModType), NEW p \in Paths
  PROVE  IsAppended(Append(h, Mod(p)), h, p)
<1> DEFINE g == Append(h, Mod(p))
<1>1. PICK r : r = Mod(p)
  OBVIOUS
<1>2. r \in ModType /\ r.path = p /\ r.deps = <<>>
  BY <1>1 DEF Mod, ModType
<1>3. /\ g \in Seq(ModType) /\ Len(g) = Len(h) + 1 /\ Len(h) \in Nat
      /\ \A o \in 1..Len(h) : g[o] = h[o]
      /\ g[Len(h) + 1] = r
  BY <1>1, <1>2
<1> QED
  BY <1>2, <1>3, ToSetEmpty DEF IsAppended

-----------------------------------------------------------------------------
(* The start *)

\* A sequence of all elements of a set has them all.
LEMMA SeqOfAll ==
  ASSUME NEW S, IsFiniteSet(S), NEW s \in SetToSeqs(S)
  PROVE  s \in Seq(S) /\ ToSet(s) = S
<1> DEFINE D == 1..Cardinality(S)
<1>1. Cardinality(S) \in Nat
  BY FS_CardinalityType
<1>2. s \in [D -> S] /\ \A i, j \in D : i # j => s[i] # s[j]
  BY DEF SetToSeqs
<1>3. ASSUME NEW x \in S, \A i \in D : s[i] # x PROVE FALSE
  <2>1. s \in [D -> S \ {x}]
    BY <1>2, <1>3
  <2>2. IsFiniteSet(S \ {x}) /\ Cardinality(S \ {x}) = Cardinality(S) - 1
    BY FS_RemoveElement
  <2>3. IsFiniteSet(D) /\ Cardinality(D) = Cardinality(S)
    <3>1. /\ IsFiniteSet(D)
          /\ Cardinality(D) = IF 1 > Cardinality(S) THEN 0 ELSE Cardinality(S) - 1 + 1
      BY <1>1, FS_Interval
    <3> QED
      BY <1>1, <3>1
  <2>4. Cardinality(S \ {x}) < Cardinality(D)
    BY <1>1, <2>2, <2>3
  <2>5. \E i, j \in D : i # j /\ s[i] = s[j]
    <3> HIDE DEF D
    <3> QED
      BY <2>1, <2>2, <2>3, <2>4, FS_PigeonHole
  <2> QED
    BY <1>2, <2>5
<1>4. s \in Seq(S) /\ DOMAIN s = D
  BY <1>1, <1>2
<1>5. ToSet(s) = S
  BY <1>2, <1>3, <1>4 DEF ToSet
<1> QED
  BY <1>4, <1>5

LEMMA InitInv == Init => IInv
<1> SUFFICES ASSUME Init PROVE IInv
  OBVIOUS
<1>1. /\ pc = "walk" /\ heap = <<>> /\ loaded = NoMods /\ seen = NoMods /\ mods = {}
      /\ path = <<>> /\ sorted = <<>> /\ order = <<>>
  BY DEF Init
<1>2. GivenInv
  <2>1. PathsFor(tool) \subseteq Paths /\ tool \in {"peac", "pealist"}
    BY NumPathsAssumption, ToolsAssumption DEF Init, PathsFor, Paths
  <2> QED
    BY <2>1 DEF Init, GivenInv
<1>3. Objects = {} /\ ToSet(path) = {} /\ path \in Seq(Nat) /\ RootPaths = {}
  BY <1>1, ToSetEmpty DEF Objects, RootPaths
<1>4. HeapInv /\ RootedInv /\ ImportsInv
  BY <1>1, <1>3 DEF HeapInv, RootedInv, ImportsInv
<1>5. MapsInv
  BY <1>1 DEF MapsInv, MapIs, NoMods
<1>6. SettledInv
  BY <1>1, <1>3 DEF SettledInv
<1>7. IsFiniteSet(sources)
  <2>1. IsFiniteSet(1..NumPaths)
    BY NumPathsAssumption, FS_Interval
  <2> QED
    BY <1>2, <2>1, FS_Subset DEF GivenInv, Paths
<1>8. DirsInv
  <2>1. CASE tool = "peac"
    <3>1. dirs = <<1>>
      BY <2>1 DEF Init
    <3>2. dirs \in Seq(sources)
      BY <1>2, <3>1 DEF GivenInv
    <3> QED
      BY <1>1, <2>1, <3>1, <3>2 DEF DirsInv
  <2>2. CASE tool = "pealist"
    <3>1. dirs \in SetToSeqs(sources)
      BY <2>2 DEF Init
    <3>2. dirs \in Seq(sources) /\ ToSet(dirs) = sources
      BY <1>7, <3>1, SeqOfAll
    <3> QED
      BY <2>2, <3>2 DEF DirsInv
  <2> QED
    BY <1>2, <2>1, <2>2 DEF GivenInv
<1>9. PhaseInv
  BY <1>1, <1>3 DEF PhaseInv
<1> QED
  BY <1>1, <1>2, <1>4, <1>5, <1>6, <1>8, <1>9 DEF IInv, Always

-----------------------------------------------------------------------------
(* The later phases: nothing is loaded any more *)

Late == {"sort", "list", "link", "done"}

HeapFrame == UNCHANGED <<given, heap, loaded, seen, mods>>
LateFrame == UNCHANGED <<given, dirs, heap, loaded, seen, mods>>

\* The heap says what it said.
LEMMA HeapNames ==
  ASSUME HeapFrame
  PROVE  /\ Objects' = Objects /\ RootPaths' = RootPaths /\ Needed' = Needed
         /\ Start' = Start /\ Listed' = Listed /\ Acyclic' = Acyclic
         /\ \A m : Path(m)' = Path(m) /\ Deps(m)' = Deps(m) /\ IsKnown(m)' = IsKnown(m)
         /\ \A m : DepPaths(m)' = DepPaths(m)
         /\ \A p : Leads(p)' = Leads(p)
         /\ \A C : Closed(C)' = Closed(C)
<1>1. /\ given' = given /\ imports' = imports /\ broken' = broken /\ heap' = heap /\ mods' = mods
      /\ tool' = tool /\ loaded' = loaded /\ seen' = seen
  BY DEF HeapFrame, given
<1>2. Objects' = Objects /\ RootPaths' = RootPaths
  BY <1>1 DEF Objects, RootPaths, Path
<1>3. \A m : Path(m)' = Path(m) /\ Deps(m)' = Deps(m) /\ IsKnown(m)' = IsKnown(m)
  BY <1>1 DEF Path, Deps, IsKnown, Known
<1>4. \A m : DepPaths(m)' = DepPaths(m)
  BY <1>1 DEF Path, Deps, DepPaths
<1> QED
  BY <1>1, <1>2, <1>3, <1>4, ReachKeep, NeededKeep

LEMMA NamesKeep ==
  ASSUME LateFrame
  PROVE  /\ Objects' = Objects /\ RootPaths' = RootPaths /\ Needed' = Needed
         /\ Start' = Start /\ Listed' = Listed /\ Acyclic' = Acyclic
         /\ \A m : Path(m)' = Path(m) /\ Deps(m)' = Deps(m) /\ IsKnown(m)' = IsKnown(m)
         /\ \A m : DepPaths(m)' = DepPaths(m)
         /\ \A p : Leads(p)' = Leads(p)
         /\ \A C : Closed(C)' = Closed(C)
BY HeapNames DEF HeapFrame, LateFrame

\* What is said of the heap and the maps alone is still true.
LEMMA HeapKeep ==
  ASSUME Always, HeapFrame
  PROVE  GivenInv' /\ HeapInv' /\ RootedInv' /\ MapsInv'
<1>1. /\ given' = given /\ imports' = imports /\ broken' = broken /\ heap' = heap /\ mods' = mods
      /\ tool' = tool /\ loaded' = loaded /\ seen' = seen /\ exists' = exists /\ sources' = sources
  BY DEF HeapFrame, given
<1>2. GivenInv'
  BY <1>1 DEF Always, GivenInv
<1>3. HeapInv'
  BY <1>1, HeapNames DEF Always, HeapInv
<1>4. MapsInv'
  BY <1>1, HeapNames DEF Always, MapsInv, MapIs
<1>5. RootedInv'
  BY <1>1, HeapNames DEF Always, RootedInv
<1> QED
  BY <1>2, <1>3, <1>4, <1>5

LEMMA LateKeep ==
  ASSUME Always, LateFrame, pc \in Late \cup {"walk"}, pc' \in Late, dirs = <<>>
  PROVE  /\ GivenInv' /\ HeapInv' /\ RootedInv' /\ ImportsInv' /\ MapsInv' /\ SettledInv'
         /\ DirsInv'
<1>1. /\ given' = given /\ imports' = imports /\ broken' = broken /\ heap' = heap /\ mods' = mods /\ dirs' = dirs
      /\ tool' = tool /\ loaded' = loaded /\ seen' = seen /\ sources' = sources
  BY DEF LateFrame, given
<1>2. GivenInv' /\ HeapInv' /\ RootedInv' /\ MapsInv'
  BY HeapKeep DEF LateFrame, HeapFrame
<1>3. ImportsInv'
  <2>1. \A m : ~ Loading(m)
    BY DEF Loading, Late
  <2> QED
    BY <1>1, <2>1, NamesKeep DEF Always, ImportsInv
<1>4. SettledInv'
  <2>1. \A m : ~ Seeing(m)
    BY DEF Seeing, Late
  <2>2. pc' # "load"
    BY DEF Late
  <2> QED
    BY <1>1, <2>1, <2>2, NamesKeep DEF Always, SettledInv
<1>5. DirsInv'
  <2>1. dirs # <<1>>
    OBVIOUS
  <2>2. NoMods' = NoMods
    BY DEF NoMods
  <2> QED
    BY <1>1, <2>1, <2>2, NamesKeep DEF Always, DirsInv
<1> QED
  BY <1>2, <1>3, <1>4, <1>5

\* All is loaded and settled.
LEMMA LateFacts ==
  ASSUME Always, pc \in Late
  PROVE  /\ \A m \in Objects : Deps(m) \subseteq Objects /\ DepPaths(m) = imports[Path(m)]
         /\ \A m \in Objects : IsKnown(m) => \A d \in Deps(m) : IsKnown(d)
         /\ \A m \in mods : m \in Objects /\ IsKnown(m)
         /\ \A m \in Objects : Path(m) \in Paths /\ Path(m) \in exists \ broken
<1>1. \A m : ~ Seeing(m) /\ ~ Loading(m)
  BY DEF Seeing, Loading, Late
<1>2. \A m \in Objects : Path(m) \in Paths
  BY ObjectIs DEF Always
<1> QED
  BY <1>1, <1>2 DEF Always, HeapInv, RootedInv, ImportsInv, SettledInv

\* Objects that stand for their paths have different ones.
LEMMA KnownByPath ==
  ASSUME NEW m, NEW n, IsKnown(m), IsKnown(n), Path(m) = Path(n)
  PROVE  m = n
BY DEF IsKnown

\* The paths of all objects are needed.
LEMMA ObjectsNeeded ==
  ASSUME Always
  PROVE  Closed(Needed) /\ Needed \in SUBSET Paths /\ \A m \in Objects : Path(m) \in Needed
<1>1. Needed = Reach(Start)
  BY DEF Needed, Start
<1>2. Start \in SUBSET Paths
  BY NumPathsAssumption DEF Start, Always, GivenInv, Paths
<1>3. Start \subseteq Needed /\ Closed(Needed) /\ Needed \in SUBSET Paths
  BY <1>1, <1>2, ReachClosed DEF Always, GivenInv
<1>4. RootPaths \subseteq Needed
  BY <1>3 DEF Always, RootedInv
<1> QED
  BY <1>3, <1>4 DEF Always, RootedInv

\* A set of objects that has the roots and the dependencies of its members has an object
\* for each path that is needed, and none for others.
LEMMA ClosedHasNeeded ==
  ASSUME Always, pc \in Late, NEW S \in SUBSET Objects, \A m \in S : Deps(m) \subseteq S,
         NEW P, P = {Path(m) : m \in S}, RootPaths \subseteq P, dirs = <<>>
  PROVE  P = Needed
<1>1. P \in SUBSET Paths
  BY LateFacts
<1>2. Closed(P)
  <2>1. ASSUME NEW p \in P, NEW q \in imports[p] PROVE q \in P
    <3>1. PICK m \in S : Path(m) = p
      OBVIOUS
    <3>2. DepPaths(m) = imports[p]
      BY <3>1, LateFacts
    <3>3. PICK d \in Deps(m) : Path(d) = q
      BY <3>2 DEF DepPaths
    <3> QED
      BY <3>3
  <2> QED
    BY <2>1 DEF Closed
<1>3. Start \subseteq P
  <2>1. CASE tool = "peac"
    BY <2>1 DEF Start, Always, DirsInv, PhaseInv, Late
  <2>2. CASE tool = "pealist"
    <3>1. ASSUME NEW p \in sources PROVE p \in P
      <4>1. seen[p] # 0 /\ p \in Paths
        BY <2>2, ToSetEmpty DEF Always, DirsInv, GivenInv
      <4>2. seen[p] \in Objects /\ Path(seen[p]) = p
        BY <4>1 DEF Always, MapsInv, MapIs
      <4>3. Path(seen[p]) \in P
        BY <1>1, <1>2, <4>2 DEF Always, RootedInv
      <4> QED
        BY <4>2, <4>3
    <3> QED
      BY <2>2, <3>1 DEF Start
  <2> QED
    BY <2>1, <2>2 DEF Always, GivenInv
<1>4. Needed = Reach(Start)
  BY DEF Needed, Start
<1>5. Needed \subseteq P
  BY <1>1, <1>2, <1>3, <1>4, ReachLeast
<1>6. P \subseteq Needed
  BY ObjectsNeeded
<1> QED
  BY <1>5, <1>6

-----------------------------------------------------------------------------
(* TopologicalDeps *)

\* The phase of the sorting.
LEMMA SortFacts ==
  ASSUME IInv, pc = "sort"
  PROVE  Always /\ SortInv /\ pc \in Late /\ dirs = <<>> /\ order = <<>> /\ path \in Seq(Nat)
BY DEF IInv, Always, PhaseInv, Late

\* What a step of the sorting has to show.
LEMMA SortKeep ==
  ASSUME IInv, pc = "sort", LateFrame, pc' = "sort", UNCHANGED <<order, links>>,
         path' \in Seq(Nat), ToSet(path') \subseteq Objects, SortInv'
  PROVE  IInv'
<1>1. Always /\ pc \in Late /\ pc' \in Late /\ dirs = <<>> /\ order = <<>>
  BY SortFacts DEF Late
<1>2. GivenInv' /\ HeapInv' /\ RootedInv' /\ ImportsInv' /\ MapsInv' /\ SettledInv' /\ DirsInv'
  BY <1>1, LateKeep
<1>3. PhaseInv'
  <2>1. Objects' = Objects /\ dirs' = dirs /\ (ToSet(path))' = ToSet(path')
    BY NamesKeep DEF LateFrame
  <2> QED
    BY <1>1, <2>1 DEF PhaseInv
<1> QED
  BY <1>2, <1>3 DEF IInv, Always

LEMMA WalkEndStep == IInv /\ WalkEnd => IInv'
<1> SUFFICES ASSUME IInv, WalkEnd PROVE IInv'
  OBVIOUS
<1>1. /\ pc = "walk" /\ pc' = "sort" /\ dirs = <<>> /\ LateFrame /\ Always
      /\ path = <<>> /\ sorted = <<>> /\ order = <<>> /\ UNCHANGED <<path, sorted, order>>
  BY DEF IInv, WalkEnd, LateFrame, Always, PhaseInv
<1>2. GivenInv' /\ HeapInv' /\ RootedInv' /\ ImportsInv' /\ MapsInv' /\ SettledInv' /\ DirsInv'
  BY <1>1, LateKeep DEF Late
<1>3. Added' = {} /\ (ToSet(path))' = {} /\ (ToSet(sorted))' = {}
  BY <1>1, ToSetEmpty DEF Added
<1>4. PhaseInv'
  BY <1>1, <1>3 DEF PhaseInv, LateFrame
<1>5. SortInv'
  <2>1. (\A m \in Added : IsKnown(m))' /\ (\A m \in ToSet(sorted) : Deps(m) \subseteq Added)'
    BY <1>3
  <2>2. sorted' = <<>> /\ path' = <<>>
    BY <1>1
  <2>3. Chain' /\ PostOrder' /\ Distinct(path)' /\ Distinct(sorted)'
    BY <2>2 DEF Chain, PostOrder, Distinct
  <2>4. (Added \subseteq Objects)' /\ (ToSet(sorted) \cap ToSet(path) = {})' /\ sorted' \in Seq(Nat)
    BY <1>3, <2>2
  <2> QED
    BY <2>1, <2>3, <2>4 DEF SortInv
<1> QED
  BY <1>1, <1>2, <1>4, <1>5 DEF IInv, Always

\* A module is called for that was not added: a root, or a dependency of the module at
\* the end of the chain.
LEMMA SortCall ==
  ASSUME IInv, pc = "sort", LateFrame, UNCHANGED <<pc, sorted, order, links>>,
         NEW d \in Objects, IsKnown(d), d \notin Added, path' = Append(path, d),
         path # <<>> => d \in Deps(Top)
  PROVE  IInv'
<1>1. Always /\ SortInv /\ pc \in Late /\ path \in Seq(Nat) /\ d \in Nat
  BY SortFacts DEF Objects
<1>2. PICK n : n = Len(path)
  OBVIOUS
<1>3. /\ n \in Nat /\ path' \in Seq(Nat) /\ Len(path') = n + 1 /\ path'[n + 1] = d
      /\ \A i \in 1..n : path'[i] = path[i]
  BY <1>1, <1>2
<1>4. ToSet(path') = ToSet(path) \cup {d} /\ \A i \in 1..n : path[i] \in ToSet(path)
  BY <1>1, <1>2, ToSetAppend, ElementsOf
<1>5. (ToSet(path))' = ToSet(path') /\ Added' = Added \cup {d} /\ sorted' = sorted
  BY <1>4 DEF Added
<1>6. \A i \in 1..n : path[i] # d /\ path[i] \in Objects
  BY <1>1, <1>4 DEF Added, SortInv
<1>7. Distinct(path')
  <2>1. \A i, j \in 1..n : path[i] = path[j] => i = j
    BY <1>1, <1>2 DEF SortInv, Distinct
  <2>2. \A i \in 1..n + 1 : i \in 1..n \/ i = n + 1
    BY <1>3
  <2> QED
    BY <1>3, <1>6, <2>1, <2>2 DEF Distinct
<1>8. \A i \in 1..n : Path(d) \in Leads(Path(path[i]))
  <2> SUFFICES ASSUME NEW i \in 1..n PROVE Path(d) \in Leads(Path(path[i]))
    OBVIOUS
  <2>1. path # <<>> /\ n \in 1..n /\ Top = path[n]
    BY <1>2, <1>3 DEF Top
  <2>2. Top \in Objects /\ d \in Deps(Top) /\ path[i] \in Objects
    BY <1>6, <2>1
  <2>3. Path(d) \in imports[Path(Top)]
    BY <1>1, <2>2, LateFacts DEF DepPaths
  <2>4. imports \in [Paths -> SUBSET Paths] /\ Path(path[i]) \in Paths
    BY <1>1, <2>2, LateFacts DEF Always, GivenInv
  <2>5. CASE i = n
    BY <2>1, <2>3, <2>4, <2>5, LeadsOn
  <2>6. CASE i # n
    <3>1. i < n
      BY <2>1, <2>6, <1>3
    <3>2. Path(Top) \in Leads(Path(path[i]))
      BY <1>1, <1>2, <2>1, <3>1 DEF SortInv, Chain
    <3> QED
      BY <2>3, <2>4, <3>2, LeadsOn
  <2> QED
    BY <2>5, <2>6
<1>9. \A i, j \in 1..n + 1 : i < j => Path(path'[j]) \in Leads(Path(path'[i]))
  <2> SUFFICES ASSUME NEW i \in 1..n + 1, NEW j \in 1..n + 1, i < j
               PROVE  Path(path'[j]) \in Leads(Path(path'[i]))
    OBVIOUS
  <2>1. i \in 1..n /\ (j \in 1..n \/ j = n + 1)
    BY <1>3
  <2>2. CASE j \in 1..n
    BY <1>1, <1>2, <1>3, <2>1, <2>2 DEF SortInv, Chain
  <2>3. CASE j = n + 1
    BY <1>3, <1>8, <2>1, <2>3
  <2> QED
    BY <2>1, <2>2, <2>3
<1>10. SortInv'
  <2>1. /\ sorted' \in Seq(Nat) /\ Added' \subseteq Objects' /\ (\A m \in Added : IsKnown(m))'
        /\ Distinct(sorted)'
    BY <1>1, <1>5, NamesKeep DEF SortInv, Distinct
  <2>2. ToSet(sorted') \cap ToSet(path') = {}
    BY <1>1, <1>4, <1>5 DEF SortInv, Added
  <2>3. (\A m \in ToSet(sorted) : Deps(m) \subseteq Added)'
    BY <1>1, <1>5, NamesKeep DEF SortInv
  <2>4. Chain'
    <3>1. \A m : Path(m)' = Path(m) /\ Leads(m)' = Leads(m)
      BY NamesKeep
    <3>2. Len(path') = n + 1
      BY <1>3
    <3> QED
      BY <1>9, <3>1, <3>2 DEF Chain
  <2>5. PostOrder'
    <3>1. (\A m : Deps(m)' = Deps(m)) /\ Acyclic' = Acyclic /\ sorted' = sorted
      BY <1>5, NamesKeep
    <3>2. PostOrder
      BY <1>1 DEF SortInv
    <3> QED
      BY <3>1, <3>2 DEF PostOrder
  <2>6. Distinct(path)'
    BY <1>7 DEF Distinct
  <2> QED
    BY <2>1, <2>2, <2>3, <2>4, <2>5, <2>6 DEF SortInv
<1>11. ToSet(path') \subseteq Objects
  BY <1>1, <1>4 DEF SortInv, Added
<1> QED
  BY <1>3, <1>10, <1>11, SortKeep

\* A root that was not added.
LEMMA SortRootCalls ==
  ASSUME IInv, SortRoot
  PROVE  \E d \in Objects : IsKnown(d) /\ d \notin Added /\ path' = Append(path, d)
<1>1. Always /\ SortInv /\ pc = "sort" /\ pc \in Late /\ path = <<>>
  BY SortFacts DEF SortRoot
<1> DEFINE left == mods \ ToSet(sorted)
<1>2. PICK r : r = CHOOSE m \in left : \A x \in left : Path(m) <= Path(x)
  OBVIOUS
<1>3. path' = <<r>> /\ left # {}
  BY <1>2 DEF SortRoot
<1>4. \A m \in left : m \in Objects /\ Path(m) \in Nat /\ IsKnown(m)
  BY <1>1, LateFacts DEF Paths
<1>5. r \in left
  <2>1. {Path(m) : m \in left} \in SUBSET Nat /\ {Path(m) : m \in left} # {}
    BY <1>3, <1>4
  <2>2. \E p \in {Path(m) : m \in left} : \A q \in {Path(m) : m \in left} : p <= q
    BY <2>1, SmallestOf
  <2>3. \E m \in left : \A x \in left : Path(m) <= Path(x)
    BY <2>2
  <2> HIDE DEF left
  <2> QED
    BY <1>2, <2>3
<1>6. r \in Objects /\ IsKnown(r) /\ r \notin Added /\ path' = Append(path, r)
  BY <1>1, <1>3, <1>4, <1>5, ToSetEmpty DEF Added
<1> QED
  BY <1>6

LEMMA SortRootStep == IInv /\ SortRoot => IInv'
<1> SUFFICES ASSUME IInv, SortRoot PROVE IInv'
  OBVIOUS
<1>1. pc = "sort" /\ LateFrame /\ UNCHANGED <<pc, sorted, order, links>> /\ path = <<>>
  BY DEF SortRoot, LateFrame
<1> QED
  BY <1>1, SortRootCalls, SortCall

\* A dependency that was not added.
LEMMA SortDepCalls ==
  ASSUME IInv, SortDep
  PROVE  \E d \in Objects : /\ IsKnown(d) /\ d \notin Added /\ path' = Append(path, d)
                            /\ d \in Deps(Top)
<1>1. Always /\ SortInv /\ pc = "sort" /\ pc \in Late /\ path # <<>> /\ path \in Seq(Nat)
  BY SortFacts DEF SortDep
<1>2. PICK d : d = Dep(Top, Least(Unadded(Top)))
  OBVIOUS
<1>3. path' = Append(path, d)
  BY <1>2 DEF SortDep
<1>4. Top \in ToSet(path) /\ Top \in Objects /\ IsKnown(Top)
  BY <1>1, FrontOf DEF Top, SortInv, Added
<1>5. Unadded(Top) \in SUBSET Nat /\ Unadded(Top) # {}
  BY <1>1, <1>4, ObjectIs DEF SortDep, Unadded, Always
<1>6. Least(Unadded(Top)) \in Unadded(Top)
  BY <1>5, LeastOf
<1>7. d \in Deps(Top) /\ d \notin Added
  BY <1>1, <1>2, <1>4, <1>6, ObjectIs DEF Unadded, Always, Added
<1>8. d \in Objects /\ IsKnown(d)
  BY <1>1, <1>4, <1>7, LateFacts
<1> QED
  BY <1>3, <1>7, <1>8

LEMMA SortDepStep == IInv /\ SortDep => IInv'
<1> SUFFICES ASSUME IInv, SortDep PROVE IInv'
  OBVIOUS
<1>1. pc = "sort" /\ LateFrame /\ UNCHANGED <<pc, sorted, order, links>>
  BY DEF SortDep, LateFrame
<1> QED
  BY <1>1, SortDepCalls, SortCall

LEMMA SortReturnStep == IInv /\ SortReturn => IInv'
<1> SUFFICES ASSUME IInv, SortReturn PROVE IInv'
  OBVIOUS
<1>1. /\ Always /\ SortInv /\ pc = "sort" /\ pc \in Late /\ path # <<>> /\ path \in Seq(Nat)
      /\ sorted \in Seq(Nat)
  BY SortFacts DEF SortReturn, SortInv
<1>2. PICK t : t = Top
  OBVIOUS
<1>3. PICK n : n = Len(path) - 1
  OBVIOUS
<1>4. PICK k : k = Len(sorted)
  OBVIOUS
<1>5. /\ n \in Nat /\ path' \in Seq(Nat) /\ Len(path') = n /\ Len(path) = n + 1
      /\ \A i \in 1..n : path'[i] = path[i]
      /\ ToSet(path) = ToSet(path') \cup {t} /\ t = path[n + 1] /\ t \in ToSet(path)
  <2>1. path' = Front(path) /\ t = path[Len(path)]
    BY <1>2 DEF SortReturn, Top
  <2>2. /\ path' \in Seq(Nat) /\ Len(path') = Len(path) - 1 /\ Len(path) \in Nat \ {0}
        /\ \A i \in 1..Len(path) - 1 : path'[i] = path[i]
        /\ ToSet(path) = ToSet(path') \cup {t} /\ t \in ToSet(path)
    BY <1>1, <2>1, FrontOf
  <2>3. n \in Nat /\ Len(path) = n + 1
    BY <1>3, <2>2
  <2> QED
    BY <1>3, <2>1, <2>2, <2>3
<1>6. t \in Objects /\ IsKnown(t) /\ t \in Nat
  BY <1>1, <1>5 DEF SortInv, Added, Objects
<1>7. /\ k \in Nat /\ sorted' \in Seq(Nat) /\ Len(sorted') = k + 1 /\ sorted'[k + 1] = t
      /\ \A i \in 1..k : sorted'[i] = sorted[i] /\ sorted[i] \in ToSet(sorted)
      /\ ToSet(sorted') = ToSet(sorted) \cup {t}
  <2>1. sorted' = Append(sorted, t)
    BY <1>2 DEF SortReturn, AddSorted
  <2>2. \A i \in 1..k : sorted[i] \in ToSet(sorted)
    BY <1>1, <1>4, ElementsOf
  <2>3. ToSet(sorted') = ToSet(sorted) \cup {t}
    BY <1>1, <1>6, <2>1, ToSetAppend
  <2>4. /\ k \in Nat /\ sorted' \in Seq(Nat) /\ Len(sorted') = k + 1 /\ sorted'[k + 1] = t
        /\ \A i \in 1..k : sorted'[i] = sorted[i]
    BY <1>1, <1>4, <1>6, <2>1
  <2> QED
    BY <2>2, <2>3, <2>4
<1>8. LateFrame /\ pc' = "sort" /\ UNCHANGED <<order, links>>
  BY <1>1 DEF SortReturn, LateFrame
<1>9. Added' = Added
  BY <1>5, <1>7 DEF Added
<1>10. Deps(t) \subseteq Added
  <2>1. ASSUME NEW d \in Deps(t) PROVE d \in Added
    <3>1. PICK i \in DOMAIN heap[t].deps : Dep(t, i) = d
      BY DEF Deps, Dep, ToSet
    <3>2. Unadded(t) = {}
      BY <1>2 DEF SortReturn
    <3> QED
      BY <3>1, <3>2 DEF Unadded, Added
  <2> QED
    BY <2>1
<1>11. Distinct(path)'
  BY <1>1, <1>5 DEF SortInv, Distinct
<1>12. t \notin ToSet(path')
  <2>1. ASSUME t \in ToSet(path') PROVE FALSE
    <3>1. PICK i \in 1..n : path'[i] = t
      BY <1>5, <2>1, ElementsOf
    <3>2. i \in 1..Len(path) /\ n + 1 \in 1..Len(path) /\ i # n + 1 /\ path[i] = path[n + 1]
      BY <1>5, <3>1
    <3> QED
      BY <1>1, <3>2 DEF SortInv, Distinct
  <2> QED
    BY <2>1
<1>13. t \notin ToSet(sorted)
  BY <1>1, <1>5 DEF SortInv
<1>14. Distinct(sorted)'
  <2>1. \A i, j \in 1..k : sorted[i] = sorted[j] => i = j
    BY <1>1, <1>4 DEF SortInv, Distinct
  <2>2. \A i \in 1..k + 1 : i \in 1..k \/ i = k + 1
    BY <1>7
  <2> QED
    BY <1>7, <1>13, <2>1, <2>2 DEF Distinct
<1>15. Chain'
  <2>1. \A m : Path(m)' = Path(m) /\ Leads(m)' = Leads(m)
    BY <1>8, NamesKeep
  <2>2. \A i, j \in 1..n : i < j => Path(path[j]) \in Leads(Path(path[i]))
    BY <1>1, <1>5 DEF SortInv, Chain
  <2> QED
    BY <1>5, <2>1, <2>2 DEF Chain
<1>16. ASSUME Acyclic, NEW d \in Deps(t) PROVE d \in ToSet(sorted)
  <2> SUFFICES ASSUME d \in ToSet(path) PROVE FALSE
    BY <1>10, <1>16 DEF Added
  <2>1. PICK i \in 1..n + 1 : path[i] = d
    BY <1>1, <1>5, ElementsOf
  <2>2. Path(d) \in imports[Path(t)] /\ Path(t) \in Paths /\ Path(d) \in Paths
    BY <1>1, <1>6, <1>16, LateFacts DEF DepPaths
  <2>3. imports \in [Paths -> SUBSET Paths]
    BY <1>1 DEF Always, GivenInv
  <2>4. Path(t) \notin Leads(Path(t))
    BY <1>16, <2>2 DEF Acyclic, Leads
  <2>5. CASE i = n + 1
    BY <1>5, <2>1, <2>2, <2>3, <2>4, <2>5, LeadsOn
  <2>6. CASE i # n + 1
    <3>1. i \in 1..Len(path) /\ n + 1 \in 1..Len(path) /\ i < n + 1
      BY <1>5, <2>6
    <3>2. Path(t) \in Leads(Path(d))
      BY <1>1, <1>5, <2>1, <3>1 DEF SortInv, Chain
    <3>3. Leads(Path(d)) \subseteq Leads(Path(t))
      BY <2>2, <2>3, LeadsOn
    <3> QED
      BY <2>4, <3>2, <3>3
  <2> QED
    BY <2>5, <2>6
<1>17. PostOrder'
  <2>1. (\A m : Deps(m)' = Deps(m)) /\ Acyclic' = Acyclic
    BY <1>8, NamesKeep
  <2>2. ASSUME Acyclic, NEW i \in 1..k + 1, NEW d \in Deps(sorted'[i])
        PROVE  \E j \in 1..k + 1 : j < i /\ sorted'[j] = d
    <3>1. CASE i \in 1..k
      <4>1. PICK j \in 1..k : j < i /\ sorted[j] = d
        BY <1>1, <1>4, <1>7, <2>2, <3>1 DEF SortInv, PostOrder
      <4> QED
        BY <1>7, <4>1
    <3>2. CASE i = k + 1
      <4>1. d \in ToSet(sorted)
        BY <1>7, <1>16, <2>2, <3>2
      <4>2. PICK j \in 1..k : sorted[j] = d
        BY <1>1, <1>4, <4>1, ElementsOf
      <4> QED
        BY <1>7, <3>2, <4>2
    <3> QED
      BY <1>7, <3>1, <3>2
  <2> QED
    BY <1>7, <2>1, <2>2 DEF PostOrder
<1>18. SortInv'
  <2>1. Added' \subseteq Objects' /\ (\A m \in Added : IsKnown(m))'
    BY <1>1, <1>8, <1>9, NamesKeep DEF SortInv
  <2>2. (\A m \in ToSet(sorted) : Deps(m) \subseteq Added)'
    <3>1. \A m \in ToSet(sorted') : Deps(m) \subseteq Added
      BY <1>1, <1>7, <1>10 DEF SortInv
    <3> QED
      BY <1>8, <1>9, <3>1, NamesKeep
  <2>3. (ToSet(sorted) \cap ToSet(path) = {})'
    BY <1>1, <1>5, <1>7, <1>12 DEF SortInv
  <2> QED
    BY <1>7, <1>11, <1>14, <1>15, <1>17, <2>1, <2>2, <2>3 DEF SortInv
<1>19. ToSet(path') \subseteq Objects
  BY <1>1, <1>5 DEF SortInv, Added
<1> QED
  BY <1>1, <1>5, <1>8, <1>18, <1>19, SortKeep

\* What a step to or in the last phases has to show.
LEMMA LastKeep ==
  ASSUME Always, pc \in Late, LateFrame, pc' \in Late \ {"sort"},
         path' \in Seq(Nat), ToSet(path') \subseteq Objects,
         pc' = "link" => path' # <<>> /\ tool = "peac",
         pc' \in {"list", "done"} => path' = <<>>,
         pc' \in {"link", "done"} => sorted' = <<>>,
         ListInv', pc' \in {"link", "done"} /\ tool = "peac" => LinkInv'
  PROVE  IInv'
<1>1. dirs = <<>>
  BY DEF Always, PhaseInv, Late
<1>2. GivenInv' /\ HeapInv' /\ RootedInv' /\ ImportsInv' /\ MapsInv' /\ SettledInv' /\ DirsInv'
  BY <1>1, LateKeep
<1>3. Objects' = Objects /\ dirs' = dirs /\ (ToSet(path))' = ToSet(path') /\ tool' = tool
  BY NamesKeep DEF LateFrame, given
<1>4. PhaseInv'
  BY <1>1, <1>3 DEF PhaseInv, Late
<1> QED
  BY <1>2, <1>3, <1>4 DEF IInv, Always, Late

LEMMA SortEndStep == IInv /\ SortEnd => IInv'
<1> SUFFICES ASSUME IInv, SortEnd PROVE IInv'
  OBVIOUS
<1>1. /\ Always /\ SortInv /\ pc = "sort" /\ pc \in Late /\ path = <<>> /\ dirs = <<>>
      /\ order = <<>> /\ sorted \in Seq(Nat)
  BY SortFacts DEF SortEnd, SortInv
<1>2. LateFrame /\ pc' = "list" /\ UNCHANGED <<path, sorted, order>> /\ mods \subseteq ToSet(sorted)
  BY DEF SortEnd, LateFrame
<1>3. Added = ToSet(sorted) /\ ToSet(path) = {} /\ ToSet(order) = {}
  BY <1>1, ToSetEmpty DEF Added
<1>4. /\ ToSet(sorted) \in SUBSET Objects /\ \A m \in ToSet(sorted) : Deps(m) \subseteq ToSet(sorted)
      /\ \A m \in ToSet(sorted) : IsKnown(m)
  BY <1>1, <1>3 DEF SortInv
<1>5. RootPaths \subseteq PathsLeft
  BY <1>2 DEF RootPaths, PathsLeft
<1>6. PathsLeft = Needed
  BY <1>1, <1>4, <1>5, ClosedHasNeeded DEF PathsLeft
<1>7. Needed \subseteq exists \ broken
  BY <1>1, <1>4, <1>6, LateFacts DEF PathsLeft
<1>8. \A i, j \in 1..Len(sorted) : Path(sorted[i]) = Path(sorted[j]) => i = j
  <2> SUFFICES ASSUME NEW i \in 1..Len(sorted), NEW j \in 1..Len(sorted),
                      Path(sorted[i]) = Path(sorted[j])
               PROVE  i = j
    OBVIOUS
  <2>1. IsKnown(sorted[i]) /\ IsKnown(sorted[j])
    BY <1>1, <1>4, ElementsOf
  <2>2. sorted[i] = sorted[j]
    BY <2>1, KnownByPath
  <2> QED
    BY <1>1, <2>2 DEF SortInv, Distinct
<1>9. OrderedLeft
  <2> SUFFICES ASSUME Acyclic, NEW i \in 1..Len(sorted), NEW d \in imports[Path(sorted[i])]
               PROVE  \E j \in 1..Len(sorted) : j < i /\ Path(sorted[j]) = d
    BY DEF OrderedLeft
  <2>1. sorted[i] \in Objects
    BY <1>1, <1>4, ElementsOf
  <2>2. PICK e \in Deps(sorted[i]) : Path(e) = d
    BY <1>1, <2>1, LateFacts DEF DepPaths
  <2> QED
    BY <1>1, <2>2 DEF SortInv, PostOrder
<1>10. ListInv'
  <2>1. /\ \A m : Path(m)' = Path(m)
        /\ Objects' = Objects /\ Needed' = Needed /\ Listed' = Listed /\ Acyclic' = Acyclic
    BY <1>2, NamesKeep
  <2>2. imports' = imports /\ broken' = broken /\ exists' = exists
    BY <1>2 DEF LateFrame, given
  <2>3. PathsLeft' = PathsLeft
    BY <1>2, <2>1 DEF PathsLeft
  <2>4. OrderedLeft'
    BY <1>2, <1>9, <2>1, <2>2 DEF OrderedLeft
  <2>5. OrderedPaths' /\ Distinct(order)' /\ order' \in Seq(Paths)
    BY <1>1, <1>2 DEF OrderedPaths, Distinct
  <2>6. (\A i, j \in 1..Len(sorted) : Path(sorted[i]) = Path(sorted[j]) => i = j)'
    BY <1>2, <1>8, <2>1
  <2>7. (ToSet(sorted) \subseteq Objects)'
    BY <1>2, <1>4, <2>1
  <2>8. /\ (ToSet(order) \cup (PathsLeft \cap Listed) = Needed \cap Listed)'
        /\ (ToSet(order) \cap PathsLeft = {})'
    BY <1>2, <1>3, <1>6, <2>1, <2>3
  <2> QED
    BY <1>1, <1>2, <1>7, <2>1, <2>2, <2>4, <2>5, <2>6, <2>7, <2>8 DEF ListInv
<1>11. pc' \in Late \ {"sort"} /\ path' = <<>> /\ path' \in Seq(Nat) /\ ToSet(path') = {}
  BY <1>1, <1>2, <1>3 DEF Late
<1> QED
  BY <1>1, <1>2, <1>10, <1>11, LastKeep

-----------------------------------------------------------------------------
(* The last loop of main *)

LEMMA LastFacts ==
  ASSUME IInv, pc \in Late \ {"sort"}
  PROVE  /\ Always /\ ListInv /\ pc \in Late /\ path \in Seq(Nat) /\ dirs = <<>>
         /\ pc \in {"list", "done"} => path = <<>>
         /\ pc \in {"link", "done"} => sorted = <<>>
BY DEF IInv, Always, PhaseInv, Late

\* Nothing is listed in the step.
LEMMA ListKeep ==
  ASSUME ListInv, LateFrame, UNCHANGED <<sorted, order>>
  PROVE  ListInv'
<1>1. /\ \A m : Path(m)' = Path(m)
      /\ Objects' = Objects /\ Needed' = Needed /\ Listed' = Listed /\ Acyclic' = Acyclic
  BY NamesKeep
<1>2. imports' = imports /\ broken' = broken /\ exists' = exists
  BY DEF LateFrame, given
<1>3. PathsLeft' = PathsLeft
  BY <1>1 DEF PathsLeft
<1>4. OrderedLeft'
  BY <1>1, <1>2 DEF ListInv, OrderedLeft
<1>5. OrderedPaths' /\ Distinct(order)'
  BY <1>1, <1>2 DEF ListInv, OrderedPaths, Distinct
<1>6. (\A i, j \in 1..Len(sorted) : Path(sorted[i]) = Path(sorted[j]) => i = j)'
  BY <1>1 DEF ListInv
<1> QED
  BY <1>1, <1>2, <1>3, <1>4, <1>5, <1>6 DEF ListInv

LEMMA ListStep == IInv /\ List => IInv'
<1> SUFFICES ASSUME IInv, List PROVE IInv'
  OBVIOUS
<1>1. /\ Always /\ ListInv /\ pc = "list" /\ pc \in Late /\ path = <<>> /\ sorted # <<>>
      /\ sorted \in Seq(Nat) /\ order \in Seq(Paths)
  BY LastFacts DEF List, ListInv, Late
<1>2. LateFrame /\ pc' = "list" /\ UNCHANGED <<path, links>>
  BY <1>1 DEF List, LateFrame
<1>3. PICK p : p = Path(Head(sorted))
  OBVIOUS
<1>4. PICK n : n = Len(sorted) - 1
  OBVIOUS
<1>5. PICK k : k = Len(order)
  OBVIOUS
<1>6. /\ n \in Nat /\ sorted' \in Seq(Nat) /\ Len(sorted') = n /\ Len(sorted) = n + 1
      /\ \A i \in 1..n : sorted'[i] = sorted[i + 1]
      /\ ToSet(sorted) = ToSet(sorted') \cup {Head(sorted)} /\ Head(sorted) = sorted[1]
  <2>1. sorted' = Tail(sorted)
    BY DEF List
  <2> QED
    BY <1>1, <1>4, <2>1, TailOf
<1>7. p \in Paths /\ p = Path(sorted[1]) /\ p \in PathsLeft
  <2>1. Head(sorted) \in Objects
    BY <1>1, <1>6 DEF ListInv
  <2> QED
    BY <1>1, <1>3, <1>6, <2>1, LateFacts DEF PathsLeft
<1>8. /\ \A m : Path(m)' = Path(m)
      /\ Objects' = Objects /\ Needed' = Needed /\ Listed' = Listed /\ Acyclic' = Acyclic
      /\ imports' = imports /\ broken' = broken /\ exists' = exists
  BY <1>2, NamesKeep DEF LateFrame, given
<1>9. \A i \in 1..n : i + 1 \in 1..Len(sorted) /\ 1 \in 1..Len(sorted)
  BY <1>6
<1>10. PathsLeft = PathsLeft' \cup {p} /\ p \notin PathsLeft'
  <2>1. PathsLeft = PathsLeft' \cup {p}
    BY <1>3, <1>6, <1>8 DEF PathsLeft
  <2>2. ASSUME p \in PathsLeft' PROVE FALSE
    <3>1. PICK m \in ToSet(sorted') : Path(m) = p
      BY <1>8, <2>2 DEF PathsLeft
    <3>2. PICK i \in 1..n : sorted'[i] = m
      BY <1>6, ElementsOf
    <3>3. i + 1 = 1
      BY <1>1, <1>6, <1>7, <1>9, <3>1, <3>2 DEF ListInv
    <3> QED
      BY <1>6, <3>3
  <2> QED
    BY <2>1, <2>2
<1>11. /\ k \in Nat /\ order' \in Seq(Paths) /\ Len(order') \in {k, k + 1}
       /\ \A i \in 1..k : order'[i] = order[i] /\ order[i] \in ToSet(order)
       /\ p \in Listed => Len(order') = k + 1 /\ order'[k + 1] = p /\ ToSet(order') = ToSet(order) \cup {p}
       /\ p \notin Listed => Len(order') = k /\ ToSet(order') = ToSet(order)
  <2>1. order' = IF p \in Listed THEN Append(order, p) ELSE order
    BY <1>3 DEF List
  <2>2. k \in Nat /\ \A i \in 1..k : order[i] \in ToSet(order)
    BY <1>1, <1>5, ElementsOf
  <2>3. CASE p \in Listed
    <3>1. order' = Append(order, p)
      BY <2>1, <2>3
    <3>2. ToSet(order') = ToSet(order) \cup {p}
      BY <1>1, <1>7, <3>1, ToSetAppend
    <3>3. order' \in Seq(Paths) /\ Len(order') = k + 1 /\ order'[k + 1] = p
          /\ \A i \in 1..k : order'[i] = order[i]
      BY <1>1, <1>5, <1>7, <3>1
    <3> QED
      BY <2>2, <2>3, <3>2, <3>3
  <2>4. CASE p \notin Listed
    BY <1>1, <1>5, <2>1, <2>2, <2>4
  <2> QED
    BY <2>3, <2>4
<1>12. p \notin ToSet(order)
  BY <1>1, <1>7 DEF ListInv
<1>13. \A i \in 1..Len(order') : i \in 1..k \/ (p \in Listed /\ i = k + 1 /\ order'[i] = p)
  BY <1>11
<1>14. Distinct(order)'
  <2>1. \A i, j \in 1..k : order[i] = order[j] => i = j
    BY <1>1, <1>5 DEF ListInv, Distinct
  <2> QED
    BY <1>11, <1>12, <1>13, <2>1 DEF Distinct
<1>15. OrderedPaths'
  <2>1. ASSUME Acyclic, NEW i \in 1..Len(order'), NEW d \in imports[order'[i]] \cap Listed
        PROVE  \E j \in 1..Len(order') : j < i /\ order'[j] = d
    <3>1. CASE i \in 1..k
      <4>1. d \in imports[order[i]] \cap Listed
        BY <1>11, <2>1, <3>1
      <4>2. PICK j \in 1..k : j < i /\ order[j] = d
        BY <1>1, <1>5, <2>1, <3>1, <4>1 DEF ListInv, OrderedPaths
      <4>3. j \in 1..Len(order') /\ order'[j] = d
        BY <1>11, <4>2
      <4> QED
        BY <4>2, <4>3
    <3>2. CASE p \in Listed /\ i = k + 1 /\ order'[i] = p
      <4>1. d \in imports[Path(sorted[1])] \cap Listed /\ 1 \in 1..Len(sorted)
        BY <1>6, <1>7, <2>1, <3>2
      <4>2. d \in ToSet(order)
        <5>1. ~ \E j \in 1..Len(sorted) : j < 1
          BY <1>6
        <5> QED
          BY <1>1, <2>1, <4>1, <5>1 DEF ListInv, OrderedLeft
      <4>3. PICK j \in 1..k : order[j] = d
        BY <1>1, <1>5, <4>2, ElementsOf
      <4>4. j \in 1..Len(order') /\ j < i /\ order'[j] = d
        BY <1>11, <3>2, <4>3
      <4> QED
        BY <4>4
    <3> QED
      BY <1>13, <3>1, <3>2
  <2> QED
    BY <1>8, <2>1 DEF OrderedPaths
<1>16. OrderedLeft'
  <2>1. ASSUME Acyclic, NEW i \in 1..n, NEW d \in imports[Path(sorted'[i])] \cap Listed
        PROVE  d \in ToSet(order') \/ \E j \in 1..n : j < i /\ Path(sorted'[j]) = d
    <3>1. d \in imports[Path(sorted[i + 1])] \cap Listed /\ i + 1 \in 1..Len(sorted)
      BY <1>6, <1>9, <2>1
    <3>2. \/ d \in ToSet(order)
          \/ \E j \in 1..Len(sorted) : j < i + 1 /\ Path(sorted[j]) = d
      BY <1>1, <2>1, <3>1 DEF ListInv, OrderedLeft
    <3>3. CASE d \in ToSet(order)
      BY <1>11, <3>3
    <3>4. CASE \E j \in 1..Len(sorted) : j < i + 1 /\ Path(sorted[j]) = d
      <4>1. PICK j \in 1..Len(sorted) : j < i + 1 /\ Path(sorted[j]) = d
        BY <3>4
      <4>2. CASE j = 1
        BY <1>7, <1>11, <2>1, <4>1, <4>2
      <4>3. CASE j # 1
        <5>1. j - 1 \in 1..n /\ j - 1 < i /\ (j - 1) + 1 = j
          BY <1>6, <4>1, <4>3
        <5>2. Path(sorted'[j - 1]) = d
          BY <1>6, <4>1, <5>1
        <5> QED
          BY <5>1, <5>2
      <4> QED
        BY <4>2, <4>3
    <3> QED
      BY <3>2, <3>3, <3>4
  <2> QED
    BY <1>6, <1>8, <2>1 DEF OrderedLeft
<1>17. (\A i, j \in 1..Len(sorted) : Path(sorted[i]) = Path(sorted[j]) => i = j)'
  <2>1. ASSUME NEW i \in 1..n, NEW j \in 1..n, Path(sorted'[i]) = Path(sorted'[j])
        PROVE  i = j
    <3>1. i + 1 = j + 1
      BY <1>1, <1>6, <1>9, <2>1 DEF ListInv
    <3> QED
      BY <3>1
  <2> QED
    BY <1>6, <1>8, <2>1
<1>18. ListInv'
  <2>1. (ToSet(order) \cup (PathsLeft \cap Listed) = Needed \cap Listed)'
    <3>1. ToSet(order) \cup (PathsLeft \cap Listed) = Needed \cap Listed
      BY <1>1 DEF ListInv
    <3>2. ToSet(order') \cup (PathsLeft' \cap Listed) = Needed \cap Listed
      BY <1>10, <1>11, <3>1
    <3> QED
      BY <1>8, <3>2
  <2>2. (ToSet(order) \cap PathsLeft = {})'
    BY <1>1, <1>10, <1>11 DEF ListInv
  <2>3. (ToSet(sorted) \subseteq Objects)'
    BY <1>1, <1>6, <1>8 DEF ListInv
  <2>4. (Needed \subseteq exists \ broken)'
    BY <1>1, <1>8 DEF ListInv
  <2> QED
    BY <1>6, <1>11, <1>14, <1>15, <1>16, <1>17, <2>1, <2>2, <2>3, <2>4 DEF ListInv
<1>19. pc' \in Late \ {"sort"} /\ path' = <<>> /\ path' \in Seq(Nat) /\ ToSet(path') = {}
  BY <1>1, <1>2, ToSetEmpty DEF Late
<1> QED
  BY <1>1, <1>2, <1>18, <1>19, LastKeep

LEMMA ListEndStep == IInv /\ ListEnd => IInv'
<1> SUFFICES ASSUME IInv, ListEnd PROVE IInv'
  OBVIOUS
<1>1. /\ Always /\ ListInv /\ pc = "list" /\ pc \in Late /\ path = <<>> /\ sorted = <<>>
      /\ dirs = <<>>
  BY LastFacts DEF ListEnd, Late
<1>2. LateFrame /\ UNCHANGED <<sorted, order>>
  BY DEF ListEnd, LateFrame
<1>3. ListInv' /\ tool' = tool
  BY <1>1, <1>2, ListKeep DEF LateFrame, given
<1>4. CASE tool = "pealist"
  <2>1. pc' = "done" /\ path' = <<>>
    BY <1>1, <1>4 DEF ListEnd
  <2>2. ToSet(path') = {} /\ path' \in Seq(Nat) /\ pc' \in Late \ {"sort"} /\ pc' # "link"
    BY <2>1, ToSetEmpty DEF Late
  <2> QED
    BY <1>1, <1>2, <1>3, <1>4, <2>1, <2>2, LastKeep
<1>5. CASE tool = "peac"
  <2>1. PICK m \in mods : pc' = "link" /\ links' = <<m>> /\ path' = <<m>>
    BY <1>5 DEF ListEnd
  <2>2. m \in Objects /\ IsKnown(m) /\ m \in Nat
    BY <1>1, LateFacts DEF Objects
  <2>3. Path(m) = 1
    BY <1>1, <1>5 DEF Always, DirsInv, RootPaths
  <2>4. ToSet(path') = {m} /\ ToSet(links') = {m}
    BY <2>1, ToSetOne
  <2>5. Objects' = Objects /\ \A x : Path(x)' = Path(x) /\ Deps(x)' = Deps(x) /\ IsKnown(x)' = IsKnown(x)
    BY <1>2, NamesKeep
  <2>6. links' \in Seq(Nat) /\ path' \in Seq(Nat) /\ links' # <<>> /\ path' # <<>> /\ links'[1] = m
        /\ Len(links') = 1
    BY <2>1, <2>2
  <2>7. LinkInv'
    <3>1. (Path(links[1]) = 1)'
      BY <2>3, <2>5, <2>6
    <3>2. Distinct(links)'
      BY <2>6 DEF Distinct
    <3>3. (\A x \in ToSet(links) : IsKnown(x))'
      BY <2>2, <2>4, <2>5
    <3> QED
      BY <2>2, <2>4, <2>5, <2>6, <3>1, <3>2, <3>3 DEF LinkInv
  <2>8. pc' \in Late \ {"sort"} /\ sorted' = <<>> /\ ToSet(path') \subseteq Objects
    BY <1>1, <1>2, <2>1, <2>2, <2>4 DEF Late
  <2> QED
    BY <1>1, <1>2, <1>3, <1>5, <2>1, <2>6, <2>7, <2>8, LastKeep
<1> QED
  BY <1>1, <1>4, <1>5 DEF Always, GivenInv

-----------------------------------------------------------------------------
(* objFiles *)

LEMMA LinkFacts ==
  ASSUME IInv, pc = "link"
  PROVE  /\ Always /\ ListInv /\ LinkInv /\ pc \in Late /\ path \in Seq(Nat) /\ path # <<>>
         /\ sorted = <<>> /\ tool = "peac" /\ Top \in ToSet(path)
         /\ Top \in ToSet(links) /\ Top \in Objects /\ IsKnown(Top)
<1>1. /\ Always /\ ListInv /\ LinkInv /\ pc \in Late /\ path \in Seq(Nat) /\ path # <<>>
      /\ sorted = <<>> /\ tool = "peac"
  BY DEF IInv, Always, PhaseInv, Late
<1>2. Top \in ToSet(path)
  BY <1>1, FrontOf DEF Top
<1> QED
  BY <1>1, <1>2 DEF LinkInv

\* A dependency that is not linked.
LEMMA LinkDepCalls ==
  ASSUME IInv, LinkDep
  PROVE  \E d \in Objects : /\ IsKnown(d) /\ d \in Deps(Top) /\ d \notin ToSet(links)
                            /\ path' = Append(path, d) /\ links' = Append(links, d)
<1>1. Always /\ pc \in Late /\ Top \in Objects /\ IsKnown(Top)
  BY LinkFacts DEF LinkDep
<1>2. PICK d : d = Dep(Top, Least(Unlinked(Top)))
  OBVIOUS
<1>3. path' = Append(path, d) /\ links' = Append(links, d)
  BY <1>2 DEF LinkDep
<1>4. Unlinked(Top) \in SUBSET Nat /\ Unlinked(Top) # {}
  <2>1. HeapInv
    BY <1>1 DEF Always
  <2>2. DOMAIN heap[Top].deps = 1..Len(heap[Top].deps)
    BY <1>1, <2>1, ObjectIs
  <2>3. Unlinked(Top) # {}
    BY DEF LinkDep
  <2> QED
    BY <2>2, <2>3 DEF Unlinked
<1>5. Least(Unlinked(Top)) \in Unlinked(Top)
  BY <1>4, LeastOf
<1>6. d \in Deps(Top) /\ d \notin ToSet(links)
  BY <1>1, <1>2, <1>5, ObjectIs DEF Unlinked, Always
<1>7. d \in Objects /\ IsKnown(d)
  BY <1>1, <1>6, LateFacts
<1> QED
  BY <1>3, <1>6, <1>7

LEMMA LinkDepStep == IInv /\ LinkDep => IInv'
<1> SUFFICES ASSUME IInv, LinkDep PROVE IInv'
  OBVIOUS
<1>1. /\ Always /\ ListInv /\ LinkInv /\ pc = "link" /\ pc \in Late /\ path \in Seq(Nat)
      /\ path # <<>> /\ sorted = <<>> /\ tool = "peac" /\ links \in Seq(Nat)
      /\ Top \in ToSet(links) /\ Top \in Objects /\ IsKnown(Top)
  BY LinkFacts DEF LinkDep, LinkInv
<1>2. PICK d \in Objects : /\ IsKnown(d) /\ d \in Deps(Top) /\ d \notin ToSet(links)
                           /\ path' = Append(path, d) /\ links' = Append(links, d)
  BY LinkDepCalls
<1>3. /\ path' = Append(path, d) /\ links' = Append(links, d) /\ LateFrame
      /\ UNCHANGED <<pc, sorted, order>>
  BY <1>2 DEF LinkDep, LateFrame
<1>6. d \in Deps(Top) /\ d \notin ToSet(links)
  BY <1>2
<1>7. d \in Objects /\ IsKnown(d) /\ d \in Nat
  BY <1>2 DEF Objects
<1>8. ToSet(path') = ToSet(path) \cup {d} /\ ToSet(links') = ToSet(links) \cup {d}
  <2>1. path \in Seq(Nat) /\ links \in Seq(Nat) /\ d \in Nat
    BY <1>1, <1>7
  <2>2. path' = Append(path, d) /\ links' = Append(links, d)
    BY <1>3
  <2>3. ToSet(Append(path, d)) = ToSet(path) \cup {d}
    BY <2>1, ToSetAppend
  <2>4. ToSet(Append(links, d)) = ToSet(links) \cup {d}
    BY <2>1, ToSetAppend
  <2> QED
    BY <2>2, <2>3, <2>4
<1>9. PICK n : n = Len(links)
  OBVIOUS
<1>10. /\ n \in Nat \ {0} /\ links' \in Seq(Nat) /\ Len(links') = n + 1 /\ links'[n + 1] = d
       /\ \A i \in 1..n : links'[i] = links[i] /\ links[i] \in ToSet(links)
  <2>1. n \in Nat \ {0} /\ \A i \in 1..n : links[i] \in ToSet(links)
    BY <1>1, <1>9, FrontOf, ElementsOf DEF LinkInv
  <2>2. links' \in Seq(Nat) /\ Len(links') = n + 1 /\ links'[n + 1] = d
        /\ \A i \in 1..n : links'[i] = links[i]
    BY <1>1, <1>3, <1>7, <1>9
  <2> QED
    BY <2>1, <2>2
<1>11. path' \in Seq(Nat) /\ path' # <<>>
  BY <1>1, <1>3, <1>7
<1>12. /\ Objects' = Objects
       /\ \A x : Path(x)' = Path(x) /\ Deps(x)' = Deps(x) /\ IsKnown(x)' = IsKnown(x)
  BY <1>3, NamesKeep
<1>13. LinkInv'
  <2>1. Distinct(links)'
    <3>1. \A i, j \in 1..n : links[i] = links[j] => i = j
      BY <1>1, <1>9 DEF LinkInv, Distinct
    <3>2. \A i \in 1..n + 1 : i \in 1..n \/ i = n + 1
      BY <1>10
    <3> QED
      BY <1>6, <1>10, <3>1, <3>2 DEF Distinct
  <2>2. (Path(links[1]) = 1)'
    <3>1. links'[1] = links[1]
      BY <1>10
    <3> QED
      BY <1>1, <1>12, <3>1 DEF LinkInv
  <2>3. (\A m \in ToSet(links) : Deps(m) \subseteq ToSet(links) \/ m \in ToSet(path))'
    BY <1>1, <1>8, <1>12 DEF LinkInv
  <2>4. (\A m \in ToSet(links) : IsKnown(m))' /\ (ToSet(links) \subseteq Objects)'
    BY <1>1, <1>7, <1>8, <1>12 DEF LinkInv
  <2>5. (ToSet(path) \subseteq ToSet(links))' /\ links' # <<>>
    BY <1>1, <1>8, <1>10 DEF LinkInv
  <2> QED
    BY <1>10, <2>1, <2>2, <2>3, <2>4, <2>5 DEF LinkInv
<1>14. ListInv'
  BY <1>1, <1>3, ListKeep
<1>15. pc' \in Late \ {"sort"} /\ pc' = "link" /\ sorted' = <<>> /\ ToSet(path') \subseteq Objects
  BY <1>1, <1>3, <1>7, <1>8 DEF Late, Always, PhaseInv
<1> QED
  BY <1>1, <1>3, <1>11, <1>13, <1>14, <1>15, LastKeep

LEMMA LinkReturnStep == IInv /\ LinkReturn => IInv'
<1> SUFFICES ASSUME IInv, LinkReturn PROVE IInv'
  OBVIOUS
<1>1. /\ Always /\ ListInv /\ LinkInv /\ pc = "link" /\ pc \in Late /\ path \in Seq(Nat)
      /\ path # <<>> /\ sorted = <<>> /\ tool = "peac"
      /\ Top \in ToSet(links) /\ Top \in Objects
  BY LinkFacts DEF LinkReturn
<1>2. PICK t : t = Top
  OBVIOUS
<1>3. /\ path' = Front(path) /\ LateFrame /\ UNCHANGED <<sorted, order, links>>
      /\ pc' = IF Len(path) > 1 THEN "link" ELSE "done"
  BY DEF LinkReturn, LateFrame
<1>4. /\ path' \in Seq(Nat) /\ Len(path') = Len(path) - 1 /\ Len(path) \in Nat \ {0}
      /\ ToSet(path) = ToSet(path') \cup {t}
  BY <1>1, <1>2, <1>3, FrontOf DEF Top
<1>5. Deps(t) \subseteq ToSet(links)
  <2>1. ASSUME NEW d \in Deps(t) PROVE d \in ToSet(links)
    <3>1. PICK i \in DOMAIN heap[t].deps : Dep(t, i) = d
      BY DEF Deps, Dep, ToSet
    <3>2. Unlinked(t) = {}
      BY <1>2 DEF LinkReturn
    <3> QED
      BY <3>1, <3>2 DEF Unlinked
  <2> QED
    BY <2>1
<1>6. /\ Objects' = Objects
      /\ \A x : Path(x)' = Path(x) /\ Deps(x)' = Deps(x) /\ IsKnown(x)' = IsKnown(x)
  BY <1>3, NamesKeep
<1>7. LinkInv'
  <2>1. (Path(links[1]) = 1)' /\ Distinct(links)'
    BY <1>1, <1>3, <1>6 DEF LinkInv, Distinct
  <2>2. (\A m \in ToSet(links) : Deps(m) \subseteq ToSet(links) \/ m \in ToSet(path))'
    BY <1>1, <1>3, <1>4, <1>5, <1>6 DEF LinkInv
  <2>3. (\A m \in ToSet(links) : IsKnown(m))' /\ (ToSet(links) \subseteq Objects)'
    BY <1>1, <1>3, <1>6 DEF LinkInv
  <2>4. (ToSet(path) \subseteq ToSet(links))' /\ links' # <<>> /\ links' \in Seq(Nat)
    BY <1>1, <1>3, <1>4 DEF LinkInv
  <2> QED
    BY <2>1, <2>2, <2>3, <2>4 DEF LinkInv
<1>8. ListInv'
  BY <1>1, <1>3, ListKeep
<1>9. ToSet(path') \subseteq Objects /\ sorted' = <<>> /\ pc' \in Late \ {"sort"} /\ pc' # "list"
  BY <1>1, <1>3, <1>4 DEF Late, Always, PhaseInv
<1>10. (pc' = "link" => path' # <<>>) /\ (pc' = "done" => path' = <<>>)
  <2>1. CASE Len(path) > 1
    <3>1. pc' = "link"
      BY <1>3, <2>1
    <3>2. Len(path') = Len(path) - 1 /\ Len(path) \in Nat
      BY <1>4
    <3>3. Len(path') # 0
      BY <2>1, <3>2
    <3> QED
      BY <3>1, <3>3, LenProperties, EmptySeq
  <2>2. CASE ~ (Len(path) > 1)
    <3>1. pc' = "done" /\ Len(path') = 0
      BY <1>3, <1>4, <2>2
    <3> QED
      BY <1>4, <3>1, EmptySeq
  <2> QED
    BY <2>1, <2>2
<1> QED
  BY <1>1, <1>3, <1>4, <1>7, <1>8, <1>9, <1>10, LastKeep

-----------------------------------------------------------------------------
(* main *)

Early == {"walk", "load", "see"}

LEMMA EarlyFacts ==
  ASSUME IInv, pc \in Early
  PROVE  /\ Always /\ path \in Seq(Nat) /\ ToSet(path) \subseteq Objects
         /\ pc \in {"load", "see"} => path # <<>> /\ Top \in ToSet(path) /\ Top \in Objects
         /\ pc = "walk" => path = <<>>
         /\ pc = "see" => tool = "pealist"
         /\ sorted = <<>> /\ order = <<>>
<1>1. /\ Always /\ path \in Seq(Nat) /\ ToSet(path) \subseteq Objects
      /\ pc \in {"load", "see"} => path # <<>>
      /\ pc = "walk" => path = <<>>
      /\ pc = "see" => tool = "pealist"
      /\ sorted = <<>> /\ order = <<>>
  BY DEF IInv, Always, PhaseInv, Early
<1>2. path # <<>> => Top \in ToSet(path)
  BY <1>1, FrontOf DEF Top
<1> QED
  BY <1>1, <1>2

\* What a step to or in the first phases has to show.
LEMMA EarlyKeep ==
  ASSUME IInv, pc \in Early, pc' \in Early, given' = given, UNCHANGED <<sorted, order, links>>,
         path' \in Seq(Nat), ToSet(path') \subseteq Objects',
         pc' \in {"load", "see"} => path' # <<>>, pc' = "walk" => path' = <<>>,
         pc' = "see" => tool = "pealist",
         HeapInv', RootedInv', ImportsInv', MapsInv', SettledInv', DirsInv'
  PROVE  IInv'
<1>1. sorted' = <<>> /\ order' = <<>>
  BY EarlyFacts
<1>2. PhaseInv'
  <2>1. (ToSet(path))' = ToSet(path') /\ tool' = tool
    BY DEF given
  <2> QED
    BY <1>1, <2>1 DEF PhaseInv, Early
<1>3. GivenInv'
  <2>1. imports' = imports /\ broken' = broken /\ exists' = exists /\ sources' = sources /\ tool' = tool
    BY DEF given
  <2> QED
    BY <2>1 DEF IInv, Always, GivenInv
<1> QED
  BY <1>2, <1>3 DEF IInv, Always, Early

LEMMA VisitSeenStep == IInv /\ VisitSeen => IInv'
<1> SUFFICES ASSUME IInv, VisitSeen PROVE IInv'
  OBVIOUS
<1>1. /\ Always /\ pc = "walk" /\ pc' = "walk" /\ pc \in Early /\ HeapFrame /\ path = <<>>
      /\ UNCHANGED <<path, sorted, order, links>> /\ dirs # <<>> /\ seen[Head(dirs)] # 0
      /\ dirs' = Tail(dirs)
  BY EarlyFacts DEF VisitSeen, HeapFrame, Early
<1>2. HeapInv' /\ RootedInv' /\ MapsInv'
  BY <1>1, HeapKeep
<1>3. \A m : ~ Loading(m) /\ ~ Seeing(m)
  BY <1>1 DEF Loading, Seeing
<1>4. given' = given /\ imports' = imports /\ broken' = broken /\ tool' = tool /\ seen' = seen /\ sources' = sources
      /\ mods' = mods
  BY <1>1 DEF HeapFrame, given
<1>5. ImportsInv'
  BY <1>1, <1>3, <1>4, HeapNames DEF Always, ImportsInv
<1>6. SettledInv'
  BY <1>1, <1>3, <1>4, HeapNames DEF Always, SettledInv
<1>7. DirsInv'
  <2>1. dirs \in Seq(sources)
    BY <1>1 DEF Always, DirsInv
  <2>2. dirs' \in Seq(sources) /\ ToSet(dirs) = ToSet(dirs') \cup {Head(dirs)} /\ Head(dirs) = dirs[1]
    BY <1>1, <2>1, TailOf
  <2>3. CASE tool = "pealist"
    <3>1. \A p \in sources : p \in ToSet(dirs) \/ seen[p] # 0
      BY <1>1, <2>3 DEF Always, DirsInv
    <3>2. \A p \in sources : p \in ToSet(dirs') \/ seen[p] # 0
      BY <1>1, <2>2, <3>1
    <3> QED
      BY <1>4, <2>2, <2>3, <3>2 DEF DirsInv
  <2>4. CASE tool = "peac"
    <3>1. seen = NoMods /\ dirs = <<1>>
      BY <1>1, <2>4 DEF Always, DirsInv
    <3>2. Head(dirs) = 1 /\ 1 \in Paths
      BY <2>2, <3>1, NumPathsAssumption DEF Paths
    <3> QED
      BY <1>1, <3>1, <3>2 DEF NoMods
  <2> QED
    BY <1>1, <2>3, <2>4 DEF Always, GivenInv
<1>8. path' \in Seq(Nat) /\ ToSet(path') = {}
  BY <1>1, ToSetEmpty
<1> QED
  BY <1>1, <1>2, <1>4, <1>5, <1>6, <1>7, <1>8, EarlyKeep

\* A module becomes an object of the heap, of which g is what was there before.
LEMMA NewObject ==
  ASSUME HeapInv, NEW p \in Paths, NEW g \in Seq(ModType), Len(g) = Len(heap),
         heap' = Append(g, Mod(p)), NEW n, n = Len(heap) + 1
  PROVE  /\ heap' \in Seq(ModType) /\ Objects' = Objects \cup {n}
         /\ n \in Nat \ {0} /\ n \notin Objects
         /\ Path(n)' = p /\ Deps(n)' = {}
         /\ \A o \in Objects : Path(o)' = g[o].path /\ Deps(o)' = ToSet(g[o].deps)
<1>1. PICK f : f = heap'
  OBVIOUS
<1>2. IsAppended(f, g, p)
  BY <1>1, ModAppended
<1>3. Objects' = 1..n /\ Objects = 1..Len(heap)
  BY <1>1, <1>2 DEF Objects, IsAppended
<1>4. n \in Nat \ {0} /\ n \notin Objects /\ 1..n = Objects \cup {n}
  BY <1>2, <1>3 DEF IsAppended
<1>5. Path(n)' = p /\ Deps(n)' = {}
  BY <1>1, <1>2 DEF Path, Deps, IsAppended
<1>6. \A o \in Objects : Path(o)' = g[o].path /\ Deps(o)' = ToSet(g[o].deps)
  BY <1>1, <1>2, <1>3 DEF Path, Deps, IsAppended
<1> QED
  BY <1>1, <1>2, <1>3, <1>4, <1>5, <1>6 DEF IsAppended

LEMMA VisitStep == IInv /\ Visit => IInv'
<1> SUFFICES ASSUME IInv, Visit PROVE IInv'
  OBVIOUS
<1>1. /\ Always /\ pc = "walk" /\ pc' = "load" /\ pc \in Early /\ path = <<>> /\ given' = given
      /\ UNCHANGED <<sorted, order, links>> /\ dirs # <<>> /\ dirs' = Tail(dirs)
  BY EarlyFacts DEF Visit, Early
<1>2. PICK p : p = Head(dirs)
  OBVIOUS
<1>3. PICK m : m = Len(heap) + 1
  OBVIOUS
<1>4. /\ seen[p] = 0 /\ heap' = Append(heap, Mod(p))
      /\ seen' = IF tool = "pealist" THEN [seen EXCEPT ![p] = m] ELSE seen
      /\ loaded' = [NoMods EXCEPT ![p] = m]
      /\ mods' = mods \cup {m} /\ path' = <<m>>
  BY <1>2, <1>3 DEF Visit
<1>5. imports' = imports /\ broken' = broken /\ tool' = tool /\ sources' = sources /\ exists' = exists
  BY <1>1 DEF given
<1>6. /\ dirs' \in Seq(sources) /\ ToSet(dirs) = ToSet(dirs') \cup {p} /\ dirs \in Seq(sources)
      /\ p = dirs[1] /\ p \in sources
  <2>1. dirs \in Seq(sources)
    BY <1>1 DEF Always, DirsInv
  <2>2. p \in sources
    BY <1>1, <1>2, <2>1, HeadTailProperties
  <2> QED
    BY <1>1, <1>2, <2>1, <2>2, TailOf
<1>7. p \in Paths /\ p \in exists
  BY <1>1, <1>6 DEF Always, GivenInv
<1>8. heap \in Seq(ModType) /\ HeapInv
  BY <1>1 DEF Always, HeapInv
<1>9. /\ heap' \in Seq(ModType) /\ Objects' = Objects \cup {m}
      /\ m \in Nat \ {0} /\ m \notin Objects
      /\ Path(m)' = p /\ Deps(m)' = {}
  BY <1>3, <1>4, <1>7, <1>8, NewObject
<1>10. \A o \in Objects : Path(o)' = Path(o) /\ Deps(o)' = Deps(o)
  <2>1. \A o \in Objects : Path(o)' = heap[o].path /\ Deps(o)' = ToSet(heap[o].deps)
    BY <1>3, <1>4, <1>7, <1>8, NewObject
  <2> QED
    BY <2>1 DEF Path, Deps
<1>11. HeapInv'
  BY <1>8, <1>9, <1>10 DEF HeapInv
<1>12. mods \subseteq Objects /\ RootPaths' = RootPaths \cup {p}
  <2>1. mods \subseteq Objects
    BY <1>1 DEF Always, RootedInv
  <2> QED
    BY <1>4, <1>9, <1>10, <2>1 DEF RootPaths
<1>13. tool = "peac" => mods = {} /\ p = 1 /\ dirs = <<1>> /\ seen = NoMods
  BY <1>1, <1>6 DEF Always, DirsInv
<1>14. RootedInv'
  <2>1. p \in Start /\ Start' = Start
    BY <1>5, <1>6, <1>13 DEF Start
  <2>2. (\A o \in Objects : Path(o) \in exists)'
    BY <1>1, <1>5, <1>7, <1>9, <1>10 DEF Always, RootedInv
  <2>3. \A C : Closed(C)' = Closed(C)
    BY <1>5, ReachKeep
  <2>4. (\A C \in SUBSET Paths :
           Closed(C) /\ RootPaths \subseteq C => \A o \in Objects : Path(o) \in C)'
    BY <1>1, <1>9, <1>10, <1>12, <2>3 DEF Always, RootedInv
  <2>5. (mods \subseteq Objects)' /\ (RootPaths \subseteq Start)'
    BY <1>1, <1>4, <1>9, <1>12, <2>1 DEF Always, RootedInv
  <2> QED
    BY <2>2, <2>4, <2>5 DEF RootedInv
<1>15. \A o : ~ Loading(o) /\ ~ Seeing(o)
  BY <1>1 DEF Loading, Seeing
<1>16. ToSet(path') = {m} /\ Loading(m)'
  BY <1>1, <1>4, ToSetOne DEF Loading
<1>17. ImportsInv'
  <2>1. \A o \in Objects : DepPaths(o)' = DepPaths(o)
    BY <1>8, <1>10 DEF DepPaths, HeapInv
  <2>2. DepPaths(m)' = {}
    BY <1>9 DEF DepPaths
  <2> QED
    BY <1>1, <1>5, <1>9, <1>10, <1>15, <1>16, <2>1, <2>2 DEF Always, ImportsInv
<1>18. MapsInv'
  <2>1. loaded' \in [Paths -> Nat] /\ \A q \in Paths : loaded'[q] # 0 => q = p /\ loaded'[q] = m
    BY <1>4, <1>7, <1>9 DEF NoMods
  <2>2. seen \in [Paths -> Nat] /\ \A q \in Paths : seen[q] # 0 => seen[q] \in Objects /\ Path(seen[q]) = q
    BY <1>1 DEF Always, MapsInv, MapIs
  <2>3. seen' \in [Paths -> Nat] /\ \A q \in Paths : seen'[q] = seen[q] \/ (q = p /\ seen'[q] = m)
    BY <1>4, <1>7, <1>9, <2>2
  <2>4. MapIs(loaded)'
    BY <1>9, <2>1 DEF MapIs
  <2>5. MapIs(seen)'
    BY <1>9, <1>10, <2>2, <2>3 DEF MapIs
  <2> QED
    BY <2>4, <2>5 DEF MapsInv
<1>19. SettledInv'
  <2>1. CASE tool = "peac"
    <3>1. Known' = loaded'
      BY <1>5, <2>1 DEF Known
    <3>2. loaded'[p] = m /\ \A q \in Paths : q # p => loaded'[q] = 0
      BY <1>4, <1>7 DEF NoMods
    <3>3. IsKnown(m)'
      BY <1>9, <3>1, <3>2 DEF IsKnown
    <3>4. \A o \in Objects : ~ IsKnown(o)'
      <4>1. ASSUME NEW o \in Objects PROVE o # 0 /\ o # m /\ Path(o) \in Paths
        BY <1>8, <1>9, ObjectIs DEF Objects
      <4> QED
        BY <1>10, <3>1, <3>2, <4>1 DEF IsKnown
    <3>5. mods' = {m}
      BY <1>4, <1>13, <2>1
    <3>6. tool' # "pealist"
      BY <1>5, <2>1
    <3> QED
      BY <1>9, <3>3, <3>4, <3>5, <3>6 DEF SettledInv
  <2>2. CASE tool = "pealist"
    <3>1. Known' = seen' /\ Known = seen
      BY <1>5, <2>2 DEF Known
    <3>2. seen'[p] = m /\ \A q \in Paths : q # p => seen'[q] = seen[q]
      <4>1. seen \in [Paths -> Nat]
        BY <1>1 DEF Always, MapsInv, MapIs
      <4> QED
        BY <1>4, <1>7, <2>2, <4>1
    <3>3. IsKnown(m)'
      BY <1>9, <3>1, <3>2 DEF IsKnown
    <3>4. \A o \in Objects : IsKnown(o)' <=> IsKnown(o)
      <4>1. ASSUME NEW o \in Objects PROVE o # 0 /\ o # m /\ Path(o) \in Paths
        BY <1>8, <1>9, ObjectIs DEF Objects
      <4> QED
        BY <1>4, <1>10, <3>1, <3>2, <4>1 DEF IsKnown
    <3>5. (\A o \in mods : IsKnown(o))'
      BY <1>1, <1>4, <1>12, <3>3, <3>4 DEF Always, SettledInv
    <3>6. \A o \in Objects' : IsKnown(o)' => \A d \in Deps(o)' : IsKnown(d)'
      BY <1>1, <1>8, <1>9, <1>10, <1>15, <3>4 DEF Always, SettledInv, HeapInv
    <3>7. ~ \E i \in 2..Len(path') : TRUE
      BY <1>4
    <3> QED
      BY <3>5, <3>6, <3>7 DEF SettledInv
  <2> QED
    BY <1>1, <2>1, <2>2 DEF Always, GivenInv
<1>20. DirsInv'
  <2>1. CASE tool = "pealist"
    <3>1. \A q \in sources : q \in ToSet(dirs) \/ seen[q] # 0
      BY <1>1, <2>1 DEF Always, DirsInv
    <3>2. seen'[p] = m /\ \A q \in Paths : q # p => seen'[q] = seen[q]
      <4>1. seen \in [Paths -> Nat]
        BY <1>1 DEF Always, MapsInv, MapIs
      <4> QED
        BY <1>4, <1>7, <2>1, <4>1
    <3>3. \A q \in sources : q \in ToSet(dirs') \/ seen'[q] # 0
      BY <1>1, <1>6, <1>9, <3>1, <3>2 DEF Always, GivenInv
    <3> QED
      BY <1>5, <1>6, <2>1, <3>3 DEF DirsInv
  <2>2. CASE tool = "peac"
    <3>1. dirs' = <<>>
      <4>1. dirs' = Tail(<<1>>)
        BY <1>1, <1>13, <2>2
      <4> QED
        BY <4>1
    <3>2. RootPaths = {} /\ RootPaths' = {1}
      BY <1>12, <1>13, <2>2 DEF RootPaths
    <3>3. seen' = NoMods
      BY <1>4, <1>13, <2>2
    <3> QED
      BY <1>5, <1>6, <2>2, <3>1, <3>2, <3>3 DEF DirsInv, NoMods
  <2> QED
    BY <1>1, <2>1, <2>2 DEF Always, GivenInv
<1>21. path' \in Seq(Nat) /\ path' # <<>> /\ ToSet(path') \subseteq Objects'
  BY <1>4, <1>9, <1>16
<1>22. pc' \in Early /\ pc' = "load"
  BY <1>1 DEF Early
<1> QED
  BY <1>1, <1>11, <1>14, <1>17, <1>18, <1>19, <1>20, <1>21, <1>22, EarlyKeep

-----------------------------------------------------------------------------
(* loadDeps *)

\* A step of addDeps that looks at the least import that is left.
LEMMA LoadFacts ==
  ASSUME IInv, pc = "load", NEW t, t = Top
  PROVE  /\ Always /\ pc \in Early /\ path \in Seq(Nat) /\ path # <<>> /\ t \in ToSet(path)
         /\ ToSet(path) \subseteq Objects /\ t \in Objects /\ Loading(t)
         /\ HeapInv /\ heap \in Seq(ModType)
         /\ ImportsLeft(t) # {} =>
              /\ Least(ImportsLeft(t)) \in Paths
              /\ Least(ImportsLeft(t)) \in imports[Path(t)]
<1>1. /\ Always /\ pc \in Early /\ path \in Seq(Nat) /\ path # <<>> /\ t \in ToSet(path)
      /\ ToSet(path) \subseteq Objects /\ t \in Objects
  BY EarlyFacts DEF Early
<1>2. HeapInv /\ heap \in Seq(ModType) /\ Loading(t)
  BY <1>1 DEF Always, HeapInv, Loading
<1>3. imports[Path(t)] \in SUBSET Paths
  BY <1>1, <1>2, ObjectIs DEF Always, GivenInv
<1>4. ImportsLeft(t) \in SUBSET Nat
  BY <1>3 DEF ImportsLeft, Paths
<1>5. ImportsLeft(t) # {} => Least(ImportsLeft(t)) \in ImportsLeft(t)
  BY <1>4, LeastOf
<1> QED
  BY <1>1, <1>2, <1>3, <1>5 DEF ImportsLeft

\* An object that pealist works on is the root or stands for no path.
LEMMA KnownIsRoot ==
  ASSUME IInv, pc = "load", tool = "pealist", IsKnown(Top)
  PROVE  Seeing(Top)
<1>1. Always /\ path \in Seq(Nat) /\ path # <<>>
  BY EarlyFacts DEF Early
<1>2. PICK n : n = Len(path)
  OBVIOUS
<1>3. n \in Nat \ {0} /\ Top = path[n]
  BY <1>1, <1>2, FrontOf DEF Top
<1>4. \A i \in 2..n : ~ IsKnown(path[i])
  BY <1>1, <1>2 DEF Always, SettledInv
<1>5. n = 1
  <2>1. n \notin 2..n
    BY <1>3, <1>4
  <2> QED
    BY <1>3, <2>1
<1> QED
  BY <1>3, <1>5 DEF Seeing

LEMMA AddLoadedStep == IInv /\ AddLoaded => IInv'
<1> SUFFICES ASSUME IInv, AddLoaded PROVE IInv'
  OBVIOUS
<1>1. PICK t : t = Top
  OBVIOUS
<1>2. PICK p : p = Least(ImportsLeft(Top))
  OBVIOUS
<1>3. PICK d : d = loaded[p]
  OBVIOUS
<1>4. /\ pc = "load" /\ ImportsLeft(t) # {} /\ p = Least(ImportsLeft(t)) /\ d # 0
      /\ heap' = [heap EXCEPT ![t].deps = Append(@, d)]
      /\ UNCHANGED <<given, pc, dirs, loaded, seen, mods, path, sorted, order, links>>
  BY <1>1, <1>2, <1>3 DEF AddLoaded
<1>5. /\ Always /\ pc \in Early /\ path \in Seq(Nat) /\ path # <<>> /\ t \in ToSet(path)
      /\ ToSet(path) \subseteq Objects /\ t \in Objects /\ Loading(t)
      /\ HeapInv /\ heap \in Seq(ModType) /\ p \in Paths /\ p \in imports[Path(t)]
  BY <1>1, <1>4, LoadFacts
<1>6. imports' = imports /\ broken' = broken /\ tool' = tool /\ sources' = sources /\ exists' = exists
  BY <1>4 DEF given
<1>7. d \in Objects /\ Path(d) = p /\ d \in Nat
  BY <1>3, <1>4, <1>5 DEF Always, MapsInv, MapIs, Objects
<1>8. /\ heap' \in Seq(ModType) /\ Objects' = Objects
      /\ \A o \in Objects : Path(o)' = Path(o) /\ (o # t => Deps(o)' = Deps(o))
      /\ Deps(t)' = Deps(t) \cup {d}
  <2>1. t \in 1..Len(heap) /\ d \in Nat
    BY <1>5, <1>7 DEF Objects
  <2>2. HasDep(heap', heap, t, d)
    BY <1>4, <1>5, <2>1, DepAppended
  <2> QED
    BY <1>5, <2>2 DEF Objects, Path, Deps, HasDep
<1>9. HeapInv'
  BY <1>5, <1>7, <1>8 DEF HeapInv
<1>10. RootPaths' = RootPaths /\ mods \subseteq Objects
  <2>1. mods \subseteq Objects
    BY <1>5 DEF Always, RootedInv
  <2> QED
    BY <1>4, <1>8, <2>1 DEF RootPaths
<1>11. RootedInv'
  <2>1. \A C : Closed(C)' = Closed(C)
    BY <1>6, ReachKeep
  <2>2. Start' = Start
    BY <1>6 DEF Start
  <2> QED
    BY <1>4, <1>5, <1>6, <1>8, <1>10, <2>1, <2>2 DEF Always, RootedInv
<1>12. ImportsInv'
  <2>1. \A o \in Objects : o # t => DepPaths(o)' = DepPaths(o)
    BY <1>5, <1>8 DEF DepPaths, HeapInv
  <2>2. DepPaths(t)' = DepPaths(t) \cup {p}
    BY <1>5, <1>7, <1>8 DEF DepPaths, HeapInv
  <2>3. \A o : Loading(o)' = Loading(o)
    BY <1>4 DEF Loading
  <2> QED
    BY <1>5, <1>6, <1>8, <2>1, <2>2, <2>3 DEF Always, ImportsInv
<1>13. MapsInv'
  BY <1>4, <1>5, <1>8 DEF Always, MapsInv, MapIs
<1>14. \A o \in Objects : IsKnown(o)' = IsKnown(o)
  BY <1>4, <1>6, <1>8 DEF IsKnown, Known
<1>15. SettledInv'
  <2>1. \A o : Seeing(o)' = Seeing(o)
    BY <1>4, <1>6 DEF Seeing
  <2>2. IsKnown(t) => Seeing(t) \/ \A e \in Deps(t) \cup {d} : IsKnown(e)
    <3>1. CASE tool = "pealist"
      BY <1>1, <1>4, <3>1, KnownIsRoot
    <3>2. CASE tool = "peac"
      <4>1. IsKnown(d) /\ ~ Seeing(t)
        BY <1>3, <1>7, <3>2 DEF IsKnown, Known, Seeing
      <4> QED
        BY <1>5, <4>1 DEF Always, SettledInv
    <3> QED
      BY <1>5, <3>1, <3>2 DEF Always, GivenInv
  <2>3. (\A o \in Objects : IsKnown(o) => Seeing(o) \/ \A e \in Deps(o) : IsKnown(e))'
    BY <1>5, <1>7, <1>8, <1>14, <2>1, <2>2 DEF Always, SettledInv, HeapInv
  <2>4. (\A o \in mods : IsKnown(o))'
    BY <1>4, <1>5, <1>10, <1>14 DEF Always, SettledInv
  <2>5. (pc = "load" /\ tool = "pealist" => \A i \in 2..Len(path) : ~ IsKnown(path[i]))'
    <3>1. \A i \in 2..Len(path) : path[i] \in Objects
      BY <1>5, ElementsOf
    <3> QED
      BY <1>4, <1>5, <1>6, <1>14, <3>1 DEF Always, SettledInv
  <2> QED
    BY <2>3, <2>4, <2>5 DEF SettledInv
<1>16. DirsInv'
  <2>1. NoMods' = NoMods
    BY DEF NoMods
  <2> QED
    BY <1>4, <1>5, <1>6, <1>10, <2>1 DEF Always, DirsInv
<1>17. path' \in Seq(Nat) /\ path' # <<>> /\ ToSet(path') \subseteq Objects' /\ pc' = "load"
  BY <1>4, <1>5, <1>8
<1> QED
  BY <1>4, <1>5, <1>9, <1>11, <1>12, <1>13, <1>15, <1>16, <1>17, EarlyKeep

LEMMA AddNewStep == IInv /\ AddNew => IInv'
<1> SUFFICES ASSUME IInv, AddNew PROVE IInv'
  OBVIOUS
<1>1. PICK t : t = Top
  OBVIOUS
<1>2. PICK p : p = Least(ImportsLeft(Top))
  OBVIOUS
<1>3. PICK n : n = Len(heap) + 1
  OBVIOUS
<1>4. PICK g : g = [heap EXCEPT ![t].deps = Append(@, n)]
  OBVIOUS
<1>5. /\ pc = "load" /\ ImportsLeft(t) # {} /\ p = Least(ImportsLeft(t))
      /\ loaded[p] = 0 /\ CanLoad(p) /\ heap' = Append(g, Mod(p))
      /\ loaded' = [loaded EXCEPT ![p] = n] /\ path' = Append(path, n)
      /\ UNCHANGED <<given, pc, dirs, seen, mods, sorted, order, links>>
  BY <1>1, <1>2, <1>3, <1>4 DEF AddNew
<1>6. /\ Always /\ pc \in Early /\ path \in Seq(Nat) /\ path # <<>> /\ t \in ToSet(path)
      /\ ToSet(path) \subseteq Objects /\ t \in Objects /\ Loading(t)
      /\ HeapInv /\ heap \in Seq(ModType) /\ p \in Paths /\ p \in imports[Path(t)]
  BY <1>1, <1>5, LoadFacts
<1>7. imports' = imports /\ broken' = broken /\ tool' = tool /\ sources' = sources /\ exists' = exists
  BY <1>5 DEF given
<1>8. HasDep(g, heap, t, n) /\ n \in Nat
  <2>1. t \in 1..Len(heap) /\ n \in Nat
    BY <1>3, <1>6 DEF Objects
  <2> QED
    BY <1>4, <1>6, <2>1, DepAppended
<1>9. /\ heap' \in Seq(ModType) /\ Objects' = Objects \cup {n}
      /\ n \in Nat \ {0} /\ n \notin Objects
      /\ Path(n)' = p /\ Deps(n)' = {}
      /\ \A o \in Objects : Path(o)' = g[o].path /\ Deps(o)' = ToSet(g[o].deps)
  <2>1. g \in Seq(ModType) /\ Len(g) = Len(heap)
    BY <1>8 DEF HasDep
  <2> QED
    BY <1>3, <1>5, <1>6, <2>1, NewObject
<1>10. /\ \A o \in Objects : Path(o)' = Path(o) /\ (o # t => Deps(o)' = Deps(o))
       /\ Deps(t)' = Deps(t) \cup {n}
  <2>1. \A o \in Objects : Path(o)' = Path(o) /\ (o # t => Deps(o)' = Deps(o))
    <3>1. \A o \in Objects : g[o].path = heap[o].path /\ (o # t => g[o].deps = heap[o].deps)
      BY <1>8 DEF HasDep, Objects
    <3> QED
      BY <1>9, <3>1 DEF Path, Deps
  <2>2. Deps(t)' = ToSet(g[t].deps)
    BY <1>6, <1>9
  <2>3. ToSet(g[t].deps) = Deps(t) \cup {n}
    BY <1>8 DEF HasDep, Deps
  <2> QED
    BY <2>1, <2>2, <2>3
<1>11. HeapInv'
  BY <1>6, <1>9, <1>10 DEF HeapInv
<1>12. RootPaths' = RootPaths /\ mods \subseteq Objects
  <2>1. mods \subseteq Objects
    BY <1>6 DEF Always, RootedInv
  <2> QED
    BY <1>5, <1>10, <2>1 DEF RootPaths
<1>13. RootedInv'
  <2>1. \A C : Closed(C)' = Closed(C)
    BY <1>7, ReachKeep
  <2>2. Start' = Start
    BY <1>7 DEF Start
  <2>3. p \in exists
    BY <1>5 DEF CanLoad
  <2>4. \A C : Closed(C) => (Path(t) \in C => p \in C)
    BY <1>6 DEF Closed
  <2>5. (\A C \in SUBSET Paths :
           Closed(C) /\ RootPaths \subseteq C => \A o \in Objects : Path(o) \in C)'
    BY <1>6, <1>9, <1>10, <1>12, <2>1, <2>4 DEF Always, RootedInv
  <2>6. (mods \subseteq Objects)' /\ (RootPaths \subseteq Start)'
    BY <1>5, <1>6, <1>9, <1>12, <2>2 DEF Always, RootedInv
  <2>7. (\A o \in Objects : Path(o) \in exists)'
    BY <1>6, <1>7, <1>9, <1>10, <2>3 DEF Always, RootedInv
  <2> QED
    BY <2>5, <2>6, <2>7 DEF RootedInv
<1>14. ToSet(path') = ToSet(path) \cup {n}
  <2>1. path \in Seq(Nat) /\ n \in Nat /\ path' = Append(path, n)
    BY <1>5, <1>6, <1>9
  <2> QED
    BY <2>1, ToSetAppend
<1>15. ImportsInv'
  <2>1. \A o \in Objects : o # t => DepPaths(o)' = DepPaths(o)
    BY <1>6, <1>10 DEF DepPaths, HeapInv
  <2>2. DepPaths(t)' = DepPaths(t) \cup {p}
    BY <1>6, <1>9, <1>10 DEF DepPaths, HeapInv
  <2>3. DepPaths(n)' = {}
    BY <1>9 DEF DepPaths
  <2>4. Loading(n)' /\ Loading(t)' /\ \A o : Loading(o) => Loading(o)'
    BY <1>5, <1>6, <1>14 DEF Loading
  <2> QED
    BY <1>6, <1>7, <1>9, <1>10, <2>1, <2>2, <2>3, <2>4 DEF Always, ImportsInv
<1>16. loaded \in [Paths -> Nat] /\ loaded'[p] = n /\ \A q \in Paths : q # p => loaded'[q] = loaded[q]
  <2>1. loaded \in [Paths -> Nat]
    BY <1>6 DEF Always, MapsInv, MapIs
  <2> QED
    BY <1>5, <1>6, <2>1
<1>17. MapsInv'
  <2>1. MapIs(loaded)'
    <3>1. loaded' \in [Paths -> Nat]
      BY <1>5, <1>6, <1>8, <1>16
    <3>2. \A q \in Paths : loaded[q] # 0 => loaded[q] \in Objects /\ Path(loaded[q]) = q
      BY <1>6 DEF Always, MapsInv, MapIs
    <3> QED
      BY <1>9, <1>10, <1>16, <3>1, <3>2 DEF MapIs
  <2>2. MapIs(seen)'
    BY <1>5, <1>6, <1>9, <1>10 DEF Always, MapsInv, MapIs
  <2> QED
    BY <2>1, <2>2 DEF MapsInv
<1>18. \A o \in Objects : o # 0 /\ o # n /\ Path(o) \in Paths
  BY <1>6, <1>9, ObjectIs DEF Objects
<1>19. \A o \in Objects : IsKnown(o)' <=> IsKnown(o)
  <2>1. CASE tool = "pealist"
    BY <1>5, <1>7, <1>10, <2>1 DEF IsKnown, Known
  <2>2. CASE tool = "peac"
    BY <1>5, <1>7, <1>10, <1>16, <1>18, <2>2 DEF IsKnown, Known
  <2> QED
    BY <1>6, <2>1, <2>2 DEF Always, GivenInv
<1>20. PICK k : k = Len(path)
  OBVIOUS
<1>21. /\ k \in Nat \ {0} /\ Len(path') = k + 1 /\ path'[k + 1] = n /\ path' \in Seq(Nat)
       /\ \A i \in 1..k : path'[i] = path[i] /\ path[i] \in Objects
  <2>1. k \in Nat \ {0} /\ \A i \in 1..k : path[i] \in Objects
    BY <1>6, <1>20, FrontOf, ElementsOf
  <2>2. /\ Len(path') = k + 1 /\ path'[k + 1] = n /\ path' \in Seq(Nat)
        /\ \A i \in 1..k : path'[i] = path[i]
    BY <1>5, <1>6, <1>8, <1>20
  <2> QED
    BY <2>1, <2>2
<1>22. IsKnown(n)' <=> tool = "peac"
  <2>1. CASE tool = "pealist"
    <3>1. seen[p] # n
      BY <1>6, <1>9 DEF Always, MapsInv, MapIs
    <3> QED
      BY <1>5, <1>7, <1>9, <2>1, <3>1 DEF IsKnown, Known
  <2>2. CASE tool = "peac"
    BY <1>7, <1>9, <1>16, <2>2 DEF IsKnown, Known
  <2> QED
    BY <1>6, <2>1, <2>2 DEF Always, GivenInv
<1>23. SettledInv'
  <2>1. \A o : Seeing(o)' = Seeing(o)
    <3>1. path'[1] = path[1]
      BY <1>21
    <3> QED
      BY <1>5, <1>7, <3>1 DEF Seeing
  <2>2. IsKnown(t) => Seeing(t) \/ (tool = "peac" /\ \A e \in Deps(t) : IsKnown(e))
    <3>1. CASE tool = "pealist"
      BY <1>1, <1>5, <3>1, KnownIsRoot
    <3>2. CASE tool = "peac"
      <4>1. ~ Seeing(t)
        BY <3>2 DEF Seeing
      <4> QED
        BY <1>6, <3>2, <4>1 DEF Always, SettledInv
    <3> QED
      BY <1>6, <3>1, <3>2 DEF Always, GivenInv
  <2>3. (\A o \in Objects : IsKnown(o) => Seeing(o) \/ \A e \in Deps(o) : IsKnown(e))'
    <3>1. ASSUME NEW o \in Objects, IsKnown(o)'
          PROVE  Seeing(o)' \/ \A e \in Deps(o)' : IsKnown(e)'
      <4>1. Deps(o) \subseteq Objects /\ IsKnown(o)
        BY <1>6, <1>19, <3>1 DEF HeapInv
      <4>2. CASE o = t
        BY <1>10, <1>19, <1>22, <2>1, <2>2, <4>1, <4>2
      <4>3. CASE o # t
        <5>1. Seeing(o) \/ \A e \in Deps(o) : IsKnown(e)
          BY <1>6, <4>1 DEF Always, SettledInv
        <5> QED
          BY <1>10, <1>19, <2>1, <4>1, <4>3, <5>1
      <4> QED
        BY <4>2, <4>3
    <3> QED
      BY <1>9, <3>1
  <2>4. (\A o \in mods : IsKnown(o))'
    BY <1>5, <1>6, <1>12, <1>19 DEF Always, SettledInv
  <2>5. (pc = "load" /\ tool = "pealist" => \A i \in 2..Len(path) : ~ IsKnown(path[i]))'
    <3>1. ASSUME tool = "pealist", NEW i \in 2..k + 1, NEW o, o = path'[i]
          PROVE  ~ IsKnown(o)'
      <4>1. CASE i = k + 1
        BY <1>21, <1>22, <3>1, <4>1
      <4>2. CASE i # k + 1
        <5>1. i \in 2..k /\ i \in 1..k
          BY <1>21, <4>2
        <5>2. o = path[i] /\ o \in Objects
          BY <1>21, <3>1, <5>1
        <5>3. ~ IsKnown(path[i])
          BY <1>5, <1>6, <1>20, <3>1, <5>1 DEF Always, SettledInv
        <5> QED
          BY <1>19, <5>2, <5>3
      <4> QED
        BY <4>1, <4>2
    <3> QED
      BY <1>7, <1>21, <3>1
  <2> QED
    BY <2>3, <2>4, <2>5 DEF SettledInv
<1>24. DirsInv'
  <2>1. NoMods' = NoMods
    BY DEF NoMods
  <2> QED
    BY <1>5, <1>6, <1>7, <1>12, <2>1 DEF Always, DirsInv
<1>25. path' # <<>> /\ ToSet(path') \subseteq Objects' /\ pc' = "load"
  <2>1. ToSet(path') \subseteq Objects'
    BY <1>6, <1>9, <1>14
  <2>2. path' # <<>>
    <3>1. path \in Seq(Nat) /\ n \in Nat /\ path' = Append(path, n)
      BY <1>5, <1>6, <1>8
    <3> QED
      BY <3>1
  <2> QED
    BY <1>5, <2>1, <2>2
<1> QED
  BY <1>5, <1>6, <1>11, <1>13, <1>15, <1>17, <1>21, <1>23, <1>24, <1>25, EarlyKeep

\* The tool dies on a module that is needed.
LEMMA DieStep ==
  ASSUME IInv, pc = "load", pc' = "died", HeapFrame,
         UNCHANGED <<dirs, path, sorted, order, links>>, ~ Needed \subseteq exists \ broken
  PROVE  IInv'
<1>1. Always /\ sorted = <<>> /\ order = <<>>
  BY EarlyFacts DEF Early
<1>2. /\ given' = given /\ imports' = imports /\ broken' = broken /\ tool' = tool /\ seen' = seen
      /\ sources' = sources /\ mods' = mods /\ exists' = exists
  BY DEF HeapFrame, given
<1>3. (~ Needed \subseteq exists \ broken)'
  BY <1>2, HeapNames
<1>4. GivenInv' /\ HeapInv' /\ RootedInv' /\ MapsInv'
  BY <1>1, HeapKeep
<1>5. ImportsInv'
  <2>1. \A o : Loading(o)' = Loading(o)
    BY DEF Loading
  <2> QED
    BY <1>1, <1>2, <2>1, HeapNames DEF Always, ImportsInv
<1>6. SettledInv'
  <2>1. \A o : Seeing(o)' = Seeing(o)
    BY <1>2 DEF Seeing
  <2> QED
    BY <1>1, <1>2, <2>1, HeapNames DEF Always, SettledInv
<1>7. DirsInv'
  <2>1. NoMods' = NoMods
    BY DEF NoMods
  <2> QED
    BY <1>1, <1>2, <2>1, HeapNames DEF Always, DirsInv
<1>8. PhaseInv'
  <2>1. Objects' = Objects /\ (ToSet(path))' = ToSet(path)
    BY HeapNames
  <2> QED
    BY <1>1, <2>1 DEF Always, PhaseInv
<1> QED
  BY <1>3, <1>4, <1>5, <1>6, <1>7, <1>8 DEF IInv, Always

LEMMA AddMissingStep == IInv /\ AddMissing => IInv'
<1> SUFFICES ASSUME IInv, AddMissing PROVE IInv'
  OBVIOUS
<1>1. PICK t : t = Top
  OBVIOUS
<1>2. PICK p : p = Least(ImportsLeft(Top))
  OBVIOUS
<1>3. /\ pc = "load" /\ ImportsLeft(t) # {} /\ p = Least(ImportsLeft(t)) /\ ~ CanLoad(p)
      /\ pc' = "died" /\ HeapFrame /\ UNCHANGED <<dirs, path, sorted, order, links>>
  BY <1>1, <1>2 DEF AddMissing, HeapFrame
<1>4. Always /\ t \in Objects /\ p \in imports[Path(t)]
  BY <1>1, <1>3, LoadFacts
<1>5. ~ Needed \subseteq exists \ broken
  <2>1. p \in Needed
    BY <1>4, ObjectsNeeded DEF Closed
  <2>2. p \notin exists
    BY <1>3 DEF CanLoad
  <2> QED
    BY <2>1, <2>2
<1> QED
  BY <1>3, <1>5, DieStep

LEMMA AddUnreadableStep == IInv /\ AddUnreadable => IInv'
<1> SUFFICES ASSUME IInv, AddUnreadable PROVE IInv'
  OBVIOUS
<1>1. PICK t : t = Top
  OBVIOUS
<1>2. /\ pc = "load" /\ ~ CanRead(t)
      /\ pc' = "died" /\ HeapFrame /\ UNCHANGED <<dirs, path, sorted, order, links>>
  BY <1>1 DEF AddUnreadable, HeapFrame
<1>3. Always /\ t \in Objects
  BY <1>1, <1>2, LoadFacts
<1>4. ~ Needed \subseteq exists \ broken
  <2>1. Path(t) \in Needed /\ Path(t) \in broken
    BY <1>2, <1>3, ObjectsNeeded DEF CanRead
  <2> QED
    BY <2>1
<1> QED
  BY <1>2, <1>4, DieStep

LEMMA AddReturnStep == IInv /\ AddReturn => IInv'
<1> SUFFICES ASSUME IInv, AddReturn PROVE IInv'
  OBVIOUS
<1>1. PICK t : t = Top
  OBVIOUS
<1>2. PICK k : k = Len(path)
  OBVIOUS
<1>3. /\ pc = "load" /\ ImportsLeft(t) = {} /\ Path(t) \notin broken /\ HeapFrame
      /\ given' = given /\ UNCHANGED <<dirs, sorted, order, links>>
  BY <1>1 DEF AddReturn, CanRead, HeapFrame
<1>4. /\ Always /\ pc \in Early /\ path \in Seq(Nat) /\ path # <<>> /\ t \in ToSet(path)
      /\ ToSet(path) \subseteq Objects /\ t \in Objects
  BY <1>1, <1>3, LoadFacts
<1>5. HeapInv' /\ RootedInv' /\ MapsInv' /\ Objects' = Objects
  BY <1>3, <1>4, HeapKeep, HeapNames
<1>6. imports' = imports /\ broken' = broken /\ tool' = tool /\ seen' = seen /\ sources' = sources /\ mods' = mods
  BY <1>3 DEF HeapFrame, given
<1>7. DepPaths(t) = imports[Path(t)]
  BY <1>3, <1>4 DEF ImportsLeft, Always, ImportsInv
<1>8. k \in Nat \ {0} /\ t = path[k]
  BY <1>1, <1>2, <1>4, FrontOf DEF Top
<1>10. DirsInv'
  <2>1. NoMods' = NoMods
    BY DEF NoMods
  <2> QED
    BY <1>3, <1>4, <1>6, <2>1, HeapNames DEF Always, DirsInv
<1>11. CASE k > 1
  <2>1. path' = Front(path) /\ pc' = "load"
    BY <1>2, <1>3, <1>11 DEF AddReturn
  <2>2. /\ path' \in Seq(Nat) /\ Len(path') = k - 1 /\ \A i \in 1..k - 1 : path'[i] = path[i]
        /\ ToSet(path) = ToSet(path') \cup {t}
    BY <1>2, <1>4, <1>8, <2>1, FrontOf
  <2>3. path' # <<>> /\ path'[1] = path[1]
    <3>1. 1 \in 1..k - 1 /\ Len(path') # 0
      BY <1>8, <1>11, <2>2
    <3> QED
      BY <2>2, <3>1, LenProperties, EmptySeq
  <2>4. ImportsInv'
    <3>1. \A o : Loading(o) => o = t \/ Loading(o)'
      BY <2>1, <2>2 DEF Loading
    <3> QED
      BY <1>4, <1>6, <1>7, <3>1, HeapNames, <1>3 DEF Always, ImportsInv
  <2>5. SettledInv'
    <3>1. \A o : Seeing(o)' = Seeing(o)
      BY <1>3, <1>6, <2>1, <2>3 DEF Seeing
    <3>2. (\A o \in mods : IsKnown(o))'
      BY <1>3, <1>4, <1>6, HeapNames DEF Always, SettledInv
    <3>3. (\A o \in Objects : IsKnown(o) => Seeing(o) \/ \A d \in Deps(o) : IsKnown(d))'
      BY <1>3, <1>4, <3>1, HeapNames DEF Always, SettledInv
    <3>4. (pc = "load" /\ tool = "pealist" => \A i \in 2..Len(path) : ~ IsKnown(path[i]))'
      <4>1. \A i \in 2..k - 1 : i \in 2..k /\ i \in 1..k - 1
        BY <1>8
      <4>2. tool = "pealist" => \A i \in 2..k : ~ IsKnown(path[i])
        BY <1>2, <1>3, <1>4 DEF Always, SettledInv
      <4>3. \A o : IsKnown(o)' = IsKnown(o)
        BY <1>3, HeapNames
      <4> QED
        BY <1>6, <2>2, <4>1, <4>2, <4>3
    <3> QED
      BY <3>2, <3>3, <3>4 DEF SettledInv
  <2>6. ToSet(path') \subseteq Objects' /\ pc' \in Early
    BY <1>4, <1>5, <2>1, <2>2 DEF Early
  <2> QED
    BY <1>3, <1>4, <1>5, <1>10, <2>1, <2>2, <2>3, <2>4, <2>5, <2>6, EarlyKeep
<1>12. CASE ~ (k > 1)
  <2>1. k = 1 /\ t = path[1]
    BY <1>8, <1>12
  <2>2. ToSet(path) = {t}
    <3>1. ASSUME NEW x \in ToSet(path) PROVE x = t
      <4>1. PICK i \in 1..Len(path) : path[i] = x
        BY <1>4, ElementsOf
      <4>2. i = 1
        BY <1>2, <2>1, <4>1
      <4> QED
        BY <2>1, <4>1, <4>2
    <3> QED
      BY <1>4, <3>1
  <2>3. \/ tool = "pealist" /\ pc' = "see" /\ path' = path
        \/ tool = "peac" /\ pc' = "walk" /\ path' = <<>>
    BY <1>2, <1>3, <1>4, <1>12 DEF AddReturn, Always, GivenInv
  <2>4. ImportsInv'
    <3>1. \A o : Loading(o) => o = t
      BY <2>2 DEF Loading
    <3> QED
      BY <1>3, <1>4, <1>6, <1>7, <3>1, HeapNames DEF Always, ImportsInv
  <2>5. SettledInv'
    <3>1. \A o : Seeing(o) => Seeing(o)'
      BY <1>3, <1>6, <2>1, <2>2, <2>3 DEF Seeing
    <3>2. pc' # "load"
      BY <2>3
    <3> QED
      BY <1>3, <1>4, <1>6, <3>1, <3>2, HeapNames DEF Always, SettledInv
  <2>6. ToSet(path') \subseteq Objects' /\ path' \in Seq(Nat)
    <3>1. CASE path' = path
      BY <1>4, <1>5, <3>1
    <3>2. CASE path' = <<>>
      <4>1. ToSet(path') = {}
        BY <3>2, ToSetEmpty
      <4> QED
        BY <3>2, <4>1
    <3> QED
      BY <2>3, <3>1, <3>2
  <2>7. /\ pc' \in Early /\ (pc' \in {"load", "see"} => path' # <<>>)
        /\ (pc' = "walk" => path' = <<>>) /\ (pc' = "see" => tool = "pealist")
    BY <1>4, <2>3 DEF Early
  <2> QED
    BY <1>3, <1>4, <1>5, <1>10, <2>4, <2>5, <2>6, <2>7, EarlyKeep
<1> QED
  BY <1>11, <1>12

-----------------------------------------------------------------------------
(* seeDeps *)

LEMMA SeeFacts ==
  ASSUME IInv, pc = "see", NEW t, t = Top, NEW i, i = Least(Unsettled(t)),
         NEW d, d = Dep(t, i)
  PROVE  /\ Always /\ pc \in Early /\ tool = "pealist" /\ path \in Seq(Nat) /\ path # <<>>
         /\ t \in ToSet(path) /\ ToSet(path) \subseteq Objects /\ t \in Objects /\ Known = seen
         /\ HeapInv /\ heap \in Seq(ModType)
         /\ \A o : ~ Loading(o)
         /\ \A o : Seeing(o) <=> o \in ToSet(path)
         /\ Unsettled(t) # {} =>
              /\ i \in 1..Len(heap[t].deps) /\ d \in Deps(t) /\ d \in Objects /\ d \in Nat \ {0}
              /\ Path(d) \in Paths /\ seen[Path(d)] # d
<1>1. /\ Always /\ pc \in Early /\ tool = "pealist" /\ path \in Seq(Nat) /\ path # <<>>
      /\ t \in ToSet(path) /\ ToSet(path) \subseteq Objects /\ t \in Objects
  BY EarlyFacts DEF Early
<1>2. HeapInv /\ heap \in Seq(ModType)
  BY <1>1 DEF Always, HeapInv
<1>3. Known = seen /\ (\A o : ~ Loading(o)) /\ \A o : Seeing(o) <=> o \in ToSet(path)
  BY <1>1 DEF Known, Loading, Seeing
<1>4. ASSUME Unsettled(t) # {}
      PROVE  /\ i \in 1..Len(heap[t].deps) /\ d \in Deps(t) /\ d \in Objects /\ d \in Nat \ {0}
             /\ Path(d) \in Paths /\ seen[Path(d)] # d
  <2>1. /\ DOMAIN heap[t].deps = 1..Len(heap[t].deps)
        /\ \A j \in 1..Len(heap[t].deps) : Dep(t, j) \in Deps(t)
    BY <1>1, <1>2, ObjectIs
  <2>2. Unsettled(t) \in SUBSET Nat
    BY <2>1 DEF Unsettled
  <2>3. i \in Unsettled(t)
    BY <1>4, <2>2, LeastOf
  <2>4. i \in 1..Len(heap[t].deps) /\ d \in Deps(t) /\ seen[Path(d)] # d
    BY <2>1, <2>3 DEF Unsettled
  <2>5. d \in Objects /\ d \in Nat \ {0}
    BY <1>1, <1>2, <2>4 DEF HeapInv, Objects
  <2> QED
    BY <1>2, <2>4, <2>5, ObjectIs
<1> QED
  BY <1>1, <1>2, <1>3, <1>4

LEMMA SeeNewStep == IInv /\ SeeNew => IInv'
<1> SUFFICES ASSUME IInv, SeeNew PROVE IInv'
  OBVIOUS
<1>1. PICK t : t = Top
  OBVIOUS
<1>2. PICK i : i = Least(Unsettled(t))
  OBVIOUS
<1>3. PICK d : d = Dep(t, i)
  OBVIOUS
<1>4. PICK q : q = Path(d)
  OBVIOUS
<1>5. /\ pc = "see" /\ Unsettled(t) # {} /\ seen[q] = 0
      /\ seen' = [seen EXCEPT ![q] = d] /\ path' = Append(path, d)
      /\ UNCHANGED <<given, pc, dirs, heap, loaded, mods, sorted, order, links>>
  BY <1>1, <1>2, <1>3, <1>4 DEF SeeNew
<1>6. /\ Always /\ pc \in Early /\ tool = "pealist" /\ path \in Seq(Nat) /\ path # <<>>
      /\ ToSet(path) \subseteq Objects /\ t \in Objects /\ Known = seen
      /\ HeapInv /\ heap \in Seq(ModType) /\ d \in Objects /\ d \in Nat \ {0} /\ q \in Paths
  BY <1>1, <1>2, <1>3, <1>4, <1>5, SeeFacts
<1>7. (\A o : ~ Loading(o)) /\ \A o : Seeing(o) <=> o \in ToSet(path)
  BY <1>1, <1>2, <1>3, <1>5, SeeFacts
<1>8. imports' = imports /\ broken' = broken /\ tool' = tool /\ sources' = sources /\ exists' = exists
  BY <1>5 DEF given
<1>9. /\ \A o : Path(o)' = Path(o) /\ Deps(o)' = Deps(o) /\ DepPaths(o)' = DepPaths(o)
      /\ Objects' = Objects /\ RootPaths' = RootPaths
  BY <1>5 DEF Path, Deps, DepPaths, Objects, RootPaths
<1>10. HeapInv'
  BY <1>5, <1>6, <1>9 DEF HeapInv
<1>11. RootedInv'
  <2>1. \A C : Closed(C)' = Closed(C)
    BY <1>8, ReachKeep
  <2>2. Start' = Start
    BY <1>8 DEF Start
  <2> QED
    BY <1>5, <1>6, <1>8, <1>9, <2>1, <2>2 DEF Always, RootedInv
<1>12. ImportsInv'
  BY <1>6, <1>7, <1>8, <1>9 DEF Always, ImportsInv
<1>13. /\ seen \in [Paths -> Nat] /\ seen' \in [Paths -> Nat] /\ seen'[q] = d
       /\ \A r \in Paths : r # q => seen'[r] = seen[r]
  <2>1. seen \in [Paths -> Nat]
    BY <1>6 DEF Always, MapsInv, MapIs
  <2> QED
    BY <1>5, <1>6, <2>1
<1>14. MapsInv'
  <2>1. MapIs(loaded)'
    BY <1>5, <1>6, <1>9 DEF Always, MapsInv, MapIs
  <2>2. \A r \in Paths : seen[r] # 0 => seen[r] \in Objects /\ Path(seen[r]) = r
    BY <1>6 DEF Always, MapsInv, MapIs
  <2>3. MapIs(seen)'
    BY <1>4, <1>6, <1>9, <1>13, <2>2 DEF MapIs
  <2> QED
    BY <2>1, <2>3 DEF MapsInv
<1>15. ToSet(path') = ToSet(path) \cup {d}
  <2>1. path \in Seq(Nat) /\ d \in Nat /\ path' = Append(path, d)
    BY <1>5, <1>6
  <2> QED
    BY <2>1, ToSetAppend
<1>16. \A o : Seeing(o)' <=> o \in ToSet(path')
  BY <1>5, <1>6, <1>8 DEF Seeing
<1>17. \A o \in Objects : (IsKnown(o) => IsKnown(o)') /\ (IsKnown(o)' => IsKnown(o) \/ o = d)
  <2>1. Known' = seen'
    BY <1>6, <1>8 DEF Known
  <2>2. \A o \in Objects : o # 0 /\ Path(o) \in Paths
    BY <1>6, ObjectIs DEF Objects
  <2> QED
    BY <1>5, <1>6, <1>9, <1>13, <2>1, <2>2 DEF IsKnown
<1>18. SettledInv'
  <2>1. (\A o \in mods : IsKnown(o))'
    BY <1>5, <1>6, <1>17 DEF Always, SettledInv, RootedInv
  <2>2. (\A o \in Objects : IsKnown(o) => Seeing(o) \/ \A e \in Deps(o) : IsKnown(e))'
    <3>1. ASSUME NEW o \in Objects, IsKnown(o)', ~ Seeing(o)', NEW e \in Deps(o)
          PROVE  IsKnown(e)'
      <4>1. o # d /\ ~ Seeing(o) /\ IsKnown(o) /\ e \in Objects
        BY <1>6, <1>7, <1>15, <1>16, <1>17, <3>1 DEF HeapInv
      <4>2. IsKnown(e)
        BY <1>6, <3>1, <4>1 DEF Always, SettledInv
      <4> QED
        BY <1>17, <4>1, <4>2
    <3> QED
      BY <1>9, <3>1
  <2>3. pc' # "load"
    BY <1>5
  <2> QED
    BY <2>1, <2>2, <2>3 DEF SettledInv
<1>19. DirsInv'
  <2>1. \A r \in sources : r \in ToSet(dirs) \/ seen[r] # 0
    BY <1>6 DEF Always, DirsInv
  <2>2. \A r \in sources : r \in ToSet(dirs) \/ seen'[r] # 0
    BY <1>6, <1>13, <2>1 DEF Always, GivenInv
  <2>3. dirs \in Seq(sources)
    BY <1>6 DEF Always, DirsInv
  <2> QED
    BY <1>5, <1>6, <1>8, <2>2, <2>3 DEF DirsInv
<1>20. path' \in Seq(Nat) /\ path' # <<>> /\ ToSet(path') \subseteq Objects' /\ pc' = "see"
  <2>1. path \in Seq(Nat) /\ d \in Nat /\ path' = Append(path, d)
    BY <1>5, <1>6
  <2>2. path' \in Seq(Nat) /\ path' # <<>>
    BY <2>1
  <2> QED
    BY <1>5, <1>6, <1>9, <1>15, <2>2
<1> QED
  BY <1>5, <1>6, <1>10, <1>11, <1>12, <1>14, <1>18, <1>19, <1>20, EarlyKeep

\* g is h, where the dependency i of object t is d.
HasOther(g, h, t, i, d) ==
  /\ g \in Seq(ModType) /\ Len(g) = Len(h)
  /\ \A o \in 1..Len(h) : g[o].path = h[o].path /\ (o # t => g[o].deps = h[o].deps)
  /\ g[t].deps \in Seq(Nat) /\ Len(g[t].deps) = Len(h[t].deps)
  /\ \A j \in 1..Len(h[t].deps) : g[t].deps[j] = IF j = i THEN d ELSE h[t].deps[j]

LEMMA DepReplaced ==
  ASSUME NEW h \in Seq(ModType), NEW t \in 1..Len(h), NEW i \in 1..Len(h[t].deps), NEW d \in Nat
  PROVE  HasOther([h EXCEPT ![t].deps[i] = d], h, t, i, d)
<1>1. PICK g : g = [h EXCEPT ![t].deps[i] = d]
  OBVIOUS
<1>2. h[t] \in ModType /\ h[t].path \in Paths /\ h[t].deps \in Seq(Nat)
  <2>1. h[t] \in ModType
    OBVIOUS
  <2> QED
    BY <2>1 DEF ModType
<1>3. PICK e : e = [h[t].deps EXCEPT ![i] = d]
  OBVIOUS
<1>4. /\ e \in Seq(Nat) /\ Len(e) = Len(h[t].deps)
      /\ \A j \in 1..Len(h[t].deps) : e[j] = IF j = i THEN d ELSE h[t].deps[j]
  BY <1>2, <1>3
<1>5. PICK r : r = [h[t] EXCEPT !.deps = e]
  OBVIOUS
<1>6. r \in ModType /\ r.path = h[t].path /\ r.deps = e
  BY <1>2, <1>4, <1>5 DEF ModType
<1>7. g = [h EXCEPT ![t] = r]
  BY <1>1, <1>3, <1>5
<1>8. g \in Seq(ModType) /\ Len(g) = Len(h)
  BY <1>6, <1>7
<1>9. g[t] = r /\ \A o \in 1..Len(h) : o # t => g[o] = h[o]
  BY <1>7
<1> QED
  BY <1>1, <1>4, <1>6, <1>8, <1>9 DEF HasOther

LEMMA SeeOtherStep == IInv /\ SeeOther => IInv'
<1> SUFFICES ASSUME IInv, SeeOther PROVE IInv'
  OBVIOUS
<1>1. PICK t : t = Top
  OBVIOUS
<1>2. PICK i : i = Least(Unsettled(t))
  OBVIOUS
<1>3. PICK d : d = Dep(t, i)
  OBVIOUS
<1>4. PICK x : x = seen[Path(d)]
  OBVIOUS
<1>5. /\ pc = "see" /\ Unsettled(t) # {} /\ x # 0 /\ heap' = [heap EXCEPT ![t].deps[i] = x]
      /\ UNCHANGED <<given, pc, dirs, loaded, seen, mods, path, sorted, order, links>>
  BY <1>1, <1>2, <1>3, <1>4 DEF SeeOther
<1>6. /\ Always /\ pc \in Early /\ tool = "pealist" /\ path \in Seq(Nat) /\ path # <<>>
      /\ ToSet(path) \subseteq Objects /\ t \in Objects /\ Known = seen /\ t \in ToSet(path)
      /\ HeapInv /\ heap \in Seq(ModType) /\ d \in Objects /\ d \in Deps(t)
      /\ Path(d) \in Paths /\ i \in 1..Len(heap[t].deps)
  BY <1>1, <1>2, <1>3, <1>5, SeeFacts
<1>7. (\A o : ~ Loading(o)) /\ \A o : Seeing(o) <=> o \in ToSet(path)
  BY <1>1, <1>2, <1>3, <1>5, SeeFacts
<1>8. imports' = imports /\ broken' = broken /\ tool' = tool /\ sources' = sources /\ exists' = exists
  BY <1>5 DEF given
<1>9. x \in Objects /\ Path(x) = Path(d) /\ x \in Nat
  BY <1>4, <1>5, <1>6 DEF Always, MapsInv, MapIs, Objects
<1>10. HasOther(heap', heap, t, i, x)
  <2>1. t \in 1..Len(heap)
    BY <1>6 DEF Objects
  <2> QED
    BY <1>5, <1>6, <1>9, <2>1, DepReplaced
<1>11. /\ heap' \in Seq(ModType) /\ Objects' = Objects
       /\ \A o \in Objects : Path(o)' = Path(o) /\ (o # t => Deps(o)' = Deps(o))
  BY <1>10 DEF HasOther, Objects, Path, Deps
<1>12. PICK n : n = Len(heap[t].deps)
  OBVIOUS
<1>13. /\ \A j \in 1..n : Dep(t, j)' = IF j = i THEN x ELSE Dep(t, j)
       /\ \A e \in Deps(t)' : \E j \in 1..n : Dep(t, j)' = e
       /\ \A j \in 1..n : Dep(t, j)' \in Deps(t)' /\ Dep(t, j) \in Deps(t)
       /\ \A e \in Deps(t) : \E j \in 1..n : Dep(t, j) = e
  <2>1. \A j \in 1..n : Dep(t, j)' = IF j = i THEN x ELSE Dep(t, j)
    BY <1>10, <1>12 DEF HasOther, Dep
  <2>2. PICK f : f = heap'[t].deps
    OBVIOUS
  <2>3. f \in Seq(Nat) /\ Len(f) = n
    BY <1>10, <1>12, <2>2 DEF HasOther
  <2>4. (\A e \in ToSet(f) : \E j \in 1..n : f[j] = e) /\ \A j \in 1..n : f[j] \in ToSet(f)
    BY <2>3, ElementsOf
  <2>5. heap[t].deps \in Seq(Nat)
    BY <1>6, ObjectIs
  <2>6. /\ \A e \in ToSet(heap[t].deps) : \E j \in 1..n : heap[t].deps[j] = e
        /\ \A j \in 1..n : heap[t].deps[j] \in ToSet(heap[t].deps)
    BY <1>12, <2>5, ElementsOf
  <2>7. Deps(t)' = ToSet(f) /\ \A j \in 1..n : Dep(t, j)' = f[j]
    BY <2>2 DEF Deps, Dep
  <2>8. Deps(t) = ToSet(heap[t].deps) /\ \A j \in 1..n : Dep(t, j) = heap[t].deps[j]
    BY DEF Deps, Dep
  <2>9. /\ \A e \in Deps(t)' : \E j \in 1..n : Dep(t, j)' = e
        /\ \A j \in 1..n : Dep(t, j)' \in Deps(t)'
    BY <2>4, <2>7
  <2>10. /\ \A e \in Deps(t) : \E j \in 1..n : Dep(t, j) = e
         /\ \A j \in 1..n : Dep(t, j) \in Deps(t)
    BY <2>6, <2>8
  <2> QED
    BY <2>1, <2>9, <2>10
<1>14. Deps(t)' \subseteq Deps(t) \cup {x}
  BY <1>13
<1>15. HeapInv'
  BY <1>6, <1>9, <1>11, <1>14 DEF HeapInv
<1>16. RootPaths' = RootPaths /\ mods \subseteq Objects
  <2>1. mods \subseteq Objects
    BY <1>6 DEF Always, RootedInv
  <2> QED
    BY <1>5, <1>11, <2>1 DEF RootPaths
<1>17. RootedInv'
  <2>1. \A C : Closed(C)' = Closed(C)
    BY <1>8, ReachKeep
  <2>2. Start' = Start
    BY <1>8 DEF Start
  <2> QED
    BY <1>5, <1>6, <1>8, <1>11, <1>16, <2>1, <2>2 DEF Always, RootedInv
<1>18. \A o \in Objects : DepPaths(o)' = DepPaths(o)
  <2>1. \A o \in Objects : o # t => DepPaths(o)' = DepPaths(o)
    BY <1>6, <1>11 DEF DepPaths, HeapInv
  <2>2. Deps(t) \subseteq Objects /\ \A e \in Objects : Path(e)' = Path(e)
    BY <1>6, <1>11 DEF HeapInv
  <2>3. \A j \in 1..n : Path(Dep(t, j)') = Path(Dep(t, j))
    BY <1>3, <1>9, <1>13
  <2>4. DepPaths(t)' = {Path(e) : e \in Deps(t)'}
    <3>1. \A e \in Deps(t)' : e \in Objects /\ Path(e)' = Path(e)
      BY <1>9, <1>14, <2>2
    <3> QED
      BY <3>1 DEF DepPaths
  <2>5. ASSUME NEW p \in DepPaths(t)' PROVE p \in DepPaths(t)
    <3>1. PICK e \in Deps(t)' : p = Path(e)
      BY <2>4, <2>5
    <3>2. PICK j \in 1..n : Dep(t, j)' = e
      BY <1>13
    <3> QED
      BY <1>13, <2>3, <3>1, <3>2 DEF DepPaths
  <2>6. ASSUME NEW p \in DepPaths(t) PROVE p \in DepPaths(t)'
    <3>1. PICK e \in Deps(t) : p = Path(e)
      BY <2>6 DEF DepPaths
    <3>2. PICK j \in 1..n : Dep(t, j) = e
      BY <1>13
    <3> QED
      BY <1>13, <2>3, <2>4, <3>1, <3>2
  <2> QED
    BY <2>1, <2>5, <2>6
<1>19. ImportsInv'
  BY <1>6, <1>7, <1>8, <1>11, <1>18 DEF Always, ImportsInv
<1>20. MapsInv'
  BY <1>5, <1>6, <1>11 DEF Always, MapsInv, MapIs
<1>21. \A o \in Objects : IsKnown(o)' = IsKnown(o)
  BY <1>5, <1>8, <1>11 DEF IsKnown, Known
<1>22. SettledInv'
  <2>1. \A o : Seeing(o)' = Seeing(o)
    BY <1>5, <1>8 DEF Seeing
  <2>2. (\A o \in mods : IsKnown(o))'
    BY <1>5, <1>6, <1>16, <1>21 DEF Always, SettledInv
  <2>3. (\A o \in Objects : IsKnown(o) => Seeing(o) \/ \A e \in Deps(o) : IsKnown(e))'
    <3>1. ASSUME NEW o \in Objects, IsKnown(o)', ~ Seeing(o)', NEW e \in Deps(o)'
          PROVE  IsKnown(e)'
      <4>1. o # t /\ ~ Seeing(o) /\ IsKnown(o)
        BY <1>6, <1>7, <1>21, <2>1, <3>1
      <4>2. e \in Deps(o) /\ e \in Objects
        BY <1>6, <1>11, <3>1, <4>1 DEF HeapInv
      <4>3. IsKnown(e)
        BY <1>6, <4>1, <4>2 DEF Always, SettledInv
      <4> QED
        BY <1>21, <4>2, <4>3
    <3> QED
      BY <1>11, <3>1
  <2>4. pc' # "load"
    BY <1>5
  <2> QED
    BY <2>2, <2>3, <2>4 DEF SettledInv
<1>23. DirsInv'
  <2>1. NoMods' = NoMods
    BY DEF NoMods
  <2> QED
    BY <1>5, <1>6, <1>8, <1>16, <2>1 DEF Always, DirsInv
<1>24. path' \in Seq(Nat) /\ path' # <<>> /\ ToSet(path') \subseteq Objects' /\ pc' = "see"
  BY <1>5, <1>6, <1>11
<1> QED
  BY <1>5, <1>6, <1>15, <1>17, <1>19, <1>20, <1>22, <1>23, <1>24, EarlyKeep

LEMMA SeeReturnStep == IInv /\ SeeReturn => IInv'
<1> SUFFICES ASSUME IInv, SeeReturn PROVE IInv'
  OBVIOUS
<1>1. PICK t : t = Top
  OBVIOUS
<1>2. /\ pc = "see" /\ Unsettled(t) = {} /\ HeapFrame /\ given' = given /\ path' = Front(path)
      /\ pc' = IF Len(path) > 1 THEN "see" ELSE "walk"
      /\ UNCHANGED <<dirs, sorted, order, links>>
  BY <1>1 DEF SeeReturn, HeapFrame
<1>3. /\ Always /\ pc \in Early /\ tool = "pealist" /\ path \in Seq(Nat) /\ path # <<>>
      /\ ToSet(path) \subseteq Objects /\ t \in Objects /\ Known = seen /\ HeapInv
  BY <1>1, <1>2, SeeFacts
<1>4. (\A o : ~ Loading(o)) /\ \A o : Seeing(o) <=> o \in ToSet(path)
  BY <1>1, <1>2, SeeFacts
<1>5. HeapInv' /\ RootedInv' /\ MapsInv' /\ Objects' = Objects
  BY <1>2, <1>3, HeapKeep, HeapNames
<1>6. imports' = imports /\ broken' = broken /\ tool' = tool /\ seen' = seen /\ sources' = sources /\ mods' = mods
  BY <1>2 DEF HeapFrame, given
<1>7. /\ path' \in Seq(Nat) /\ Len(path') = Len(path) - 1 /\ Len(path) \in Nat \ {0}
      /\ ToSet(path) = ToSet(path') \cup {t}
  BY <1>1, <1>2, <1>3, FrontOf DEF Top
<1>8. \A d \in Deps(t) : IsKnown(d)
  <2>1. ASSUME NEW d \in Deps(t) PROVE IsKnown(d)
    <3>1. PICK i \in DOMAIN heap[t].deps : Dep(t, i) = d
      BY DEF Deps, Dep, ToSet
    <3>2. seen[Path(d)] = d
      BY <1>2, <3>1 DEF Unsettled
    <3> QED
      BY <1>3, <3>2 DEF IsKnown
  <2> QED
    BY <2>1
<1>9. /\ pc' \in Early /\ pc' # "load" /\ (pc' \in {"load", "see"} => path' # <<>>)
      /\ (pc' = "walk" => path' = <<>>)
  <2>1. CASE Len(path) > 1
    <3>1. pc' = "see"
      BY <1>2, <2>1
    <3>2. Len(path') = Len(path) - 1 /\ Len(path) \in Nat
      BY <1>7
    <3>3. Len(path') # 0
      BY <2>1, <3>2
    <3> QED
      BY <3>1, <3>3, LenProperties, EmptySeq DEF Early
  <2>2. CASE ~ (Len(path) > 1)
    <3>1. pc' = "walk" /\ Len(path') = 0
      BY <1>2, <1>7, <2>2
    <3> QED
      BY <1>7, <3>1, EmptySeq DEF Early
  <2> QED
    BY <2>1, <2>2
<1>10. ImportsInv'
  BY <1>2, <1>3, <1>4, <1>6, HeapNames DEF Always, ImportsInv
<1>11. SettledInv'
  <2>1. \A o : Seeing(o) => o = t \/ Seeing(o)'
    <3>1. ASSUME NEW o, Seeing(o), o # t PROVE Seeing(o)'
      <4>1. o \in ToSet(path')
        BY <1>4, <1>7, <3>1
      <4>2. path' # <<>>
        BY <4>1, ToSetEmpty
      <4>3. pc' = "see"
        BY <1>2, <1>9, <4>2
      <4> QED
        BY <1>3, <1>6, <4>1, <4>3 DEF Seeing
    <3> QED
      BY <3>1
  <2>2. \A o \in Objects : IsKnown(o) => Seeing(o)' \/ \A d \in Deps(o) : IsKnown(d)
    BY <1>3, <1>8, <2>1 DEF Always, SettledInv
  <2>3. \A o \in mods : IsKnown(o)
    BY <1>3 DEF Always, SettledInv
  <2> QED
    BY <1>2, <1>6, <1>9, <2>2, <2>3, HeapNames DEF SettledInv
<1>12. DirsInv'
  <2>1. NoMods' = NoMods
    BY DEF NoMods
  <2> QED
    BY <1>2, <1>3, <1>6, <2>1, HeapNames DEF Always, DirsInv
<1>13. ToSet(path') \subseteq Objects'
  BY <1>3, <1>5, <1>7
<1> QED
  BY <1>2, <1>3, <1>5, <1>7, <1>9, <1>10, <1>11, <1>12, <1>13, EarlyKeep

-----------------------------------------------------------------------------
(* The theorems *)

LEMMA StepInv == IInv /\ [Next]_vars => IInv'
<1> SUFFICES ASSUME IInv, [Next]_vars PROVE IInv'
  OBVIOUS
<1>1. CASE UNCHANGED vars
  <2>1. HeapFrame /\ UNCHANGED <<pc, dirs, path, sorted, order, links>>
    BY <1>1 DEF vars, HeapFrame
  <2>2. /\ given' = given /\ imports' = imports /\ broken' = broken /\ tool' = tool /\ seen' = seen /\ mods' = mods
        /\ sources' = sources /\ exists' = exists /\ loaded' = loaded /\ LateFrame
    BY <1>1 DEF vars, given, LateFrame
  <2>3. Always
    BY DEF IInv
  <2>4. GivenInv' /\ HeapInv' /\ RootedInv' /\ MapsInv'
    BY <2>1, <2>3, HeapKeep
  <2>5. \A m : Loading(m)' = Loading(m) /\ Seeing(m)' = Seeing(m)
    BY <2>1, <2>2 DEF Loading, Seeing
  <2>6. ImportsInv'
    BY <2>1, <2>2, <2>3, <2>5, HeapNames DEF Always, ImportsInv
  <2>7. SettledInv'
    BY <2>1, <2>2, <2>3, <2>5, HeapNames DEF Always, SettledInv
  <2>8. DirsInv'
    <3>1. NoMods' = NoMods
      BY DEF NoMods
    <3> QED
      BY <2>1, <2>2, <2>3, <3>1, HeapNames DEF Always, DirsInv
  <2>9. PhaseInv'
    BY <2>1, <2>2, <2>3, HeapNames DEF Always, PhaseInv
  <2>10. SortInv => SortInv'
    <3>1. Chain => Chain'
      BY <2>1, HeapNames DEF Chain
    <3>2. PostOrder => PostOrder'
      <4>1. (\A m : Deps(m)' = Deps(m)) /\ Acyclic' = Acyclic /\ sorted' = sorted
        BY <2>1, HeapNames
      <4> QED
        BY <4>1 DEF PostOrder
    <3>3. Added' = Added
      BY <2>1 DEF Added
    <3>4. Distinct(path)' = Distinct(path) /\ Distinct(sorted)' = Distinct(sorted)
      BY <2>1 DEF Distinct
    <3> QED
      BY <2>1, <3>1, <3>2, <3>3, <3>4, HeapNames DEF SortInv
  <2>11. ListInv => ListInv'
    BY <2>1, <2>2, ListKeep
  <2>12. LinkInv => LinkInv'
    <3>1. Distinct(links)' = Distinct(links)
      BY <2>1 DEF Distinct
    <3> QED
      BY <2>1, <3>1, HeapNames DEF LinkInv
  <2>13. Needed' = Needed
    BY <2>1, HeapNames
  <2> QED
    BY <2>1, <2>2, <2>4, <2>6, <2>7, <2>8, <2>9, <2>10, <2>11, <2>12, <2>13 DEF IInv, Always
<1> QED
  BY <1>1, VisitSeenStep, VisitStep, WalkEndStep, AddLoadedStep, AddNewStep, AddMissingStep,
     AddUnreadableStep, AddReturnStep, SeeNewStep, SeeOtherStep, SeeReturnStep, SortRootStep, SortDepStep,
     SortReturnStep, SortEndStep, ListStep, ListEndStep, LinkDepStep, LinkReturnStep
     DEF Next, Done

THEOREM IInvariance == Spec => []IInv
BY InitInv, StepInv, PTL DEF Spec

\* When the tool is done, it has listed the paths it needs.
LEMMA DoneFacts ==
  ASSUME IInv, pc = "done"
  PROVE  ListInv /\ Always /\ pc \in Late /\ dirs = <<>> /\ ToSet(order) = Needed \cap Listed
<1>1. ListInv /\ Always /\ pc \in Late /\ dirs = <<>> /\ sorted = <<>>
  BY LastFacts DEF Late, IInv
<1>2. PathsLeft = {}
  BY <1>1, ToSetEmpty DEF PathsLeft
<1> QED
  BY <1>1, <1>2 DEF ListInv

\* Every module that the tool needs is in the order, exactly once.
THEOREM EachOnceCorrect == Spec => []EachOnce
<1>1. IInv => EachOnce
  BY DoneFacts DEF EachOnce, ListInv, Distinct
<1> QED
  BY <1>1, IInvariance, PTL

\* In a program without import cycles, a module is compiled or listed after its imports.
THEOREM DepsFirstCorrect == Spec => []DepsFirst
<1>1. IInv => DepsFirst
  BY DoneFacts DEF DepsFirst, ListInv, OrderedPaths
<1> QED
  BY <1>1, IInvariance, PTL

\* peac links what it compiled, each module once, the root first.
THEOREM LinksAllCorrect == Spec => []LinksAll
<1>1. ASSUME IInv PROVE LinksAll
  <2> SUFFICES ASSUME pc = "done", tool = "peac"
               PROVE  /\ {Path(m) : m \in ToSet(links)} = ToSet(order)
                      /\ \A i, j \in 1..Len(links) : Path(links[i]) = Path(links[j]) => i = j
                      /\ Path(links[1]) = 1
    BY DEF LinksAll
  <2>1. /\ LinkInv /\ ListInv /\ Always /\ pc \in Late /\ dirs = <<>> /\ path = <<>>
        /\ ToSet(order) = Needed \cap Listed
    BY <1>1, DoneFacts, LastFacts DEF Late, IInv
  <2>2. PICK P : P = {Path(m) : m \in ToSet(links)}
    OBVIOUS
  <2>3. /\ ToSet(links) \in SUBSET Objects /\ links \in Seq(Nat) /\ links # <<>> /\ Path(links[1]) = 1
        /\ \A m \in ToSet(links) : IsKnown(m)
    BY <2>1 DEF LinkInv
  <2>4. \A m \in ToSet(links) : Deps(m) \subseteq ToSet(links)
    BY <2>1, ToSetEmpty DEF LinkInv
  <2>5. RootPaths = {1}
    BY <2>1 DEF Always, DirsInv, Late
  <2>6. links[1] \in ToSet(links)
    BY <2>3, FrontOf, ElementsOf
  <2>7. RootPaths \subseteq P
    BY <2>2, <2>3, <2>5, <2>6
  <2>8. P = Needed
    BY <2>1, <2>2, <2>3, <2>4, <2>7, ClosedHasNeeded
  <2>9. Needed \cap Listed = Needed
    BY <2>1, ObjectsNeeded DEF Listed
  <2>10. ASSUME NEW i \in 1..Len(links), NEW j \in 1..Len(links), Path(links[i]) = Path(links[j])
         PROVE  i = j
    <3>1. IsKnown(links[i]) /\ IsKnown(links[j])
      BY <2>3, ElementsOf
    <3>2. links[i] = links[j]
      BY <2>10, <3>1, KnownByPath
    <3> QED
      BY <2>1, <3>2 DEF LinkInv, Distinct
  <2> QED
    BY <2>1, <2>2, <2>3, <2>8, <2>9, <2>10
<1> QED
  BY <1>1, IInvariance, PTL

\* What PeacBuild assumes of the listings of peac is what peac finds out.
THEOREM MeetsBuildCorrect == Spec => []MeetsBuild
<1>1. ASSUME IInv, EachOnce, LinksAll PROVE MeetsBuild
  <2> SUFFICES ASSUME pc = "done", tool = "peac"
               PROVE  /\ 1 \in Needed
                      /\ ListsOnce(order, Needed)
                      /\ ListsOnce([i \in 1..Len(links) |-> Path(links[i])], Needed)
    BY DEF MeetsBuild
  <2>1. /\ LinkInv /\ ListInv /\ Always /\ ToSet(order) = Needed \cap Listed
    BY <1>1, DoneFacts DEF IInv
  <2>2. Needed \in SUBSET Paths /\ ToSet(order) = Needed
    BY <2>1, ObjectsNeeded DEF Listed
  <2>3. PICK P : P = [i \in 1..Len(links) |-> Path(links[i])]
    OBVIOUS
  <2>4. PICK n : n = Len(links)
    OBVIOUS
  <2>5. /\ links \in Seq(Nat) /\ n \in Nat \ {0} /\ P[1] = 1
        /\ \A i \in 1..n : P[i] = Path(links[i]) /\ links[i] \in ToSet(links)
    <3>1. links \in Seq(Nat) /\ links # <<>> /\ Path(links[1]) = 1
      BY <2>1 DEF LinkInv
    <3>2. n \in Nat \ {0}
      BY <2>4, <3>1, FrontOf
    <3>3. \A i \in 1..n : P[i] = Path(links[i]) /\ links[i] \in ToSet(links)
      BY <2>3, <2>4, <3>1, ElementsOf
    <3> QED
      BY <3>1, <3>2, <3>3
  <2>6. \A i \in 1..n : P[i] \in Needed
    BY <1>1, <2>2, <2>5 DEF LinksAll
  <2>7. P \in Seq(Needed) /\ Len(P) = n
    BY <2>3, <2>4, <2>5, <2>6
  <2>8. ASSUME NEW p \in Needed PROVE \E i \in 1..n : P[i] = p
    <3>1. PICK m \in ToSet(links) : Path(m) = p
      BY <1>1, <2>2 DEF LinksAll
    <3>2. PICK i \in 1..n : links[i] = m
      BY <2>4, <2>5, ElementsOf
    <3> QED
      BY <2>5, <3>1, <3>2
  <2>9. \A i, j \in 1..n : P[i] = P[j] => i = j
    BY <1>1, <2>4, <2>5 DEF LinksAll
  <2>10. ListsOnce(P, Needed)
    BY <2>7, <2>8, <2>9 DEF ListsOnce, ListsAll
  <2>11. 1 \in Needed
    BY <2>5, <2>6
  <2>12. ListsOnce(order, Needed)
    <3>1. order \in Seq(Paths) /\ Distinct(order)
      BY <2>1 DEF ListInv
    <3>2. /\ \A i \in 1..Len(order) : order[i] \in Needed
          /\ \A p \in Needed : \E i \in 1..Len(order) : order[i] = p
      BY <2>2, <3>1, ElementsOf
    <3>3. order \in Seq(Needed)
      BY <3>1, <3>2
    <3> QED
      BY <3>1, <3>2, <3>3 DEF ListsOnce, ListsAll, Distinct
  <2> QED
    BY <2>3, <2>10, <2>11, <2>12
<1> QED
  BY <1>1, IInvariance, EachOnceCorrect, LinksAllCorrect, PTL

\* The tool fails exactly if a module that it needs is missing or cannot be read or parsed.
THEOREM DiesIfUnloadableCorrect == Spec => []DiesIfUnloadable
<1>1. IInv => DiesIfUnloadable
  BY DoneFacts DEF DiesIfUnloadable, IInv, ListInv
<1> QED
  BY <1>1, IInvariance, PTL

-----------------------------------------------------------------------------
(* The work that is left *)

\* No object has two dependencies of one path.
DepsInv ==
  \A m \in Objects : \A i, j \in 1..Len(heap[m].deps) :
    Path(Dep(m, i)) = Path(Dep(m, j)) => i = j

\* No closure is called for a module while it runs for it; addDeps runs for the objects
\* that its map has, seeDeps for those that its map has.
CallsInv ==
  /\ pc \in {"load", "see", "link"} => Distinct(path)
  /\ pc = "load" => path[1] \in mods /\ \A m \in ToSet(path) : loaded[Path(m)] = m
  /\ pc = "see" => \A m \in ToSet(path) : IsKnown(m)

WInv == IInv /\ CallsInv /\ DepsInv

Shrinks ==
  /\ \A kind \in DOMAIN WorkLeft : WorkLeft'[kind] \subseteq WorkLeft[kind]
  /\ WorkLeft' # WorkLeft

\* No kind of work grows and one of them shrinks.
LEMMA WorkParts ==
  ASSUME PhasesLeft' \subseteq PhasesLeft, (1..Len(dirs))' \subseteq 1..Len(dirs),
         AddsLeft' \subseteq AddsLeft, SeesLeft' \subseteq SeesLeft,
         SortCallsLeft' \subseteq SortCallsLeft, SortReturnsLeft' \subseteq SortReturnsLeft,
         ListsLeft' \subseteq ListsLeft,
         LinkCallsLeft' \subseteq LinkCallsLeft, LinkReturnsLeft' \subseteq LinkReturnsLeft,
         \/ PhasesLeft' # PhasesLeft \/ (1..Len(dirs))' # 1..Len(dirs)
         \/ AddsLeft' # AddsLeft \/ SeesLeft' # SeesLeft
         \/ SortCallsLeft' # SortCallsLeft \/ SortReturnsLeft' # SortReturnsLeft
         \/ ListsLeft' # ListsLeft
         \/ LinkCallsLeft' # LinkCallsLeft \/ LinkReturnsLeft' # LinkReturnsLeft
  PROVE  Shrinks
<1>1. /\ DOMAIN WorkLeft = {"phases", "dirs", "adds", "sees", "sortCalls", "sortReturns",
                            "lists", "linkCalls", "linkReturns"}
      /\ WorkLeft.phases = PhasesLeft /\ WorkLeft.dirs = 1..Len(dirs)
      /\ WorkLeft.adds = AddsLeft /\ WorkLeft.sees = SeesLeft
      /\ WorkLeft.sortCalls = SortCallsLeft /\ WorkLeft.sortReturns = SortReturnsLeft
      /\ WorkLeft.lists = ListsLeft
      /\ WorkLeft.linkCalls = LinkCallsLeft /\ WorkLeft.linkReturns = LinkReturnsLeft
  BY DEF WorkLeft
<1>2. /\ WorkLeft'.phases = PhasesLeft' /\ WorkLeft'.dirs = (1..Len(dirs))'
      /\ WorkLeft'.adds = AddsLeft' /\ WorkLeft'.sees = SeesLeft'
      /\ WorkLeft'.sortCalls = SortCallsLeft' /\ WorkLeft'.sortReturns = SortReturnsLeft'
      /\ WorkLeft'.lists = ListsLeft'
      /\ WorkLeft'.linkCalls = LinkCallsLeft' /\ WorkLeft'.linkReturns = LinkReturnsLeft'
  BY DEF WorkLeft
<1>3. WorkLeft' # WorkLeft
  BY <1>1, <1>2
<1>4. ASSUME NEW kind \in DOMAIN WorkLeft PROVE WorkLeft'[kind] \subseteq WorkLeft[kind]
  BY <1>1, <1>2
<1> QED
  BY <1>3, <1>4 DEF Shrinks

\* In the first phases, the work of the later ones is all left.
LEMMA EarlyShrinks ==
  ASSUME pc \in Early, pc' \in Early \cup {"died"}, NEW k \in Nat, NEW l \in Nat,
         k = Len(dirs), l = Len(dirs'), l <= k,
         AddsLeft' \subseteq AddsLeft, SeesLeft' \subseteq SeesLeft,
         l # k \/ AddsLeft' # AddsLeft \/ SeesLeft' # SeesLeft
  PROVE  Shrinks
<1>1. PhasesLeft = {"sort", "list", "link"} /\ PhasesLeft' \subseteq {"sort", "list", "link"}
  BY DEF PhasesLeft, Early
<1>2. /\ SortCallsLeft = Paths /\ SortReturnsLeft = Paths /\ ListsLeft = Paths
      /\ LinkCallsLeft = Paths /\ LinkReturnsLeft = Paths
  BY <1>1 DEF SortCallsLeft, SortReturnsLeft, ListsLeft, LinkCallsLeft, LinkReturnsLeft, Early
<1>3. /\ SortCallsLeft' \subseteq Paths /\ SortReturnsLeft' \subseteq Paths
      /\ ListsLeft' \subseteq Paths /\ LinkCallsLeft' \subseteq Paths
      /\ LinkReturnsLeft' \subseteq Paths
  BY DEF SortCallsLeft, SortReturnsLeft, ListsLeft, LinkCallsLeft, LinkReturnsLeft, Early
<1>4. (1..Len(dirs))' \subseteq 1..Len(dirs) /\ (l # k => (1..Len(dirs))' # 1..Len(dirs))
  <2>1. (1..Len(dirs))' = 1..l /\ 1..Len(dirs) = 1..k
    OBVIOUS
  <2>2. l # k => k \in 1..k /\ k \notin 1..l
    OBVIOUS
  <2> QED
    BY <2>1, <2>2
<1> QED
  BY <1>1, <1>2, <1>3, <1>4, WorkParts

\* In the later phases, the work of the first ones is done.
LEMMA LateShrinks ==
  ASSUME pc \in Late \cup {"walk"}, pc' \in Late, LateFrame, dirs = <<>>,
         PhasesLeft' \subseteq PhasesLeft,
         SortCallsLeft' \subseteq SortCallsLeft, SortReturnsLeft' \subseteq SortReturnsLeft,
         ListsLeft' \subseteq ListsLeft,
         LinkCallsLeft' \subseteq LinkCallsLeft, LinkReturnsLeft' \subseteq LinkReturnsLeft,
         \/ PhasesLeft' # PhasesLeft
         \/ SortCallsLeft' # SortCallsLeft \/ SortReturnsLeft' # SortReturnsLeft
         \/ ListsLeft' # ListsLeft
         \/ LinkCallsLeft' # LinkCallsLeft \/ LinkReturnsLeft' # LinkReturnsLeft
  PROVE  Shrinks
<1>1. dirs' = dirs /\ seen' = seen /\ Len(dirs) = 0
  BY DEF LateFrame
<1>2. AddsLeft' \subseteq AddsLeft
  <2>1. AddsLeft' = {}
    BY <1>1 DEF AddsLeft, AddLeft, Late
  <2> QED
    BY <2>1
<1>3. SeesLeft' \subseteq SeesLeft
  BY <1>1 DEF SeesLeft, SeeLeft, Late
<1> QED
  BY <1>1, <1>2, <1>3, WorkParts

\* Nor do the later phases touch what the invariant says of the first ones.
LEMMA LateCalls ==
  ASSUME WInv, pc' \in Late, HeapFrame, pc' = "link" => Distinct(path')
  PROVE  CallsInv' /\ DepsInv'
<1>1. DepsInv'
  BY HeapNames DEF WInv, DepsInv, HeapFrame, Path, Dep
<1>2. CallsInv'
  BY DEF CallsInv, Late, Distinct
<1> QED
  BY <1>1, <1>2

LEMMA PhasesAre ==
  /\ pc \in Early => PhasesLeft = {"sort", "list", "link"}
  /\ pc = "sort" => PhasesLeft = {"list", "link"}
  /\ pc = "list" => PhasesLeft = {"link"}
  /\ pc \in {"link", "done"} => PhasesLeft = {}
BY DEF PhasesLeft, Early

LEMMA WalkEndShrinks ==
  ASSUME WInv, WalkEnd
  PROVE  CallsInv' /\ DepsInv' /\ Shrinks
<1>1. pc = "walk" /\ pc' = "sort" /\ dirs = <<>> /\ LateFrame /\ HeapFrame
  BY DEF WalkEnd, LateFrame, HeapFrame
<1>2. PhasesLeft = {"sort", "list", "link"} /\ PhasesLeft' = {"list", "link"}
  BY <1>1 DEF PhasesLeft
<1>3. SortCallsLeft = Paths /\ SortReturnsLeft = Paths
  BY <1>1, <1>2 DEF SortCallsLeft, SortReturnsLeft
<1>4. SortCallsLeft' \subseteq Paths /\ SortReturnsLeft' \subseteq Paths
  BY <1>1 DEF SortCallsLeft, SortReturnsLeft, Without
<1>5. ListsLeft = Paths /\ LinkCallsLeft = Paths /\ LinkReturnsLeft = Paths
  BY <1>1, <1>2 DEF ListsLeft, LinkCallsLeft, LinkReturnsLeft
<1>6. ListsLeft' = Paths /\ LinkCallsLeft' = Paths /\ LinkReturnsLeft' = Paths
  BY <1>1, <1>2 DEF ListsLeft, LinkCallsLeft, LinkReturnsLeft
<1>7. CallsInv' /\ DepsInv'
  BY <1>1, LateCalls DEF Late
<1>8. Shrinks
  BY <1>1, <1>2, <1>3, <1>4, <1>5, <1>6, LateShrinks DEF Late
<1> QED
  BY <1>7, <1>8

\* A turn of the sorting only adds to sorted and path.
LEMMA SortShrinks ==
  ASSUME WInv, pc = "sort", pc' = "sort", LateFrame, UNCHANGED <<order, links>>,
         Added \subseteq Added', ToSet(sorted) \subseteq ToSet(sorted'),
         NEW m \in Objects, IsKnown(m),
         \/ m \in Added' /\ m \notin Added
         \/ m \in ToSet(sorted') /\ m \notin ToSet(sorted)
  PROVE  CallsInv' /\ DepsInv' /\ Shrinks
<1>1. Always /\ SortInv /\ dirs = <<>> /\ HeapFrame /\ \A x : Path(x)' = Path(x)
  BY SortFacts, NamesKeep DEF WInv, LateFrame, HeapFrame
<1>2. Path(m) \in Paths
  BY <1>1, ObjectIs DEF Always
<1>3. \A x \in Added : Path(x) = Path(m) => x = m
  BY <1>1, KnownByPath DEF SortInv
<1>4. SortCallsLeft = Without(Added) /\ SortReturnsLeft = Without(ToSet(sorted))
  BY DEF SortCallsLeft, SortReturnsLeft, Added
<1>5. /\ SortCallsLeft' = {p \in Paths : \A x \in Added' : Path(x) # p}
      /\ SortReturnsLeft' = {p \in Paths : \A x \in ToSet(sorted') : Path(x) # p}
  BY <1>1 DEF SortCallsLeft, SortReturnsLeft, Added, Without, ToSet
<1>6. SortCallsLeft' \subseteq SortCallsLeft /\ SortReturnsLeft' \subseteq SortReturnsLeft
  BY <1>4, <1>5 DEF Without
<1>7. SortCallsLeft' # SortCallsLeft \/ SortReturnsLeft' # SortReturnsLeft
  <2>1. CASE m \in Added' /\ m \notin Added
    <3>1. Path(m) \in SortCallsLeft
      BY <1>2, <1>3, <1>4, <2>1 DEF Without
    <3>2. Path(m) \notin SortCallsLeft'
      BY <1>5, <2>1
    <3> QED
      BY <3>1, <3>2
  <2>2. CASE m \in ToSet(sorted') /\ m \notin ToSet(sorted)
    <3>1. Path(m) \in SortReturnsLeft
      BY <1>2, <1>3, <1>4, <2>2 DEF Without, Added
    <3>2. Path(m) \notin SortReturnsLeft'
      BY <1>5, <2>2
    <3> QED
      BY <3>1, <3>2
  <2> QED
    BY <2>1, <2>2
<1>8. PhasesLeft = {"list", "link"} /\ PhasesLeft' = {"list", "link"}
  BY DEF PhasesLeft
<1>9. ListsLeft = Paths /\ LinkCallsLeft = Paths /\ LinkReturnsLeft = Paths
  BY <1>8 DEF ListsLeft, LinkCallsLeft, LinkReturnsLeft
<1>10. ListsLeft' = Paths /\ LinkCallsLeft' = Paths /\ LinkReturnsLeft' = Paths
  BY <1>8 DEF ListsLeft, LinkCallsLeft, LinkReturnsLeft
<1>11. CallsInv' /\ DepsInv'
  BY <1>1, LateCalls DEF Late
<1>12. Shrinks
  BY <1>1, <1>6, <1>7, <1>8, <1>9, <1>10, LateShrinks DEF Late
<1> QED
  BY <1>11, <1>12

\* A call is pushed.
LEMMA DistinctAppend ==
  ASSUME NEW S, NEW s \in Seq(S), NEW x \in S, Distinct(s), x \notin ToSet(s)
  PROVE  Distinct(Append(s, x))
<1>1. \A i \in 1..Len(s) : s[i] # x
  BY ElementsOf
<1>2. /\ Len(s) \in Nat /\ Len(Append(s, x)) = Len(s) + 1
      /\ \A i \in 1..Len(s) : Append(s, x)[i] = s[i]
      /\ Append(s, x)[Len(s) + 1] = x
  OBVIOUS
<1> QED
  BY <1>1, <1>2 DEF Distinct

\* A call is popped.
LEMMA DistinctFront ==
  ASSUME NEW S, NEW s \in Seq(S), s # <<>>, Distinct(s)
  PROVE  Distinct(Front(s)) /\ ToSet(Front(s)) = ToSet(s) \ {s[Len(s)]}
<1>1. PICK n : n = Len(s) - 1
  OBVIOUS
<1>2. PICK f : f = Front(s)
  OBVIOUS
<1>3. /\ n \in Nat /\ f \in Seq(S) /\ Len(f) = n /\ Len(s) = n + 1
      /\ \A i \in 1..n : f[i] = s[i]
      /\ ToSet(s) = ToSet(f) \cup {s[n + 1]}
  BY <1>1, <1>2, FrontOf
<1>4. Distinct(f)
  BY <1>3 DEF Distinct
<1>5. s[n + 1] \notin ToSet(f)
  <2>1. \A i \in 1..n : f[i] # s[n + 1]
    BY <1>3 DEF Distinct
  <2> QED
    BY <1>3, <2>1, ElementsOf
<1> QED
  BY <1>2, <1>3, <1>4, <1>5

LEMMA SortRootShrinks ==
  ASSUME WInv, SortRoot
  PROVE  CallsInv' /\ DepsInv' /\ Shrinks
<1>1. pc = "sort" /\ LateFrame /\ UNCHANGED <<pc, sorted, order, links>>
  BY DEF SortRoot, LateFrame
<1>2. PICK d \in Objects : IsKnown(d) /\ d \notin Added /\ path' = Append(path, d)
  BY SortRootCalls DEF WInv
<1>3. path \in Seq(Nat) /\ d \in Nat
  BY <1>1, SortFacts DEF WInv, Objects
<1>4. ToSet(path') = ToSet(path) \cup {d}
  BY <1>2, <1>3, ToSetAppend
<1>5. Added' = Added \cup {d} /\ ToSet(sorted') = ToSet(sorted)
  BY <1>1, <1>4 DEF Added
<1> QED
  BY <1>1, <1>2, <1>5, SortShrinks

LEMMA SortDepShrinks ==
  ASSUME WInv, SortDep
  PROVE  CallsInv' /\ DepsInv' /\ Shrinks
<1>1. pc = "sort" /\ LateFrame /\ UNCHANGED <<pc, sorted, order, links>>
  BY DEF SortDep, LateFrame
<1>2. PICK d \in Objects : IsKnown(d) /\ d \notin Added /\ path' = Append(path, d)
  BY SortDepCalls DEF WInv
<1>3. path \in Seq(Nat) /\ d \in Nat
  BY <1>1, SortFacts DEF WInv, Objects
<1>4. ToSet(path') = ToSet(path) \cup {d}
  BY <1>2, <1>3, ToSetAppend
<1>5. Added' = Added \cup {d} /\ ToSet(sorted') = ToSet(sorted)
  BY <1>1, <1>4 DEF Added
<1> QED
  BY <1>1, <1>2, <1>5, SortShrinks

LEMMA SortReturnShrinks ==
  ASSUME WInv, SortReturn
  PROVE  CallsInv' /\ DepsInv' /\ Shrinks
<1>1. /\ pc = "sort" /\ pc' = "sort" /\ LateFrame /\ UNCHANGED <<order, links>>
      /\ sorted' = Append(sorted, Top) /\ path' = Front(path) /\ path # <<>>
  BY DEF SortReturn, LateFrame, AddSorted
<1>2. SortInv /\ path \in Seq(Nat) /\ sorted \in Seq(Nat)
  BY <1>1, SortFacts DEF WInv, SortInv
<1>3. ToSet(path) = ToSet(path') \cup {Top} /\ Top \in ToSet(path)
  BY <1>1, <1>2, FrontOf DEF Top
<1>4. /\ Top \in Objects /\ IsKnown(Top) /\ Top \notin ToSet(sorted) /\ Top \in Nat
  <2>1. Top \in Objects /\ IsKnown(Top) /\ Top \notin ToSet(sorted)
    BY <1>2, <1>3 DEF SortInv, Added
  <2> QED
    BY <2>1 DEF Objects
<1>5. ToSet(sorted') = ToSet(sorted) \cup {Top}
  BY <1>1, <1>2, <1>4, ToSetAppend
<1>6. Added' = Added
  BY <1>3, <1>5 DEF Added
<1> QED
  BY <1>1, <1>4, <1>5, <1>6, SortShrinks

LEMMA SortEndShrinks ==
  ASSUME WInv, SortEnd
  PROVE  CallsInv' /\ DepsInv' /\ Shrinks
<1>1. pc = "sort" /\ pc' = "list" /\ LateFrame /\ HeapFrame /\ UNCHANGED <<path, sorted, links>>
  BY DEF SortEnd, LateFrame, HeapFrame
<1>2. Always /\ SortInv /\ dirs = <<>> /\ \A x : Path(x)' = Path(x)
  BY <1>1, SortFacts, NamesKeep DEF WInv
<1>3. PhasesLeft = {"list", "link"} /\ PhasesLeft' = {"link"}
  BY <1>1 DEF PhasesLeft
<1>4. \A m \in ToSet(sorted) : Path(m) \in Paths
  BY <1>2, ObjectIs DEF SortInv, Added, Always
<1>5. ListsLeft = Paths /\ ListsLeft' \subseteq Paths
  BY <1>1, <1>2, <1>3, <1>4 DEF ListsLeft
<1>6. SortCallsLeft' = {} /\ SortReturnsLeft' = {}
  BY <1>1, <1>3 DEF SortCallsLeft, SortReturnsLeft
<1>7. /\ LinkCallsLeft = Paths /\ LinkReturnsLeft = Paths
      /\ LinkCallsLeft' = Paths /\ LinkReturnsLeft' = Paths
  BY <1>1, <1>3 DEF LinkCallsLeft, LinkReturnsLeft
<1>8. CallsInv' /\ DepsInv'
  BY <1>1, LateCalls DEF Late
<1>9. Shrinks
  BY <1>1, <1>2, <1>3, <1>5, <1>6, <1>7, LateShrinks DEF Late
<1> QED
  BY <1>8, <1>9

LEMMA ListShrinks ==
  ASSUME WInv, List
  PROVE  CallsInv' /\ DepsInv' /\ Shrinks
<1>1. /\ pc = "list" /\ pc' = "list" /\ LateFrame /\ HeapFrame /\ UNCHANGED <<path, links>>
      /\ sorted # <<>> /\ sorted' = Tail(sorted)
  BY DEF List, LateFrame, HeapFrame
<1>2. ListInv /\ dirs = <<>> /\ sorted \in Seq(Nat) /\ \A x : Path(x)' = Path(x)
  BY <1>1, LastFacts, NamesKeep DEF WInv, ListInv, Late
<1>3. PICK n : n = Len(sorted) - 1
  OBVIOUS
<1>4. PICK f : f = sorted'
  OBVIOUS
<1>5. /\ n \in Nat /\ f \in Seq(Nat) /\ Len(f) = n /\ Len(sorted) = n + 1
      /\ \A i \in 1..n : f[i] = sorted[i + 1]
      /\ ToSet(sorted) = ToSet(f) \cup {sorted[1]}
  BY <1>1, <1>2, <1>3, <1>4, TailOf
<1>6. \A m \in ToSet(f) : Path(m) # Path(sorted[1])
  <2>1. \A i \in 1..n : Path(f[i]) # Path(sorted[1])
    BY <1>2, <1>5 DEF ListInv
  <2> QED
    BY <1>5, <2>1, ElementsOf
<1>7. PhasesLeft = {"link"} /\ PhasesLeft' = {"link"}
  BY <1>1 DEF PhasesLeft
<1>8. ListsLeft = {Path(m) : m \in ToSet(sorted)} /\ ListsLeft' = {Path(m) : m \in ToSet(f)}
  BY <1>1, <1>2, <1>4 DEF ListsLeft
<1>9. ListsLeft' \subseteq ListsLeft /\ ListsLeft' # ListsLeft
  <2>1. Path(sorted[1]) \in ListsLeft /\ Path(sorted[1]) \notin ListsLeft'
    BY <1>5, <1>6, <1>8
  <2> QED
    BY <1>5, <1>8, <2>1
<1>10. SortCallsLeft' = {} /\ SortReturnsLeft' = {}
  BY <1>1, <1>7 DEF SortCallsLeft, SortReturnsLeft
<1>11. /\ LinkCallsLeft = Paths /\ LinkReturnsLeft = Paths
       /\ LinkCallsLeft' = Paths /\ LinkReturnsLeft' = Paths
  BY <1>1, <1>7 DEF LinkCallsLeft, LinkReturnsLeft
<1>12. CallsInv' /\ DepsInv'
  BY <1>1, LateCalls DEF Late
<1>13. Shrinks
  BY <1>1, <1>2, <1>7, <1>9, <1>10, <1>11, LateShrinks DEF Late
<1> QED
  BY <1>12, <1>13

LEMMA ListEndShrinks ==
  ASSUME WInv, ListEnd
  PROVE  CallsInv' /\ DepsInv' /\ Shrinks
<1>1. pc = "list" /\ LateFrame /\ HeapFrame /\ dirs = <<>>
  BY LastFacts DEF WInv, ListEnd, LateFrame, HeapFrame, Late
<1>2. pc' = "done" \/ (pc' = "link" /\ \E m : path' = <<m>>)
  BY DEF ListEnd
<1>3. pc' = "link" => Distinct(path')
  BY <1>2 DEF Distinct
<1>4. PhasesLeft = {"link"} /\ PhasesLeft' = {}
  BY <1>1, <1>2 DEF PhasesLeft
<1>5. SortCallsLeft' = {} /\ SortReturnsLeft' = {} /\ ListsLeft' = {}
  BY <1>2, <1>4 DEF SortCallsLeft, SortReturnsLeft, ListsLeft
<1>6. LinkCallsLeft = Paths /\ LinkReturnsLeft = Paths
  BY <1>1, <1>4 DEF LinkCallsLeft, LinkReturnsLeft
<1>7. LinkCallsLeft' \subseteq Paths /\ LinkReturnsLeft' \subseteq Paths
  BY <1>4 DEF LinkCallsLeft, LinkReturnsLeft, Without
<1>8. CallsInv' /\ DepsInv'
  BY <1>1, <1>2, <1>3, LateCalls DEF Late
<1>9. Shrinks
  BY <1>1, <1>2, <1>4, <1>5, <1>6, <1>7, LateShrinks DEF Late
<1> QED
  BY <1>8, <1>9

LEMMA LinkDepShrinks ==
  ASSUME WInv, LinkDep
  PROVE  CallsInv' /\ DepsInv' /\ Shrinks
<1>1. pc = "link" /\ pc' = "link" /\ LateFrame /\ HeapFrame
  BY DEF LinkDep, LateFrame, HeapFrame
<1>2. PICK d \in Objects : /\ IsKnown(d) /\ d \notin ToSet(links)
                           /\ path' = Append(path, d) /\ links' = Append(links, d)
  BY LinkDepCalls DEF WInv
<1>3. /\ Always /\ LinkInv /\ dirs = <<>> /\ path \in Seq(Nat) /\ links \in Seq(Nat) /\ d \in Nat
      /\ \A x : Path(x)' = Path(x)
  BY <1>1, LinkFacts, LastFacts, NamesKeep DEF WInv, LinkInv, Late, Objects
<1>4. Path(d) \in Paths
  BY <1>3, ObjectIs DEF Always
<1>5. ToSet(path') = ToSet(path) \cup {d} /\ ToSet(links') = ToSet(links) \cup {d}
  <2>1. ToSet(Append(path, d)) = ToSet(path) \cup {d}
    BY <1>3, ToSetAppend
  <2>2. ToSet(Append(links, d)) = ToSet(links) \cup {d}
    BY <1>3, ToSetAppend
  <2> QED
    BY <1>2, <2>1, <2>2
<1>6. d \notin ToSet(path) /\ \A m \in ToSet(links) : Path(m) # Path(d)
  BY <1>2, <1>3, KnownByPath DEF LinkInv
<1>7. Distinct(path')
  BY <1>1, <1>2, <1>3, <1>6, DistinctAppend DEF WInv, CallsInv
<1>8. /\ LinkCallsLeft = Without(ToSet(links))
      /\ LinkCallsLeft' = {p \in Paths : \A m \in ToSet(links) \cup {d} : Path(m) # p}
  BY <1>1, <1>3, <1>5 DEF LinkCallsLeft, Without, ToSet
<1>9. LinkCallsLeft' \subseteq LinkCallsLeft /\ LinkCallsLeft' # LinkCallsLeft
  <2>1. Path(d) \in LinkCallsLeft /\ Path(d) \notin LinkCallsLeft'
    BY <1>4, <1>6, <1>8 DEF Without
  <2> QED
    BY <1>8, <2>1 DEF Without
<1>10. LinkReturnsLeft' \subseteq LinkReturnsLeft
  <2>1. (ToSet(links) \ ToSet(path))' = ToSet(links) \ ToSet(path)
    BY <1>2, <1>5, <1>6
  <2> QED
    BY <1>1, <1>3, <2>1 DEF LinkReturnsLeft, Without
<1>11. PhasesLeft' = {} /\ PhasesLeft = {}
  BY <1>1 DEF PhasesLeft
<1>12. SortCallsLeft' = {} /\ SortReturnsLeft' = {} /\ ListsLeft' = {}
  BY <1>1, <1>11 DEF SortCallsLeft, SortReturnsLeft, ListsLeft
<1>13. CallsInv' /\ DepsInv'
  BY <1>1, <1>7, LateCalls DEF Late
<1>14. Shrinks
  BY <1>1, <1>3, <1>9, <1>10, <1>11, <1>12, LateShrinks DEF Late
<1> QED
  BY <1>13, <1>14

LEMMA LinkReturnShrinks ==
  ASSUME WInv, LinkReturn
  PROVE  CallsInv' /\ DepsInv' /\ Shrinks
<1>1. /\ pc = "link" /\ pc' \in {"link", "done"} /\ LateFrame /\ HeapFrame
      /\ path' = Front(path) /\ links' = links
  BY LinkFacts DEF LinkReturn, LateFrame, HeapFrame, WInv
<1>2. /\ Always /\ LinkInv /\ dirs = <<>> /\ path \in Seq(Nat) /\ path # <<>>
      /\ Top \in ToSet(links) /\ Top \in ToSet(path) /\ Top \in Objects
      /\ \A x : Path(x)' = Path(x)
  BY <1>1, LinkFacts, LastFacts, NamesKeep DEF WInv, Late
<1>3. Path(Top) \in Paths
  BY <1>2, ObjectIs DEF Always
<1>4. Distinct(path') /\ ToSet(path') = ToSet(path) \ {Top}
  BY <1>1, <1>2, DistinctFront DEF WInv, CallsInv, Top
<1>5. \A m \in ToSet(links) \ ToSet(path) : Path(m) # Path(Top)
  BY <1>2, KnownByPath DEF LinkInv
<1>6. LinkReturnsLeft = Without(ToSet(links) \ ToSet(path))
  BY <1>1 DEF LinkReturnsLeft
<1>7. /\ LinkReturnsLeft' \subseteq LinkReturnsLeft
      /\ Path(Top) \notin LinkReturnsLeft'
  <2>1. CASE pc' = "link"
    <3>1. (ToSet(links) \ ToSet(path))' = (ToSet(links) \ ToSet(path)) \cup {Top}
      BY <1>1, <1>2, <1>4
    <3>2. LinkReturnsLeft' =
            {p \in Paths : \A m \in (ToSet(links) \ ToSet(path)) \cup {Top} : Path(m) # p}
      BY <1>2, <2>1, <3>1 DEF LinkReturnsLeft, Without
    <3> QED
      BY <1>6, <3>2 DEF Without
  <2>2. CASE pc' = "done"
    <3>1. LinkReturnsLeft' = {}
      BY <2>2 DEF LinkReturnsLeft, PhasesLeft
    <3> QED
      BY <3>1
  <2> QED
    BY <1>1, <2>1, <2>2
<1>8. Path(Top) \in LinkReturnsLeft
  BY <1>3, <1>5, <1>6 DEF Without
<1>9. PhasesLeft' = {} /\ PhasesLeft = {}
  BY <1>1 DEF PhasesLeft
<1>10. LinkCallsLeft' \subseteq LinkCallsLeft
  BY <1>1, <1>2, <1>9 DEF LinkCallsLeft, Without, ToSet
<1>11. SortCallsLeft' = {} /\ SortReturnsLeft' = {} /\ ListsLeft' = {}
  BY <1>1, <1>9 DEF SortCallsLeft, SortReturnsLeft, ListsLeft
<1>12. CallsInv' /\ DepsInv'
  BY <1>1, <1>4, LateCalls DEF Late
<1>13. Shrinks
  BY <1>1, <1>2, <1>7, <1>8, <1>9, <1>10, <1>11, LateShrinks DEF Late
<1> QED
  BY <1>12, <1>13

\* How to see that there is less to do for addDeps, and for seeDeps.
LEMMA AddsShrink ==
  ASSUME NEW k \in Nat, NEW l \in Nat, k = Len(dirs), l = Len(dirs'), l <= k,
         \A j \in 1..l + 1, p \in Paths, q \in Paths \cup {0} :
           AddLeft(j, p, q)' => AddLeft(j, p, q)
  PROVE  /\ AddsLeft' \subseteq AddsLeft
         /\ \A p \in Paths, q \in Paths \cup {0} :
              AddLeft(k + 1, p, q) /\ ~ AddLeft(k + 1, p, q)' => AddsLeft' # AddsLeft
<1> DEFINE Now == {e \in (1..k + 1) \X Paths \X (Paths \cup {0}) : AddLeft(e[1], e[2], e[3])}
           Then == {e \in (1..l + 1) \X Paths \X (Paths \cup {0}) : AddLeft(e[1], e[2], e[3])'}
<1>1. AddsLeft = Now /\ AddsLeft' = Then
  BY DEF AddsLeft
<1>2. Then \subseteq Now
  OBVIOUS
<1>3. ASSUME NEW p \in Paths, NEW q \in Paths \cup {0},
             AddLeft(k + 1, p, q), ~ AddLeft(k + 1, p, q)'
      PROVE  Then # Now
  <2>1. <<k + 1, p, q>> \in Now
    BY <1>3
  <2>2. <<k + 1, p, q>> \notin Then
    BY <1>3
  <2> QED
    BY <2>1, <2>2
<1> QED
  BY <1>1, <1>2, <1>3

\* A step of addDeps.
LEMMA AddDone ==
  ASSUME NEW k \in Nat, k = Len(dirs), dirs' = dirs,
         \A j \in 1..k + 1, p \in Paths, q \in Paths \cup {0} : AddLeft(j, p, q)' => AddLeft(j, p, q),
         NEW u \in Paths, NEW q \in Paths \cup {0},
         AddLeft(k + 1, u, q), ~ AddLeft(k + 1, u, q)'
  PROVE  AddsLeft' \subseteq AddsLeft /\ AddsLeft' # AddsLeft
<1>1. k = Len(dirs') /\ k <= k
  OBVIOUS
<1>2. /\ AddsLeft' \subseteq AddsLeft
      /\ \A v \in Paths, r \in Paths \cup {0} :
           AddLeft(k + 1, v, r) /\ ~ AddLeft(k + 1, v, r)' => AddsLeft' # AddsLeft
  BY <1>1, AddsShrink
<1> QED
  BY <1>2

LEMMA SeesShrink ==
  ASSUME \A p \in Paths, q \in Paths \cup {0} : SeeLeft(p, q)' => SeeLeft(p, q)
  PROVE  /\ SeesLeft' \subseteq SeesLeft
         /\ \A p \in Paths, q \in Paths \cup {0} :
              SeeLeft(p, q) /\ ~ SeeLeft(p, q)' => SeesLeft' # SeesLeft
<1> DEFINE Now == {e \in Paths \X (Paths \cup {0}) : SeeLeft(e[1], e[2])}
           Then == {e \in Paths \X (Paths \cup {0}) : SeeLeft(e[1], e[2])'}
<1>1. SeesLeft = Now /\ SeesLeft' = Then
  BY DEF SeesLeft
<1>2. Then \subseteq Now
  OBVIOUS
<1>3. ASSUME NEW p \in Paths, NEW q \in Paths \cup {0}, SeeLeft(p, q), ~ SeeLeft(p, q)'
      PROVE  Then # Now
  <2>1. <<p, q>> \in Now
    BY <1>3
  <2>2. <<p, q>> \notin Then
    BY <1>3
  <2> QED
    BY <2>1, <2>2
<1> QED
  BY <1>1, <1>2, <1>3

LEMMA VisitSeenShrinks ==
  ASSUME WInv, VisitSeen
  PROVE  CallsInv' /\ DepsInv' /\ Shrinks
<1>1. /\ pc = "walk" /\ pc' = "walk" /\ dirs # <<>> /\ dirs' = Tail(dirs) /\ HeapFrame
      /\ seen' = seen /\ Always
  BY DEF VisitSeen, HeapFrame, WInv, IInv
<1>2. PICK k : k = Len(dirs)
  OBVIOUS
<1>3. k \in Nat \ {0} /\ Len(dirs') = k - 1
  BY <1>1, <1>2, TailOf DEF Always, DirsInv
<1>4. \A j \in 1..k - 1 + 1, p \in Paths, q \in Paths \cup {0} : AddLeft(j, p, q)' => AddLeft(j, p, q)
  BY <1>1, <1>2, <1>3 DEF AddLeft
<1>5. \A p \in Paths, q \in Paths \cup {0} : SeeLeft(p, q)' => SeeLeft(p, q)
  BY <1>1 DEF SeeLeft
<1>6. Shrinks
  <2>1. k - 1 \in Nat /\ k - 1 <= k /\ k - 1 # k /\ k \in Nat
    BY <1>3
  <2>2. AddsLeft' \subseteq AddsLeft
    BY <1>2, <1>3, <1>4, <2>1, AddsShrink
  <2>3. SeesLeft' \subseteq SeesLeft
    BY <1>5, SeesShrink
  <2> QED
    BY <1>1, <1>2, <1>3, <2>1, <2>2, <2>3, EarlyShrinks DEF Early
<1>7. DepsInv'
  BY <1>1, HeapNames DEF WInv, DepsInv, HeapFrame, Path, Dep
<1>8. CallsInv'
  BY <1>1 DEF CallsInv
<1> QED
  BY <1>6, <1>7, <1>8

LEMMA VisitShrinks ==
  ASSUME WInv, Visit
  PROVE  CallsInv' /\ DepsInv' /\ Shrinks
<1>1. /\ pc = "walk" /\ pc' = "load" /\ dirs # <<>> /\ dirs' = Tail(dirs) /\ Always
  BY DEF Visit, WInv, IInv
<1>2. PICK k : k = Len(dirs)
  OBVIOUS
<1>3. PICK p : p = Head(dirs)
  OBVIOUS
<1>4. PICK m : m = Len(heap) + 1
  OBVIOUS
<1>5. /\ seen[p] = 0 /\ heap' = Append(heap, Mod(p))
      /\ seen' = seen \/ seen' = [seen EXCEPT ![p] = m]
      /\ loaded' = [NoMods EXCEPT ![p] = m]
      /\ mods' = mods \cup {m} /\ path' = <<m>>
  BY <1>3, <1>4 DEF Visit
<1>6. k \in Nat \ {0} /\ Len(dirs') = k - 1 /\ p \in Paths
  <2>1. dirs \in Seq(sources) /\ sources \subseteq Paths
    BY <1>1 DEF Always, DirsInv, GivenInv
  <2> QED
    BY <1>1, <1>2, <1>3, <2>1, TailOf, HeadTailProperties
<1>7. /\ heap \in Seq(ModType) /\ HeapInv /\ seen \in [Paths -> Nat]
      /\ \A q \in Paths : seen[q] # 0 => seen[q] \in Objects
  BY <1>1 DEF Always, HeapInv, MapsInv, MapIs
<1>8. /\ heap' \in Seq(ModType) /\ Objects' = Objects \cup {m} /\ m \in Nat \ {0}
      /\ m \notin Objects /\ Path(m)' = p /\ Deps(m)' = {}
  BY <1>4, <1>5, <1>6, <1>7, NewObject
<1>9. ToSet(path') = {m} /\ path'[1] = m /\ Distinct(path')
  BY <1>5, ToSetOne DEF Distinct
<1>10. \A j \in 1..k - 1 + 1, q \in Paths, r \in Paths \cup {0} :
         AddLeft(j, q, r)' => AddLeft(j, q, r)
  BY <1>2, <1>6 DEF AddLeft
<1>11. \A q \in Paths, r \in Paths \cup {0} : SeeLeft(q, r)' => SeeLeft(q, r)
  <2>1. ASSUME NEW q \in Paths, NEW r \in Paths \cup {0}, SeeLeft(q, r)' PROVE seen[q] = 0
    <3>1. seen'[q] = 0 \/ seen'[q] = m
      BY <1>9, <2>1 DEF SeeLeft
    <3> QED
      BY <1>5, <1>6, <1>7, <1>8, <3>1
  <2> QED
    BY <2>1 DEF SeeLeft
<1>12. Shrinks
  <2>1. k - 1 \in Nat /\ k - 1 <= k /\ k - 1 # k /\ k \in Nat
    BY <1>6
  <2>2. AddsLeft' \subseteq AddsLeft
    BY <1>2, <1>6, <1>10, <2>1, AddsShrink
  <2>3. SeesLeft' \subseteq SeesLeft
    BY <1>11, SeesShrink
  <2> QED
    BY <1>1, <1>2, <1>6, <2>1, <2>2, <2>3, EarlyShrinks DEF Early
<1>13. DepsInv'
  <2>1. \A o \in Objects : heap'[o] = heap[o]
    BY <1>4, <1>5, <1>6, <1>7, ModAppended DEF IsAppended, Objects
  <2>2. PICK s : s = heap'[m].deps
    OBVIOUS
  <2>3. s \in Seq(Nat) /\ ToSet(s) = {}
    <3>1. heap'[m] \in ModType
      BY <1>8 DEF Objects
    <3> QED
      BY <1>8, <2>2, <3>1 DEF ModType, Deps
  <2>4. 1..Len(s) = {}
    BY <2>3, ElementsOf
  <2>5. \A o \in Objects : Deps(o) \subseteq Objects /\ heap[o].deps \in Seq(Nat)
    BY <1>7, ObjectIs DEF HeapInv
  <2>6. ASSUME NEW o \in Objects, NEW i \in 1..Len(heap[o].deps)
        PROVE  Path(Dep(o, i))' = Path(Dep(o, i))
    <3>1. Dep(o, i) \in Objects /\ Dep(o, i)' = Dep(o, i)
      BY <1>7, <2>1, <2>5, <2>6, ObjectIs DEF Dep
    <3> QED
      BY <2>1, <3>1 DEF Path
  <2> QED
    BY <1>8, <2>1, <2>2, <2>4, <2>6 DEF WInv, DepsInv
<1>14. CallsInv'
  <2>1. loaded'[p] = m
    BY <1>5, <1>6 DEF NoMods
  <2>2. (\A o \in ToSet(path) : loaded[Path(o)] = o)' /\ (path[1] \in mods)'
    BY <1>5, <1>8, <1>9, <2>1
  <2> QED
    BY <1>1, <1>9, <2>2 DEF CallsInv
<1> QED
  BY <1>12, <1>13, <1>14

\* The new dependency is the only one of its path.
LEMMA DepsStayDistinct ==
  ASSUME HeapInv, DepsInv, NEW t \in Objects, NEW d, d \in Objects', NEW p, Path(d)' = p,
         p \notin DepPaths(t), heap'[t].deps = Append(heap[t].deps, d),
         \A o \in Objects : Path(o)' = Path(o) /\ (o # t => heap'[o].deps = heap[o].deps)
  PROVE  \A o \in Objects : \A i, j \in 1..Len(heap'[o].deps) :
           Path(Dep(o, i))' = Path(Dep(o, j))' => i = j
<1>1. ASSUME NEW o \in Objects, NEW i \in 1..Len(heap[o].deps)
      PROVE  heap[o].deps[i] \in Objects /\ heap[o].deps[i] \in Deps(o)
  BY <1>1, ObjectIs DEF HeapInv, Dep
<1>2. ASSUME NEW o \in Objects, o # t, NEW i \in 1..Len(heap'[o].deps), NEW j \in 1..Len(heap'[o].deps),
             Path(Dep(o, i))' = Path(Dep(o, j))'
      PROVE  i = j
  <2>1. /\ Dep(o, i)' = Dep(o, i) /\ Dep(o, j)' = Dep(o, j) /\ heap'[o].deps = heap[o].deps
        /\ Dep(o, i) \in Objects /\ Dep(o, j) \in Objects
    BY <1>1, <1>2 DEF Dep
  <2>2. Path(Dep(o, i)) = Path(Dep(o, j))
    <3>1. \A x \in Objects : heap'[x].path = Path(x)
      BY DEF Path
    <3> QED
      BY <1>2, <2>1, <3>1 DEF Path
  <2> QED
    BY <2>1, <2>2 DEF DepsInv
<1>3. PICK s : s = heap[t].deps
  OBVIOUS
<1>4. PICK n : n = Len(s)
  OBVIOUS
<1>5. s \in Seq(Nat) /\ n \in Nat
  BY <1>3, <1>4, ObjectIs
<1>6. /\ Len(heap'[t].deps) = n + 1 /\ Dep(t, n + 1)' = d
      /\ \A i \in 1..n : Dep(t, i)' = Dep(t, i)
  BY <1>3, <1>4, <1>5 DEF Dep
<1>7. /\ heap'[Dep(t, n + 1)'].path = p
      /\ \A i \in 1..n : heap'[Dep(t, i)'].path = Path(Dep(t, i)) /\ Path(Dep(t, i)) # p
  <2>1. ASSUME NEW i \in 1..n
        PROVE  heap'[Dep(t, i)'].path = Path(Dep(t, i)) /\ Path(Dep(t, i)) # p
    <3>1. Dep(t, i) \in Objects /\ Dep(t, i) \in Deps(t)
      BY <1>1, <1>3, <1>4 DEF Dep
    <3> QED
      BY <1>6, <3>1 DEF DepPaths, Path
  <2> QED
    BY <1>6, <2>1 DEF Path
<1>8. \A i, j \in 1..n : Path(Dep(t, i)) = Path(Dep(t, j)) => i = j
  BY <1>3, <1>4 DEF DepsInv
<1>9. ASSUME NEW i \in 1..n + 1, NEW j \in 1..n + 1, Path(Dep(t, i))' = Path(Dep(t, j))'
      PROVE  i = j
  <2>1. heap'[Dep(t, i)'].path = heap'[Dep(t, j)'].path
    BY <1>9 DEF Path
  <2>2. (i \in 1..n \/ i = n + 1) /\ (j \in 1..n \/ j = n + 1)
    BY <1>5
  <2> QED
    BY <1>7, <1>8, <2>1, <2>2
<1> QED
  BY <1>2, <1>6, <1>9

LEMMA AddLoadedShrinks ==
  ASSUME WInv, AddLoaded
  PROVE  CallsInv' /\ DepsInv' /\ Shrinks
<1>1. PICK t : t = Top
  OBVIOUS
<1>2. PICK p : p = Least(ImportsLeft(Top))
  OBVIOUS
<1>3. PICK d : d = loaded[p]
  OBVIOUS
<1>4. /\ pc = "load" /\ ImportsLeft(t) # {} /\ p = Least(ImportsLeft(t)) /\ d # 0
      /\ heap' = [heap EXCEPT ![t].deps = Append(@, d)]
      /\ UNCHANGED <<given, pc, dirs, loaded, seen, mods, path, sorted, order, links>>
  BY <1>1, <1>2, <1>3 DEF AddLoaded
<1>5. /\ Always /\ path \in Seq(Nat) /\ path # <<>> /\ t \in ToSet(path)
      /\ ToSet(path) \subseteq Objects /\ t \in Objects /\ HeapInv
      /\ heap \in Seq(ModType) /\ p \in Paths
  BY <1>1, <1>4, LoadFacts DEF WInv
<1>6. p \in ImportsLeft(t) /\ p \notin DepPaths(t)
  <2>1. imports[Path(t)] \in SUBSET Paths
    BY <1>5, ObjectIs DEF Always, GivenInv
  <2>2. ImportsLeft(t) \in SUBSET Nat
    BY <2>1 DEF ImportsLeft, Paths
  <2> QED
    BY <1>4, <2>2, LeastOf DEF ImportsLeft
<1>7. d \in Objects /\ Path(d) = p /\ d \in Nat
  BY <1>3, <1>4, <1>5 DEF Always, MapsInv, MapIs, Objects
<1>8. /\ Objects' = Objects /\ heap'[t].deps = Append(heap[t].deps, d)
      /\ \A o \in Objects : Path(o)' = Path(o) /\ (o # t => heap'[o].deps = heap[o].deps)
  <2>1. t \in 1..Len(heap)
    BY <1>5 DEF Objects
  <2>2. HasDep(heap', heap, t, d)
    BY <1>4, <1>5, <1>7, <2>1, DepAppended
  <2> QED
    BY <1>5, <2>2 DEF HasDep, Objects, Path
<1>9. DepsInv'
  <2>1. d \in Objects' /\ Path(d)' = p
    BY <1>7, <1>8
  <2>2. \A o \in Objects : \A i, j \in 1..Len(heap'[o].deps) :
          Path(Dep(o, i))' = Path(Dep(o, j))' => i = j
    BY <1>5, <1>6, <1>8, <2>1, DepsStayDistinct DEF WInv
  <2> QED
    BY <1>8, <2>2 DEF DepsInv
<1>10. /\ \A o \in Objects : DepPaths(o) \subseteq DepPaths(o)'
       /\ p \in DepPaths(t)'
  <2>1. Deps(t)' = Deps(t) \cup {d} /\ \A o \in Objects : o # t => Deps(o)' = Deps(o)
    <3>1. heap[t].deps \in Seq(Nat)
      BY <1>5, ObjectIs
    <3> QED
      BY <1>7, <1>8, <3>1, ToSetAppend DEF Deps
  <2>2. \A o \in Objects : Deps(o) \subseteq Objects
    BY <1>5 DEF HeapInv
  <2> QED
    BY <1>5, <1>7, <1>8, <2>1, <2>2 DEF DepPaths
<1>11. /\ \A o \in Objects : ImportsLeft(o)' \subseteq ImportsLeft(o)
       /\ p \notin ImportsLeft(t)'
  BY <1>4, <1>8, <1>10 DEF ImportsLeft, given
<1>12. \A o \in ToSet(path) : loaded[Path(o)] = o
  BY <1>4 DEF WInv, CallsInv
<1>13. PICK k : k = Len(dirs)
  OBVIOUS
<1>14. k \in Nat /\ dirs' = dirs
  BY <1>4, <1>5, <1>13 DEF Always, DirsInv
<1>15. Shrinks
  <2>1. \A j \in 1..k + 1, q \in Paths, r \in Paths \cup {0} : AddLeft(j, q, r)' => AddLeft(j, q, r)
    BY <1>4, <1>5, <1>11 DEF AddLeft, ToSet
  <2>2. PICK u : u = Path(t)
    OBVIOUS
  <2>3. u \in Paths /\ loaded[u] = t /\ t # 0 /\ p # 0
    BY <1>5, <1>12, <2>2, ObjectIs DEF Objects, Paths
  <2>4. AddLeft(k + 1, u, p)
    BY <1>4, <1>5, <1>6, <2>3 DEF AddLeft
  <2>5. ~ AddLeft(k + 1, u, p)'
    BY <1>4, <1>11, <1>13, <1>14, <2>3 DEF AddLeft
  <2>6. AddsLeft' \subseteq AddsLeft /\ AddsLeft' # AddsLeft
    BY <1>5, <1>13, <1>14, <2>1, <2>3, <2>4, <2>5, AddDone
  <2>7. \A q \in Paths, r \in Paths \cup {0} : SeeLeft(q, r)' => SeeLeft(q, r)
    BY <1>4 DEF SeeLeft
  <2>8. SeesLeft' \subseteq SeesLeft
    BY <2>7, SeesShrink
  <2> QED
    BY <1>4, <1>13, <1>14, <2>6, <2>8, EarlyShrinks DEF Early
<1>16. CallsInv'
  <2>1. (\A o \in ToSet(path) : loaded[Path(o)] = o)'
    BY <1>4, <1>5, <1>8, <1>12 DEF ToSet
  <2>2. Distinct(path)' /\ (path[1] \in mods)'
    BY <1>4 DEF WInv, CallsInv, Distinct
  <2> QED
    BY <1>4, <2>1, <2>2 DEF CallsInv
<1> QED
  BY <1>9, <1>15, <1>16

LEMMA AddNewShrinks ==
  ASSUME WInv, AddNew
  PROVE  CallsInv' /\ DepsInv' /\ Shrinks
<1>1. PICK t : t = Top
  OBVIOUS
<1>2. PICK p : p = Least(ImportsLeft(Top))
  OBVIOUS
<1>3. PICK n : n = Len(heap) + 1
  OBVIOUS
<1>4. PICK g : g = [heap EXCEPT ![t].deps = Append(@, n)]
  OBVIOUS
<1>5. /\ pc = "load" /\ ImportsLeft(t) # {} /\ p = Least(ImportsLeft(t))
      /\ loaded[p] = 0 /\ heap' = Append(g, Mod(p))
      /\ loaded' = [loaded EXCEPT ![p] = n] /\ path' = Append(path, n)
      /\ UNCHANGED <<given, pc, dirs, seen, mods, sorted, order, links>>
  BY <1>1, <1>2, <1>3, <1>4 DEF AddNew
<1>6. /\ Always /\ path \in Seq(Nat) /\ path # <<>> /\ t \in ToSet(path)
      /\ ToSet(path) \subseteq Objects /\ t \in Objects /\ HeapInv
      /\ heap \in Seq(ModType) /\ p \in Paths
  BY <1>1, <1>5, LoadFacts DEF WInv
<1>7. p \in ImportsLeft(t) /\ p \notin DepPaths(t)
  <2>1. imports[Path(t)] \in SUBSET Paths
    BY <1>6, ObjectIs DEF Always, GivenInv
  <2>2. ImportsLeft(t) \in SUBSET Nat
    BY <2>1 DEF ImportsLeft, Paths
  <2> QED
    BY <1>5, <2>2, LeastOf DEF ImportsLeft
<1>8. /\ g \in Seq(ModType) /\ Len(g) = Len(heap) /\ g[t].deps = Append(heap[t].deps, n)
      /\ \A o \in Objects : g[o].path = heap[o].path /\ (o # t => g[o].deps = heap[o].deps)
  <2>1. t \in 1..Len(heap) /\ n \in Nat
    BY <1>3, <1>6 DEF Objects
  <2>2. HasDep(g, heap, t, n)
    BY <1>4, <1>6, <2>1, DepAppended
  <2> QED
    BY <2>2 DEF HasDep, Objects
<1>9. /\ heap' \in Seq(ModType) /\ Objects' = Objects \cup {n} /\ n \in Nat \ {0}
      /\ n \notin Objects /\ Path(n)' = p /\ Deps(n)' = {}
  BY <1>3, <1>5, <1>6, <1>8, NewObject
<1>10. \A o \in Objects : heap'[o] = g[o]
  BY <1>3, <1>5, <1>6, <1>8, ModAppended DEF IsAppended, Objects
<1>11. /\ heap'[t].deps = Append(heap[t].deps, n)
       /\ \A o \in Objects : Path(o)' = Path(o) /\ (o # t => heap'[o].deps = heap[o].deps)
  BY <1>6, <1>8, <1>10 DEF Path
<1>12. DepsInv'
  <2>1. n \in Objects'
    BY <1>9
  <2>2. \A o \in Objects : \A i, j \in 1..Len(heap'[o].deps) :
          Path(Dep(o, i))' = Path(Dep(o, j))' => i = j
    BY <1>6, <1>7, <1>9, <1>11, <2>1, DepsStayDistinct DEF WInv
  <2>3. PICK s : s = heap'[n].deps
    OBVIOUS
  <2>4. s \in Seq(Nat) /\ ToSet(s) = {}
    <3>1. heap'[n] \in ModType
      BY <1>9 DEF Objects
    <3> QED
      BY <1>9, <2>3, <3>1 DEF ModType, Deps
  <2>5. 1..Len(s) = {}
    BY <2>4, ElementsOf
  <2> QED
    BY <1>9, <2>2, <2>3, <2>5 DEF DepsInv
<1>13. \A o \in Objects : DepPaths(o) \subseteq DepPaths(o)' /\ (o = t => p \in DepPaths(o)')
  <2>1. Deps(t)' = Deps(t) \cup {n} /\ \A o \in Objects : o # t => Deps(o)' = Deps(o)
    <3>1. heap[t].deps \in Seq(Nat)
      BY <1>6, ObjectIs
    <3>2. ToSet(Append(heap[t].deps, n)) = ToSet(heap[t].deps) \cup {n}
      BY <1>9, <3>1, ToSetAppend
    <3> QED
      BY <1>11, <3>2 DEF Deps
  <2>2. \A o \in Objects : Deps(o) \subseteq Objects
    BY <1>6 DEF HeapInv
  <2> QED
    BY <1>9, <1>11, <2>1, <2>2 DEF DepPaths
<1>14. /\ \A o \in Objects : ImportsLeft(o)' \subseteq ImportsLeft(o)
       /\ p \notin ImportsLeft(t)'
  BY <1>5, <1>6, <1>11, <1>13 DEF ImportsLeft, given
<1>15. \A o \in ToSet(path) : loaded[Path(o)] = o
  BY <1>5 DEF WInv, CallsInv
<1>16. /\ \A q \in Paths : loaded[q] # 0 => loaded[q] \in Objects
       /\ \A q \in Paths : seen[q] # 0 => seen[q] \in Objects
       /\ loaded'[p] = n /\ \A q \in Paths : q # p => loaded'[q] = loaded[q]
  BY <1>5, <1>6 DEF Always, MapsInv, MapIs
<1>17. ToSet(path') = ToSet(path) \cup {n} /\ ToSet(path)' = ToSet(path')
  <2>1. ToSet(Append(path, n)) = ToSet(path) \cup {n}
    BY <1>6, <1>9, ToSetAppend
  <2> QED
    BY <1>5, <2>1
<1>18. PICK k : k = Len(dirs)
  OBVIOUS
<1>19. k \in Nat /\ dirs' = dirs
  BY <1>5, <1>6, <1>18 DEF Always, DirsInv
<1>20. Shrinks
  <2>1. ASSUME NEW j \in 1..k + 1, NEW q \in Paths, NEW r \in Paths \cup {0}, AddLeft(j, q, r)'
        PROVE  AddLeft(j, q, r)
    <3>1. CASE loaded[q] = 0
      BY <1>5, <2>1, <3>1 DEF AddLeft
    <3>2. CASE loaded[q] # 0
      <4>1. PICK o : o = loaded[q]
        OBVIOUS
      <4>2. o \in Objects /\ o # n /\ loaded'[q] = o /\ o # 0
        BY <1>5, <1>9, <1>16, <3>2, <4>1
      <4>3. j <= k \/ (o \in ToSet(path) /\ r \in ImportsLeft(o)' \cup {0})
        BY <1>5, <1>17, <1>18, <2>1, <4>2 DEF AddLeft
      <4> QED
        BY <1>5, <1>14, <1>18, <4>1, <4>2, <4>3 DEF AddLeft
    <3> QED
      BY <3>1, <3>2
  <2>2. PICK u : u = Path(t)
    OBVIOUS
  <2>3. u \in Paths /\ loaded[u] = t /\ t # 0 /\ p # 0 /\ u # p
    BY <1>5, <1>6, <1>15, <2>2, ObjectIs DEF Objects, Paths
  <2>4. AddLeft(k + 1, u, p)
    BY <1>5, <1>6, <1>7, <2>3 DEF AddLeft
  <2>5. ~ AddLeft(k + 1, u, p)'
    <3>1. loaded'[u] = t
      BY <1>16, <2>3
    <3> QED
      BY <1>5, <1>14, <1>18, <1>19, <2>3, <3>1 DEF AddLeft
  <2>6. AddsLeft' \subseteq AddsLeft /\ AddsLeft' # AddsLeft
    BY <1>6, <1>18, <1>19, <2>1, <2>3, <2>4, <2>5, AddDone
  <2>7. \A q \in Paths, r \in Paths \cup {0} : SeeLeft(q, r)' => SeeLeft(q, r)
    BY <1>5, <1>9, <1>16, <1>17 DEF SeeLeft
  <2>8. SeesLeft' \subseteq SeesLeft
    BY <2>7, SeesShrink
  <2> QED
    <3>1. pc \in Early /\ pc' \in Early /\ k = Len(dirs') /\ k <= k
      BY <1>5, <1>18, <1>19 DEF Early
    <3> QED
      BY <1>18, <1>19, <2>6, <2>8, <3>1, EarlyShrinks
<1>21. CallsInv'
  <2>1. ASSUME NEW o \in ToSet(path') PROVE loaded'[Path(o)'] = o
    <3>1. CASE o = n
      BY <1>9, <1>16, <3>1
    <3>2. CASE o \in ToSet(path)
      <4>1. o \in Objects /\ loaded[Path(o)] = o /\ o # 0 /\ Path(o) \in Paths
        BY <1>6, <1>15, <3>2, ObjectIs DEF Objects
      <4>2. Path(o) # p
        BY <1>5, <4>1
      <4> QED
        BY <1>11, <1>16, <4>1, <4>2
    <3> QED
      BY <1>17, <2>1, <3>1, <3>2
  <2>2. Distinct(path')
    <3>1. Distinct(path) /\ n \notin ToSet(path) /\ n \in Nat
      BY <1>5, <1>6, <1>9 DEF WInv, CallsInv
    <3> QED
      BY <1>5, <1>6, <3>1, DistinctAppend
  <2>3. path'[1] = path[1] /\ path[1] \in mods
    BY <1>5, <1>6, <1>9 DEF WInv, CallsInv
  <2> QED
    BY <1>5, <1>17, <2>1, <2>2, <2>3 DEF CallsInv
<1> QED
  BY <1>12, <1>20, <1>21

\* The tool dies.
LEMMA DieShrinks ==
  ASSUME WInv, AddMissing \/ AddUnreadable
  PROVE  CallsInv' /\ DepsInv' /\ Shrinks
<1>1. PICK t : t = Top
  OBVIOUS
<1>2. /\ pc = "load" /\ pc' = "died" /\ HeapFrame
      /\ UNCHANGED <<dirs, path, seen, loaded, heap, imports>>
  BY DEF AddMissing, AddUnreadable, HeapFrame, given
<1>3. /\ Always /\ t \in ToSet(path) /\ t \in Objects /\ HeapInv
  BY <1>1, <1>2, LoadFacts DEF WInv
<1>4. PICK k : k = Len(dirs)
  OBVIOUS
<1>5. k \in Nat /\ dirs' = dirs
  BY <1>2, <1>3, <1>4 DEF Always, DirsInv
<1>6. PICK u : u = Path(t)
  OBVIOUS
<1>7. u \in Paths /\ loaded[u] = t
  BY <1>2, <1>3, <1>6, ObjectIs DEF WInv, CallsInv
<1>8. AddsLeft' \subseteq AddsLeft /\ AddsLeft' # AddsLeft
  <2>1. \A j \in 1..k + 1, q \in Paths, r \in Paths \cup {0} : AddLeft(j, q, r)' => AddLeft(j, q, r)
    BY <1>2 DEF AddLeft
  <2>2. AddLeft(k + 1, u, 0) /\ ~ AddLeft(k + 1, u, 0)'
    BY <1>2, <1>3, <1>4, <1>5, <1>7 DEF AddLeft
  <2> QED
    BY <1>4, <1>5, <1>7, <2>1, <2>2, AddDone
<1>9. SeesLeft' \subseteq SeesLeft
  <2>1. \A q \in Paths, r \in Paths \cup {0} : SeeLeft(q, r)' => SeeLeft(q, r)
    BY <1>2 DEF SeeLeft
  <2> QED
    BY <2>1, SeesShrink
<1>10. Shrinks
  <2>1. pc \in Early /\ k = Len(dirs') /\ k <= k
    BY <1>2, <1>4, <1>5 DEF Early
  <2> QED
    BY <1>2, <1>4, <1>5, <1>8, <1>9, <2>1, EarlyShrinks
<1>11. DepsInv'
  BY <1>2, HeapNames DEF WInv, DepsInv, HeapFrame, Path, Dep
<1>12. CallsInv'
  BY <1>2 DEF CallsInv
<1> QED
  BY <1>10, <1>11, <1>12

LEMMA AddReturnShrinks ==
  ASSUME WInv, AddReturn
  PROVE  CallsInv' /\ DepsInv' /\ Shrinks
<1>1. PICK t : t = Top
  OBVIOUS
<1>2. /\ pc = "load" /\ HeapFrame /\ UNCHANGED <<dirs, seen, loaded, heap, imports, mods>>
      /\ \/ Len(path) > 1 /\ path' = Front(path) /\ pc' = "load"
         \/ ~ Len(path) > 1 /\ path' = path /\ pc' = "see" /\ tool = "pealist"
         \/ ~ Len(path) > 1 /\ path' = <<>> /\ pc' = "walk"
  BY DEF AddReturn, HeapFrame, given
<1>3. /\ Always /\ path \in Seq(Nat) /\ path # <<>> /\ t \in ToSet(path) /\ t \in Objects
      /\ HeapInv /\ ToSet(path) \subseteq Objects
  BY <1>1, <1>2, LoadFacts DEF WInv
<1>4. Distinct(path) /\ path[1] \in mods /\ \A m \in ToSet(path) : loaded[Path(m)] = m
  BY <1>2 DEF WInv, CallsInv
<1>5. Distinct(Front(path)) /\ ToSet(Front(path)) = ToSet(path) \ {t}
  BY <1>1, <1>3, <1>4, DistinctFront DEF Top
<1>6. PICK k : k = Len(dirs)
  OBVIOUS
<1>7. k \in Nat /\ dirs' = dirs
  BY <1>2, <1>3, <1>6 DEF Always, DirsInv
<1>8. PICK u : u = Path(t)
  OBVIOUS
<1>9. u \in Paths /\ loaded[u] = t /\ t # 0
  BY <1>3, <1>4, <1>8, ObjectIs DEF Objects
<1>10. /\ ToSet(path') \subseteq ToSet(path) /\ ToSet(path)' = ToSet(path')
       /\ pc' = "load" => t \notin ToSet(path')
  BY <1>2, <1>5, ToSetEmpty DEF ToSet
<1>11. AddsLeft' \subseteq AddsLeft /\ AddsLeft' # AddsLeft
  <2>1. \A o : ImportsLeft(o)' = ImportsLeft(o)
    BY <1>2 DEF ImportsLeft, Path, DepPaths, Deps
  <2>2. \A j \in 1..k + 1, q \in Paths, r \in Paths \cup {0} : AddLeft(j, q, r)' => AddLeft(j, q, r)
    BY <1>2, <1>10, <2>1 DEF AddLeft
  <2>3. AddLeft(k + 1, u, 0) /\ ~ AddLeft(k + 1, u, 0)'
    BY <1>2, <1>3, <1>6, <1>7, <1>9, <1>10 DEF AddLeft
  <2> QED
    BY <1>6, <1>7, <1>9, <2>2, <2>3, AddDone
<1>12. SeesLeft' \subseteq SeesLeft
  <2>1. \A q \in Paths, r \in Paths \cup {0} : SeeLeft(q, r)' => SeeLeft(q, r)
    BY <1>2, <1>10 DEF SeeLeft
  <2> QED
    BY <2>1, SeesShrink
<1>13. Shrinks
  <2>1. pc \in Early /\ pc' \in Early /\ k = Len(dirs') /\ k <= k
    BY <1>2, <1>6, <1>7 DEF Early
  <2> QED
    BY <1>6, <1>7, <1>11, <1>12, <2>1, EarlyShrinks
<1>14. DepsInv'
  BY <1>2, HeapNames DEF WInv, DepsInv, HeapFrame, Path, Dep
<1>15. CallsInv'
  <2>1. CASE pc' = "load"
    <3>1. path' = Front(path) /\ Len(path) > 1
      BY <1>2, <2>1
    <3>2. path'[1] = path[1]
      <4>1. 1 \in 1..Len(path) - 1 /\ \A i \in 1..Len(path) - 1 : Front(path)[i] = path[i]
        BY <1>3, <3>1, FrontOf
      <4> QED
        BY <3>1, <4>1
    <3>3. \A m \in ToSet(path') : loaded'[Path(m)'] = m
      BY <1>2, <1>4, <1>10 DEF Path
    <3> QED
      BY <1>2, <1>4, <1>5, <1>10, <2>1, <3>1, <3>2, <3>3 DEF CallsInv
  <2>2. CASE pc' = "see"
    <3>1. path' = path /\ ToSet(path) = {path[1]} /\ tool = "pealist"
      <4>1. Len(path) = 1
        <5>1. PICK n : n = Len(path)
          OBVIOUS
        <5>2. n \in Nat \ {0}
          BY <1>3, <5>1, FrontOf
        <5>3. ~ n > 1
          BY <1>2, <2>2, <5>1
        <5> QED
          BY ONLY <5>1, <5>2, <5>3
      <4> QED
        BY <1>2, <1>3, <2>2, <4>1, ElementsOf
    <3>2. IsKnown(path[1])
      BY <1>3, <1>4 DEF Always, SettledInv
    <3>3. (\A m \in ToSet(path) : IsKnown(m))'
      BY <1>2, <1>10, <3>1, <3>2, HeapNames
    <3> QED
      BY <1>4, <2>2, <3>1, <3>3 DEF CallsInv, Distinct
  <2>3. CASE pc' = "walk"
    BY <2>3 DEF CallsInv
  <2> QED
    BY <1>2, <2>1, <2>2, <2>3
<1> QED
  BY <1>13, <1>14, <1>15

LEMMA SeeNewShrinks ==
  ASSUME WInv, SeeNew
  PROVE  CallsInv' /\ DepsInv' /\ Shrinks
<1>1. PICK t : t = Top
  OBVIOUS
<1>2. PICK i : i = Least(Unsettled(t))
  OBVIOUS
<1>3. PICK d : d = Dep(t, i)
  OBVIOUS
<1>4. PICK q : q = Path(d)
  OBVIOUS
<1>5. /\ pc = "see" /\ pc' = "see" /\ Unsettled(t) # {} /\ seen[q] = 0
      /\ seen' = [seen EXCEPT ![q] = d] /\ path' = Append(path, d)
      /\ UNCHANGED <<dirs, heap, tool>>
  BY <1>1, <1>2, <1>3, <1>4 DEF SeeNew, given
<1>6. /\ Always /\ tool = "pealist" /\ path \in Seq(Nat) /\ t \in ToSet(path)
      /\ ToSet(path) \subseteq Objects /\ t \in Objects /\ Known = seen /\ HeapInv
      /\ i \in 1..Len(heap[t].deps) /\ d \in Objects /\ d \in Nat \ {0} /\ q \in Paths
  BY <1>1, <1>2, <1>3, <1>4, <1>5, SeeFacts DEF WInv
<1>7. /\ Distinct(path) /\ \A m \in ToSet(path) : seen[Path(m)] = m
  BY <1>5, <1>6 DEF WInv, CallsInv, IsKnown
<1>8. /\ \A p \in Paths : seen[p] # 0 => seen[p] \in Objects /\ Path(seen[p]) = p
      /\ seen'[q] = d /\ \A p \in Paths : p # q => seen'[p] = seen[p]
  BY <1>5, <1>6 DEF Always, MapsInv, MapIs
<1>9. ToSet(path') = ToSet(path) \cup {d} /\ ToSet(path)' = ToSet(path')
  <2>1. ToSet(Append(path, d)) = ToSet(path) \cup {d}
    BY <1>6, ToSetAppend
  <2> QED
    BY <1>5, <2>1
<1>10. \A m, j : Path(m)' = Path(m) /\ Dep(m, j)' = Dep(m, j)
  BY <1>5 DEF Path, Dep
<1>11. d \notin ToSet(path) /\ \A m \in ToSet(path) : Path(m) # q
  <2>1. 0 \notin ToSet(path)
    BY <1>6 DEF Objects
  <2>2. \A m \in ToSet(path) : Path(m) # q
    BY <1>5, <1>7, <2>1
  <2> QED
    BY <1>4, <2>2
<1>12. PICK k : k = Len(dirs)
  OBVIOUS
<1>13. k \in Nat /\ dirs' = dirs
  BY <1>5, <1>6, <1>12 DEF Always, DirsInv
<1>14. AddsLeft' \subseteq AddsLeft
  BY <1>5 DEF AddsLeft, AddLeft
<1>15. \A m \in Objects : Unsettled(m)' \subseteq Unsettled(m)
  <2>1. ASSUME NEW m \in Objects, NEW j \in Unsettled(m)' PROVE j \in Unsettled(m)
    <3>1. j \in DOMAIN heap[m].deps /\ seen'[Path(Dep(m, j))] # Dep(m, j)
      BY <1>5, <1>10, <2>1 DEF Unsettled, Path, Dep
    <3>2. Dep(m, j) \in Objects /\ Path(Dep(m, j)) \in Paths /\ Dep(m, j) # 0
      <4>1. Dep(m, j) \in Objects
        BY <1>6, <2>1, <3>1, ObjectIs DEF HeapInv
      <4> QED
        BY <1>6, <4>1, ObjectIs DEF Objects
    <3> QED
      BY <1>5, <1>8, <3>1, <3>2 DEF Unsettled
  <2> QED
    BY <2>1
<1>16. SeesLeft' \subseteq SeesLeft /\ SeesLeft' # SeesLeft
  <2>1. ASSUME NEW p \in Paths, NEW r \in Paths \cup {0}, SeeLeft(p, r)' PROVE SeeLeft(p, r)
    <3>1. CASE seen[p] = 0
      BY <3>1 DEF SeeLeft
    <3>2. CASE seen[p] # 0
      <4>1. PICK m : m = seen[p]
        OBVIOUS
      <4>2. m \in Objects /\ m # 0 /\ m # d /\ seen'[p] = m
        BY <1>4, <1>5, <1>8, <3>2, <4>1
      <4>3. /\ m \in ToSet(path)
            /\ r = 0 \/ \E j \in Unsettled(m)' : Path(Dep(m, j))' = r
        BY <1>5, <1>9, <2>1, <4>2 DEF SeeLeft
      <4> QED
        BY <1>5, <1>10, <1>15, <4>1, <4>2, <4>3 DEF SeeLeft
    <3> QED
      BY <3>1, <3>2
  <2>2. PICK u : u = Path(t)
    OBVIOUS
  <2>3. u \in Paths /\ seen[u] = t /\ seen'[u] = t /\ t # 0 /\ q # 0
    BY <1>6, <1>7, <1>8, <1>11, <2>2, ObjectIs DEF Objects, Paths
  <2>4. i \in Unsettled(t)
    <3>1. DOMAIN heap[t].deps = 1..Len(heap[t].deps)
      BY <1>6, ObjectIs
    <3> QED
      BY <1>3, <1>4, <1>5, <1>6, <3>1 DEF Unsettled
  <2>5. SeeLeft(u, q)
    BY <1>3, <1>4, <1>5, <1>6, <2>3, <2>4 DEF SeeLeft
  <2>6. ASSUME NEW j \in Unsettled(t)', Path(Dep(t, j))' = q PROVE FALSE
    <3>1. j \in Unsettled(t) /\ Path(Dep(t, j)) = q
      BY <1>6, <1>10, <1>15, <2>6
    <3>2. j \in 1..Len(heap[t].deps)
      BY <1>6, <3>1, ObjectIs DEF Unsettled
    <3>3. j = i
      BY <1>3, <1>4, <1>6, <3>1, <3>2 DEF WInv, DepsInv
    <3>4. seen'[q] # d
      BY <1>3, <1>4, <1>5, <1>10, <2>6, <3>3 DEF Unsettled, Path, Dep
    <3> QED
      BY <1>8, <3>4
  <2>7. ~ SeeLeft(u, q)'
    BY <1>5, <2>3, <2>6 DEF SeeLeft
  <2> QED
    BY <1>6, <2>1, <2>3, <2>5, <2>7, SeesShrink
<1>17. Shrinks
  <2>1. pc \in Early /\ pc' \in Early /\ k = Len(dirs') /\ k <= k
    BY <1>5, <1>12, <1>13 DEF Early
  <2> QED
    BY <1>12, <1>13, <1>14, <1>16, <2>1, EarlyShrinks
<1>18. DepsInv'
  BY <1>5 DEF WInv, DepsInv, Objects, Path, Dep
<1>19. CallsInv'
  <2>1. ASSUME NEW m \in ToSet(path') PROVE seen'[Path(m)] = m
    <3>1. CASE m = d
      BY <1>4, <1>8, <3>1
    <3>2. CASE m \in ToSet(path)
      <4>1. Path(m) \in Paths /\ Path(m) # q
        BY <1>6, <1>11, <3>2, ObjectIs
      <4> QED
        BY <1>7, <1>8, <3>2, <4>1
    <3> QED
      BY <1>9, <2>1, <3>1, <3>2
  <2>2. Distinct(path')
    BY <1>5, <1>6, <1>7, <1>11, DistinctAppend
  <2>3. (\A m \in ToSet(path) : IsKnown(m))'
    BY <1>5, <1>6, <1>9, <1>10, <2>1 DEF IsKnown, Known
  <2> QED
    BY <1>5, <2>2, <2>3 DEF CallsInv
<1> QED
  BY <1>17, <1>18, <1>19

LEMMA SeeOtherShrinks ==
  ASSUME WInv, SeeOther
  PROVE  CallsInv' /\ DepsInv' /\ Shrinks
<1>1. PICK t : t = Top
  OBVIOUS
<1>2. PICK i : i = Least(Unsettled(t))
  OBVIOUS
<1>3. PICK d : d = Dep(t, i)
  OBVIOUS
<1>4. PICK q : q = Path(d)
  OBVIOUS
<1>5. PICK x : x = seen[q]
  OBVIOUS
<1>6. /\ pc = "see" /\ pc' = "see" /\ Unsettled(t) # {} /\ x # 0
      /\ heap' = [heap EXCEPT ![t].deps[i] = x]
      /\ UNCHANGED <<dirs, seen, path, tool, loaded>>
  BY <1>1, <1>2, <1>3, <1>4, <1>5 DEF SeeOther, given
<1>7. /\ Always /\ tool = "pealist" /\ path \in Seq(Nat) /\ t \in ToSet(path)
      /\ ToSet(path) \subseteq Objects /\ t \in Objects /\ Known = seen /\ HeapInv
      /\ heap \in Seq(ModType)
      /\ i \in 1..Len(heap[t].deps) /\ d \in Objects /\ q \in Paths /\ seen[q] # d
  BY <1>1, <1>2, <1>3, <1>4, <1>6, SeeFacts DEF WInv
<1>8. x \in Objects /\ Path(x) = q /\ x \in Nat
  BY <1>5, <1>6, <1>7 DEF Always, MapsInv, MapIs, Objects
<1>9. Distinct(path) /\ \A m \in ToSet(path) : seen[Path(m)] = m
  BY <1>6, <1>7 DEF WInv, CallsInv, IsKnown
<1>10. HasOther(heap', heap, t, i, x)
  <2>1. t \in 1..Len(heap)
    BY <1>7 DEF Objects
  <2> QED
    BY <1>6, <1>7, <1>8, <2>1, DepReplaced
<1>11. /\ Objects' = Objects /\ Len(heap'[t].deps) = Len(heap[t].deps)
       /\ \A o \in Objects : heap'[o].path = heap[o].path /\ (o # t => heap'[o].deps = heap[o].deps)
       /\ \A j \in 1..Len(heap[t].deps) :
            heap'[t].deps[j] = IF j = i THEN x ELSE heap[t].deps[j]
  BY <1>10 DEF HasOther, Objects
<1>12. ASSUME NEW o \in Objects
       PROVE  /\ Len(heap'[o].deps) = Len(heap[o].deps)
              /\ \A j \in 1..Len(heap[o].deps) :
                   /\ Dep(o, j) \in Objects /\ Dep(o, j)' \in Objects
                   /\ Dep(o, j)' = IF o = t /\ j = i THEN x ELSE Dep(o, j)
                   /\ Path(Dep(o, j))' = Path(Dep(o, j))
  <2>1. Len(heap'[o].deps) = Len(heap[o].deps)
    BY <1>11, <1>12
  <2>2. ASSUME NEW j \in 1..Len(heap[o].deps)
        PROVE  /\ Dep(o, j) \in Objects /\ Dep(o, j)' \in Objects
               /\ Dep(o, j)' = IF o = t /\ j = i THEN x ELSE Dep(o, j)
               /\ Path(Dep(o, j))' = Path(Dep(o, j))
    <3>1. Dep(o, j) \in Objects
      BY <1>7, <1>12, <2>2, ObjectIs DEF HeapInv
    <3>2. Dep(o, j)' = IF o = t /\ j = i THEN x ELSE Dep(o, j)
      BY <1>11, <1>12, <2>2 DEF Dep
    <3>3. Dep(o, j)' \in Objects
      BY <1>8, <3>1, <3>2
    <3>4. heap'[Dep(o, j)'].path = heap[Dep(o, j)'].path
      BY <1>11, <3>3
    <3>5. heap[Dep(o, j)'].path = heap[Dep(o, j)].path
      BY <1>3, <1>4, <1>8, <3>2 DEF Path
    <3> QED
      BY <3>1, <3>2, <3>3, <3>4, <3>5 DEF Path
  <2> QED
    BY <2>1, <2>2
<1>13. PICK k : k = Len(dirs)
  OBVIOUS
<1>14. k \in Nat /\ dirs' = dirs
  BY <1>6, <1>7, <1>13 DEF Always, DirsInv
<1>15. AddsLeft' \subseteq AddsLeft
  BY <1>6 DEF AddsLeft, AddLeft
<1>16. \A o \in Objects : \A j \in Unsettled(o)' : j \in Unsettled(o) /\ (o = t => j # i)
  <2>1. ASSUME NEW o \in Objects, NEW j \in Unsettled(o)'
        PROVE  j \in Unsettled(o) /\ (o = t => j # i)
    <3>1. j \in DOMAIN heap'[o].deps /\ seen[Path(Dep(o, j))'] # Dep(o, j)'
      BY <1>6, <2>1 DEF Unsettled
    <3>2. j \in 1..Len(heap[o].deps) /\ DOMAIN heap[o].deps = 1..Len(heap[o].deps)
      <4>1. heap'[o] \in ModType
        BY <1>10, <1>11, <2>1 DEF HasOther, Objects
      <4>2. heap'[o].deps \in Seq(Nat)
        BY <4>1 DEF ModType
      <4>3. DOMAIN heap'[o].deps = 1..Len(heap'[o].deps)
        BY <4>2
      <4>4. Len(heap'[o].deps) = Len(heap[o].deps)
        BY <1>12, <2>1
      <4>5. DOMAIN heap[o].deps = 1..Len(heap[o].deps)
        BY <1>7, <2>1, ObjectIs
      <4> QED
        BY <3>1, <4>3, <4>4, <4>5
    <3>3. seen[Path(Dep(o, j))] # Dep(o, j)'
      BY <1>12, <2>1, <3>1, <3>2
    <3>4. o = t => j # i
      <4>1. Path(Dep(t, i)) = q
        BY <1>3, <1>4
      <4> QED
        BY <1>5, <1>7, <1>12, <3>3, <4>1
    <3> QED
      BY <1>12, <3>2, <3>3, <3>4 DEF Unsettled
  <2> QED
    BY <2>1
<1>17. SeesLeft' \subseteq SeesLeft /\ SeesLeft' # SeesLeft
  <2>1. ASSUME NEW p \in Paths, NEW r \in Paths \cup {0}, SeeLeft(p, r)' PROVE SeeLeft(p, r)
    <3>1. CASE seen[p] = 0
      BY <3>1 DEF SeeLeft
    <3>2. CASE seen[p] # 0
      <4>1. PICK m : m = seen[p]
        OBVIOUS
      <4>2. /\ m \in ToSet(path) /\ m # 0
            /\ r = 0 \/ \E j \in Unsettled(m)' : Path(Dep(m, j))' = r
        BY <1>6, <2>1, <3>2, <4>1 DEF SeeLeft, ToSet
      <4>3. m \in Objects
        BY <1>7, <4>2
      <4>4. \A j \in Unsettled(m)' : Path(Dep(m, j))' = Path(Dep(m, j))
        BY <1>7, <1>12, <1>16, <4>3, ObjectIs DEF Unsettled
      <4> QED
        BY <1>6, <1>16, <4>1, <4>2, <4>3, <4>4 DEF SeeLeft
    <3> QED
      BY <3>1, <3>2
  <2>2. PICK u : u = Path(t)
    OBVIOUS
  <2>3. u \in Paths /\ seen[u] = t /\ t # 0 /\ q # 0
    BY <1>7, <1>9, <2>2, ObjectIs DEF Objects, Paths
  <2>4. i \in Unsettled(t)
    <3>1. DOMAIN heap[t].deps = 1..Len(heap[t].deps)
      BY <1>7, ObjectIs
    <3> QED
      BY <1>3, <1>4, <1>7, <3>1 DEF Unsettled
  <2>5. SeeLeft(u, q)
    BY <1>3, <1>4, <1>6, <1>7, <2>3, <2>4 DEF SeeLeft
  <2>6. ASSUME NEW j \in Unsettled(t)', Path(Dep(t, j))' = q PROVE FALSE
    <3>1. j \in Unsettled(t) /\ j # i
      BY <1>7, <1>16, <2>6
    <3>2. j \in 1..Len(heap[t].deps)
      BY <1>7, <3>1, ObjectIs DEF Unsettled
    <3>3. Path(Dep(t, j)) = Path(Dep(t, i))
      BY <1>3, <1>4, <1>7, <1>12, <2>6, <3>2
    <3> QED
      BY <1>7, <3>1, <3>2, <3>3 DEF WInv, DepsInv
  <2>7. ~ SeeLeft(u, q)'
    BY <1>6, <2>3, <2>6 DEF SeeLeft
  <2> QED
    BY <1>7, <2>1, <2>3, <2>5, <2>7, SeesShrink
<1>18. Shrinks
  <2>1. pc \in Early /\ pc' \in Early /\ k = Len(dirs') /\ k <= k
    BY <1>6, <1>13, <1>14 DEF Early
  <2> QED
    BY <1>13, <1>14, <1>15, <1>17, <2>1, EarlyShrinks
<1>19. DepsInv'
  BY <1>11, <1>12 DEF WInv, DepsInv
<1>20. CallsInv'
  <2>1. (\A m \in ToSet(path) : IsKnown(m))'
    BY <1>6, <1>7, <1>9, <1>11 DEF IsKnown, Known, Path, ToSet
  <2> QED
    BY <1>6, <1>9, <2>1 DEF CallsInv, Distinct
<1> QED
  BY <1>18, <1>19, <1>20

LEMMA SeeReturnShrinks ==
  ASSUME WInv, SeeReturn
  PROVE  CallsInv' /\ DepsInv' /\ Shrinks
<1>1. PICK t : t = Top
  OBVIOUS
<1>2. PICK i : i = Least(Unsettled(t))
  OBVIOUS
<1>3. PICK d : d = Dep(t, i)
  OBVIOUS
<1>4. /\ pc = "see" /\ HeapFrame /\ path' = Front(path) /\ pc' \in {"see", "walk"}
      /\ UNCHANGED <<dirs, seen, heap, tool, loaded>>
  BY DEF SeeReturn, HeapFrame, given
<1>5. /\ Always /\ tool = "pealist" /\ path \in Seq(Nat) /\ path # <<>> /\ t \in ToSet(path)
      /\ ToSet(path) \subseteq Objects /\ t \in Objects /\ Known = seen /\ HeapInv
  BY <1>1, <1>2, <1>3, <1>4, SeeFacts DEF WInv
<1>6. Distinct(path) /\ \A m \in ToSet(path) : seen[Path(m)] = m
  BY <1>4, <1>5 DEF WInv, CallsInv, IsKnown
<1>7. Distinct(path') /\ ToSet(path') = ToSet(path) \ {t}
  BY <1>1, <1>4, <1>5, <1>6, DistinctFront DEF Top
<1>8. PICK k : k = Len(dirs)
  OBVIOUS
<1>9. k \in Nat /\ dirs' = dirs
  BY <1>4, <1>5, <1>8 DEF Always, DirsInv
<1>10. AddsLeft' \subseteq AddsLeft
  BY <1>4 DEF AddsLeft, AddLeft
<1>11. SeesLeft' \subseteq SeesLeft /\ SeesLeft' # SeesLeft
  <2>1. \A o : Unsettled(o)' = Unsettled(o)
    BY <1>4 DEF Unsettled, Path, Dep
  <2>2. \A o, j : Path(Dep(o, j))' = Path(Dep(o, j))
    BY <1>4 DEF Path, Dep
  <2>3. (ToSet(path))' = ToSet(path')
    BY DEF ToSet
  <2>4. \A p \in Paths, r \in Paths \cup {0} : SeeLeft(p, r)' => SeeLeft(p, r)
    BY <1>4, <1>7, <2>1, <2>2, <2>3 DEF SeeLeft
  <2>5. PICK u : u = Path(t)
    OBVIOUS
  <2>6. u \in Paths /\ seen[u] = t /\ t # 0
    BY <1>5, <1>6, <2>5, ObjectIs DEF Objects
  <2>7. SeeLeft(u, 0) /\ ~ SeeLeft(u, 0)'
    BY <1>4, <1>5, <1>7, <2>3, <2>6 DEF SeeLeft
  <2> QED
    BY <2>4, <2>6, <2>7, SeesShrink
<1>12. Shrinks
  <2>1. pc \in Early /\ pc' \in Early /\ k = Len(dirs') /\ k <= k
    BY <1>4, <1>8, <1>9 DEF Early
  <2> QED
    BY <1>8, <1>9, <1>10, <1>11, <2>1, EarlyShrinks
<1>13. DepsInv'
  BY <1>4, HeapNames DEF WInv, DepsInv, HeapFrame, Path, Dep
<1>14. CallsInv'
  <2>1. (\A m \in ToSet(path) : IsKnown(m))'
    BY <1>4, <1>5, <1>6, <1>7 DEF IsKnown, Known, Path, ToSet
  <2> QED
    BY <1>4, <1>7, <2>1 DEF CallsInv
<1> QED
  BY <1>12, <1>13, <1>14

LEMMA StepShrinks ==
  ASSUME WInv, Next, vars' # vars
  PROVE  CallsInv' /\ DepsInv' /\ Shrinks
BY VisitSeenShrinks, VisitShrinks, WalkEndShrinks, AddLoadedShrinks, AddNewShrinks,
   DieShrinks, AddReturnShrinks, SeeNewShrinks, SeeOtherShrinks, SeeReturnShrinks,
   SortRootShrinks, SortDepShrinks, SortReturnShrinks, SortEndShrinks, ListShrinks,
   ListEndShrinks, LinkDepShrinks, LinkReturnShrinks DEF Next, Done

LEMMA InitCalls == Init => CallsInv /\ DepsInv
<1> SUFFICES ASSUME Init PROVE CallsInv /\ DepsInv
  OBVIOUS
<1>1. pc = "walk" /\ heap = <<>>
  BY DEF Init
<1>2. Objects = {}
  BY <1>1 DEF Objects
<1> QED
  BY <1>1, <1>2 DEF CallsInv, DepsInv

LEMMA CallsKeep ==
  ASSUME CallsInv, DepsInv, UNCHANGED vars
  PROVE  CallsInv' /\ DepsInv'
<1>1. HeapFrame /\ UNCHANGED <<pc, path, loaded, heap, mods>>
  BY DEF vars, HeapFrame
<1>2. DepsInv'
  BY <1>1 DEF DepsInv, Objects, Path, Dep
<1>3. CallsInv'
  BY <1>1, HeapNames DEF CallsInv, Distinct, Path
<1> QED
  BY <1>2, <1>3

\* There is only so much to do.
LEMMA WorkIsFinite ==
  ASSUME IInv
  PROVE  \A kind \in DOMAIN WorkLeft : IsFiniteSet(WorkLeft[kind])
<1>1. IsFiniteSet(Paths)
  BY NumPathsAssumption, FS_Interval DEF Paths
<1>2. IsFiniteSet(Paths \cup {0})
  BY <1>1, FS_AddElement
<1>3. Len(dirs) \in Nat
  BY DEF IInv, Always, DirsInv
<1>4. IsFiniteSet(1..Len(dirs)) /\ IsFiniteSet(1..Len(dirs) + 1)
  BY <1>3, FS_Interval
<1>5. IsFiniteSet(AddsLeft)
  <2> DEFINE D == (1..Len(dirs) + 1) \X (Paths \X (Paths \cup {0}))
             T == (1..Len(dirs) + 1) \X Paths \X (Paths \cup {0})
             f == [e \in D |-> <<e[1], e[2][1], e[2][2]>>]
  <2>1. IsFiniteSet(D)
    BY <1>1, <1>2, <1>4, FS_Product
  <2>2. f \in [D -> T]
    OBVIOUS
  <2>3. ASSUME NEW e \in T PROVE \E x \in D : f[x] = e
    <3>1. <<e[1], <<e[2], e[3]>>>> \in D /\ f[<<e[1], <<e[2], e[3]>>>>] = e
      OBVIOUS
    <3> QED
      BY <3>1
  <2>4. f \in Surjection(D, T)
    BY <2>2, <2>3 DEF Surjection
  <2>5. IsFiniteSet(T)
    BY <2>1, <2>4, FS_Surjection
  <2>6. AddsLeft \subseteq T
    BY DEF AddsLeft
  <2> QED
    BY <2>5, <2>6, FS_Subset
<1>6. IsFiniteSet(SeesLeft)
  <2>1. IsFiniteSet(Paths \X (Paths \cup {0}))
    BY <1>1, <1>2, FS_Product
  <2>2. SeesLeft \subseteq Paths \X (Paths \cup {0})
    BY DEF SeesLeft
  <2> QED
    BY <2>1, <2>2, FS_Subset
<1>7. IsFiniteSet(PhasesLeft)
  <2>1. IsFiniteSet({"sort", "list", "link"})
    <3>1. IsFiniteSet({"sort"})
      BY FS_Singleton
    <3>2. IsFiniteSet({"sort"} \cup {"list"})
      BY <3>1, FS_AddElement
    <3>3. IsFiniteSet({"sort"} \cup {"list"} \cup {"link"})
      BY <3>2, FS_AddElement
    <3>4. {"sort", "list", "link"} = {"sort"} \cup {"list"} \cup {"link"}
      OBVIOUS
    <3> QED
      BY <3>3, <3>4
  <2> QED
    BY <2>1, FS_Subset DEF PhasesLeft
<1>8. \A S \in SUBSET Paths : IsFiniteSet(S)
  BY <1>1, FS_Subset
<1>9. /\ SortCallsLeft \subseteq Paths /\ SortReturnsLeft \subseteq Paths
      /\ LinkCallsLeft \subseteq Paths /\ LinkReturnsLeft \subseteq Paths
  BY DEF SortCallsLeft, SortReturnsLeft, LinkCallsLeft, LinkReturnsLeft, Without
<1>10. ListsLeft \subseteq Paths
  <2>1. CASE pc = "list"
    <3>1. ListInv /\ HeapInv
      BY <2>1 DEF IInv, Always
    <3>2. \A m \in ToSet(sorted) : Path(m) \in Paths
      BY <3>1, ObjectIs DEF ListInv
    <3> QED
      BY <2>1, <3>2 DEF ListsLeft
  <2>2. CASE pc # "list"
    BY <2>2 DEF ListsLeft
  <2> QED
    BY <2>1, <2>2
<1> QED
  BY <1>4, <1>5, <1>6, <1>7, <1>8, <1>9, <1>10 DEF WorkLeft

\* Each step of the tools but stuttering does some of the work left and makes none: they
\* end, whatever imports what, as long as they go on.
THEOREM WorkShrinksCorrect == Spec => WorkShrinks
<1>1. Init => WInv
  BY InitInv, InitCalls DEF WInv
<1>2. WInv /\ [Next]_vars => WInv' /\ [Shrinks]_vars
  <2> SUFFICES ASSUME WInv, [Next]_vars PROVE WInv' /\ [Shrinks]_vars
    OBVIOUS
  <2>1. IInv'
    BY StepInv DEF WInv
  <2>2. CASE UNCHANGED vars
    BY <2>1, <2>2, CallsKeep DEF WInv
  <2>3. CASE vars' # vars
    BY <2>1, <2>3, StepShrinks DEF WInv
  <2> QED
    BY <2>2, <2>3
<1>3. Spec => [][Shrinks]_vars
  BY <1>1, <1>2, PTL DEF Spec
<1> QED
  BY <1>3 DEF WorkShrinks, Shrinks
=============================================================================
