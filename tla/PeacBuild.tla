----------------------------- MODULE PeacBuild -----------------------------
(***************************************************************************)
(* The build driver peac (src/peac/peac.go) and the files it works on.     *)
(*                                                                         *)
(* One invocation compiles, dependencies first, every module whose object  *)
(* file is not newer than its sources, and then links the object files     *)
(* into one executable.  What survives an invocation is the file system:   *)
(* sources, object files (.peago), the executable and the temporary Go     *)
(* file the linker phase writes into the working directory.  Files have a  *)
(* modification time and are decided upon by that time alone; their        *)
(* contents are abstracted to the versions of the module sources that went *)
(* into them.  A programmer edits and deletes sources, time passes, and an *)
(* invocation may be killed at any point.                                  *)
(*                                                                         *)
(* An object file holds more than its own module: the bodies of imported   *)
(* functions that the module uses are compiled into it too (basic.Build),  *)
(* and the merger keeps the first definition it sees of each name.         *)
(***************************************************************************)
EXTENDS Naturals, FiniteSets, Sequences, Listings

CONSTANTS
  Mods,             \* the modules of the program
  Root,             \* the module named on the command line
  Order,            \* the modules as mod.TopologicalDeps lists them
  LinkOrder,        \* the modules as objFiles lists them
  Copies,           \* Copies[m]: modules whose functions are compiled into m's object
  ValRefs,          \* <<m, d>>: code in m's object refers to module-level vals of d
  Files,            \* names of source files a module may have
  Modes,            \* what an invocation is asked to build
  EditsDuringBuild, \* may sources be edited while peac runs?
  Deletes,          \* may source files be deleted?
  Crashes,          \* may peac be killed, or fail while it writes an object file?
  MaxTime,          \* bound on the clock
  MaxEdits          \* bound on the number of changes to sources

ASSUME RootAssumption == Root \in Mods

\* What mod.LoadDeps, mod.TopologicalDeps and objFiles guarantee of the two listings:
\* module ModLoad has it as the invariant MeetsBuild.
ASSUME OrderAssumption == ListsOnce(Order, Mods)
ASSUME LinkOrderAssumption == ListsAll(LinkOrder, Mods)

ASSUME CopiesAssumption ==
  /\ Copies \in [Mods -> SUBSET Mods]
  /\ \A m \in Mods : m \in Copies[m]

ASSUME ValRefsAssumption == ValRefs \subseteq Mods \X Mods

\* An executable (-path main) and a library have different object files, so
\* that they do not mix; either may also be built as a test (-test).
ASSUME ModesAssumption ==
  /\ Modes \subseteq {"main", "lib", "test"}
  /\ ~ {"main", "lib"} \subseteq Modes

ASSUME SwitchAssumption ==
  /\ EditsDuringBuild \in BOOLEAN
  /\ Deletes \in BOOLEAN
  /\ Crashes \in BOOLEAN

ASSUME BoundAssumption == MaxTime \in Nat /\ MaxEdits \in Nat

VARIABLES
  clock,    \* the time stamp a file written now receives
  fileTime, \* fileTime[m][f]: modification time of a source file, 0 if it is absent
  srcVer,   \* srcVer[m]: version of module m's sources
  edits,    \* number of source changes so far; versions are numbered by them
  obj,      \* obj[m]: the object file of m
  bin,      \* the executable
  stray,    \* is a temporary Go file left over in the working directory?
  pc,       \* where the running (or last) invocation of peac is
  n,        \* position in Order or LinkOrder of the module it works on
  opts,     \* its options and what it found on loading the modules
  out       \* versions of the code it has read so far for the file it makes

files == <<clock, fileTime, srcVer, edits, obj, bin, stray>>
vars == <<clock, fileTime, srcVer, edits, obj, bin, stray, pc, n, opts, out>>

Version == Nat   \* 0: no code at all
Time == Nat      \* 0: the zero time, that of a file that does not exist

ObjFile == [time : Time, st : {"missing", "empty", "ragged", "full"},
            has : [Mods -> Version]]
BinFile == [time : Time, st : {"missing", "torn", "full"},
            mode : {"main", "lib", "test"}, has : [Mods -> Version]]

Running == {"stat", "parse", "check", "create", "flush",
            "linkstat", "merge", "gocompile", "golink"}

Options == [force : BOOLEAN,
            mode : {"main", "lib", "test"},
            poisoned : BOOLEAN] \* mod.Load listed a left-over Go file as a source

NoCode == [m \in Mods |-> 0]
NoObj == [time |-> 0, st |-> "missing", has |-> NoCode]
NoBin == [time |-> 0, st |-> "missing", mode |-> "lib", has |-> NoCode]
NoOptions == [force |-> FALSE, mode |-> "lib", poisoned |-> FALSE]

TypeOK ==
  /\ clock \in Nat \ {0}
  /\ fileTime \in [Mods -> [Files -> Time]]
  /\ srcVer \in [Mods -> Version]
  /\ edits \in Nat
  /\ obj \in [Mods -> ObjFile]
  /\ bin \in BinFile
  /\ stray \in BOOLEAN
  /\ pc \in Running \cup {"idle", "ok", "failed"}
  /\ n \in Nat
  /\ opts \in Options
  /\ out \in [Mods -> Version]

-----------------------------------------------------------------------------
(* The environment: the programmer, the clock, crashes. *)

Init ==
  /\ clock = 1
  /\ fileTime = [m \in Mods |-> [f \in Files |-> 1]]
  /\ srcVer = [m \in Mods |-> 1]
  /\ edits = 1
  /\ obj = [m \in Mods |-> NoObj]
  /\ bin = NoBin
  /\ stray = FALSE
  /\ pc = "idle" /\ n = 1 /\ opts = NoOptions /\ out = NoCode

Tick ==
  /\ clock < MaxTime
  /\ clock' = clock + 1
  /\ UNCHANGED <<fileTime, srcVer, edits, obj, bin, stray, pc, n, opts, out>>

\* A source file is written; while peac runs only files it has listed are.
Edit(m, f) ==
  /\ edits < MaxEdits
  /\ pc = "idle" \/ (EditsDuringBuild /\ pc \in Running /\ fileTime[m][f] > 0)
  /\ edits' = edits + 1
  /\ srcVer' = [srcVer EXCEPT ![m] = edits + 1]
  /\ fileTime' = [fileTime EXCEPT ![m][f] = clock]
  /\ UNCHANGED <<clock, obj, bin, stray, pc, n, opts, out>>

Delete(m, f) ==
  /\ Deletes
  /\ edits < MaxEdits /\ pc = "idle"
  /\ fileTime[m][f] > 0
  /\ \E g \in Files \ {f} : fileTime[m][g] > 0
  /\ edits' = edits + 1
  /\ srcVer' = [srcVer EXCEPT ![m] = edits + 1]
  /\ fileTime' = [fileTime EXCEPT ![m][f] = 0]
  /\ UNCHANGED <<clock, obj, bin, stray, pc, n, opts, out>>

\* The left-over Go files are removed by hand (peaok.sh does it on each run).
RemoveStray ==
  /\ pc = "idle" /\ stray
  /\ stray' = FALSE
  /\ UNCHANGED <<clock, fileTime, srcVer, edits, obj, bin, pc, n, opts, out>>

-----------------------------------------------------------------------------
(* peac *)

\* mod.Load and LoadDeps: the directory of the root module is the working
\* directory, so that a left-over Go file is taken for one of its sources.
Start(force, mode) ==
  /\ pc = "idle"
  /\ pc' = "stat" /\ n' = 1 /\ out' = NoCode
  /\ opts' = [force |-> force, mode |-> mode, poisoned |-> stray]
  /\ UNCHANGED files

\* The shell sees peac's exit status.
Exited ==
  /\ pc \in {"ok", "failed"}
  /\ pc' = "idle" /\ n' = 1 /\ opts' = NoOptions /\ out' = NoCode
  /\ UNCHANGED files

Die == pc' = "failed" /\ UNCHANGED <<n, opts, out>>

Cur == Order[n]

\* Mutant: a source file with the very time of the object file counts as older.
SrcNotAfter(m, t) ==
  /\ 0 < t
  /\ \A f \in Files : fileTime[m][f] <= t

\* lastModTime(files).Before(t), for the source files of a module.
SrcBefore(m, t) ==
  /\ 0 < t
  /\ \A f \in Files : fileTime[m][f] < t

\* Mutant: the same for object files and the executable.
ObjsNotAfter(t) ==
  /\ 0 < t
  /\ \A m \in Mods : obj[m].time <= t

\* lastModTime(objFiles).Before(t)
ObjsBefore(t) ==
  /\ 0 < t
  /\ \A m \in Mods : obj[m].time < t

\* Mutant: the loop over the modules does not advance.
SameModuleAgain ==
  /\ IF n < Len(Order)
     THEN pc' = "stat" /\ n' = n
     ELSE pc' = (IF opts.mode = "lib" THEN "ok" ELSE "linkstat") /\ n' = 1
  /\ out' = NoCode
  /\ UNCHANGED opts

\* The next module of Order; after the last one the executable is linked,
\* unless a library is built.
AfterModule ==
  /\ IF n < Len(Order)
     THEN pc' = "stat" /\ n' = n + 1
     ELSE pc' = (IF opts.mode = "lib" THEN "ok" ELSE "linkstat") /\ n' = 1
  /\ out' = NoCode
  /\ UNCHANGED opts

\* Mutant: every module is built, whatever the time stamps are.
NeverUpToDate == FALSE

\* Mutant: compile does not look at -force.
UpToDateForced == SrcBefore(Cur, obj[Cur].time)

UpToDate == ~ opts.force /\ SrcBefore(Cur, obj[Cur].time)

\* compile: "ok" is all that happens to a module that is up to date.
SkipModule ==
  /\ pc = "stat" /\ UpToDate
  /\ AfterModule
  /\ UNCHANGED files

BuildModule ==
  /\ pc = "stat" /\ ~ UpToDate
  /\ pc' = "parse"
  /\ UNCHANGED <<files, n, opts, out>>

\* parse reads the module's sources, or dies of a syntax error.
Parse ==
  /\ pc = "parse"
  /\ \/ /\ pc' = "check"
        /\ out' = [out EXCEPT ![Cur] = srcVer[Cur]]
        /\ UNCHANGED <<n, opts>>
     \/ Die
  /\ UNCHANGED files

\* check reads the sources, not the objects, of all that the module imports
\* (SourceImporter), or exits if there are errors.
Check ==
  /\ pc = "check"
  /\ \/ /\ pc' = "create"
        /\ out' = [d \in Mods |-> IF d \in Copies[Cur] \ {Cur} THEN srcVer[d] ELSE out[d]]
        /\ UNCHANGED <<n, opts>>
     \/ Die
  /\ UNCHANGED files

\* Mutant: an object file receives a time of its own, before all sources.
PutObjBackdated(m, st, has) ==
  obj' = [obj EXCEPT ![m] = [time |-> clock - 2, st |-> st, has |-> has]]

PutObj(m, st, has) == obj' = [obj EXCEPT ![m] = [time |-> clock, st |-> st, has |-> has]]

\* writeObj: os.Create truncates the object file in place ...
CreateObj ==
  /\ pc = "create"
  /\ PutObj(Cur, "empty", NoCode)
  /\ pc' = "flush"
  /\ UNCHANGED <<clock, fileTime, srcVer, edits, bin, stray, n, opts, out>>

\* ... and its contents follow.
FlushObj ==
  /\ pc = "flush"
  /\ PutObj(Cur, "full", out)
  /\ AfterModule
  /\ UNCHANGED <<clock, fileTime, srcVer, edits, bin, stray>>

\* A write fails after some of the contents are in the file: peac dies.
FlushFails ==
  /\ Crashes
  /\ pc = "flush"
  /\ PutObj(Cur, "ragged", NoCode)
  /\ Die
  /\ UNCHANGED <<clock, fileTime, srcVer, edits, bin, stray>>

\* link returns at once if every object file is older than the executable.
LinkSkip == ~ opts.force /\ ObjsBefore(bin.time)

LinkStat ==
  /\ pc = "linkstat"
  /\ pc' = IF LinkSkip THEN "ok" ELSE "merge"
  /\ UNCHANGED <<files, n, opts, out>>

\* merge creates the temporary Go file in the working directory and adds the
\* object files to it one by one.  Merger.Add keeps the first definition of
\* each name; an object file that ends within a section is an error.
MergeAdd ==
  LET o == obj[LinkOrder[n]]
  IN /\ pc = "merge" /\ n <= Len(LinkOrder)
     /\ stray' = TRUE
     /\ IF o.st = "ragged" THEN Die
        ELSE /\ n' = n + 1
             /\ out' = [d \in Mods |-> IF out[d] # 0 THEN out[d] ELSE o.has[d]]
             /\ UNCHANGED <<pc, opts>>
     /\ UNCHANGED <<clock, fileTime, srcVer, edits, obj, bin>>

MergeDone ==
  /\ pc = "merge" /\ n > Len(LinkOrder)
  /\ pc' = "gocompile"
  /\ UNCHANGED <<files, n, opts, out>>

\* Whether "go tool compile" has a definition for each name and no name twice.
GoDefined ==
  /\ ~ opts.poisoned
  /\ opts.mode = "main" => obj[Root].st = "full"
  /\ \A m, d \in Mods :
       <<m, d>> \in ValRefs /\ obj[m].st = "full" => obj[d].st = "full"

\* The Go compiler may also fail for what is in a module's own Go files, or
\* because definitions of different versions do not fit.  On failure the
\* temporary file stays, on success it is removed (-cleanup, the default).
GoCompile ==
  /\ pc = "gocompile"
  /\ \/ GoDefined /\ pc' = "golink" /\ stray' = FALSE /\ UNCHANGED <<n, opts, out>>
     \/ Die /\ UNCHANGED stray
  /\ UNCHANGED <<clock, fileTime, srcVer, edits, obj, bin>>

PutBin(st, has) == [time |-> clock, st |-> st, mode |-> opts.mode, has |-> has]

GoLink ==
  /\ pc = "golink"
  /\ \/ bin' = PutBin("full", out) /\ pc' = "ok" /\ UNCHANGED <<n, opts, out>>
     \/ bin' \in {bin, NoBin} /\ Die
  /\ UNCHANGED <<clock, fileTime, srcVer, edits, obj, stray>>

\* peac is killed.  An object file or an executable that is being written at
\* that moment stays behind, cut short.
Kill ==
  /\ Crashes
  /\ pc \in Running
  /\ Die
  /\ \/ UNCHANGED bin
     \/ pc = "golink" /\ bin' = PutBin("torn", NoCode)
  /\ UNCHANGED <<clock, fileTime, srcVer, edits, obj, stray>>

PeacStep ==
  \/ SkipModule \/ BuildModule \/ Parse \/ Check
  \/ CreateObj \/ FlushObj \/ FlushFails
  \/ LinkStat \/ MergeAdd \/ MergeDone \/ GoCompile \/ GoLink
  \/ Exited

Environment ==
  \/ Tick
  \/ \E m \in Mods, f \in Files : Edit(m, f) \/ Delete(m, f)
  \/ RemoveStray
  \/ \E force \in BOOLEAN, mode \in Modes : Start(force, mode)
  \/ Kill

Next == PeacStep \/ Environment

Spec == Init /\ [][Next]_vars

\* peac is one sequential process that waits for nothing but the go tool: its
\* own steps are never held up for ever.
FairSpec == Spec /\ WF_vars(PeacStep)
-----------------------------------------------------------------------------
(* What peac promises.  pc = "ok" is an exit with status 0. *)

Built == pc = "ok"
Linked == Built /\ opts.mode # "lib"

ObjFresh(m) == obj[m].st = "full" /\ obj[m].has[m] = srcVer[m]

\* Skipping is sound: when peac exits with success, every object file is whole
\* and was made from the present sources of its own module, whether it was
\* written by this invocation or skipped by the time stamp test of compile
\* (peac.go:69-78), and this although file times may be equal.
OwnFresh == Built => \A m \in Mods : ObjFresh(m)

\* The positions of the object files with code of module d.
Holders(d) == {i \in 1..Len(LinkOrder) : obj[LinkOrder[i]].has[d] # 0}

\* v is the code of d that linking the object files of this moment gives: that
\* of the first object file to have any.
FirstWins(d, v) ==
  IF Holders(d) = {} THEN v = 0
  ELSE \E i \in Holders(d) : /\ \A j \in Holders(d) : i <= j
                             /\ v = obj[LinkOrder[i]].has[d]

\* The executable is what merging the object files of this moment gives, be it
\* linked now or left alone by the time stamp test of link (peac.go:135-138).
BinMatchesObjs == Linked => bin.st = "full" /\ \A d \in Mods : FirstWins(d, bin.has[d])

\* A forced build recovers from whatever earlier, failed or killed invocations
\* and deleted files left behind: if it succeeds, the executable is of the kind
\* asked for and all code in it is of the present sources.
ForcedFresh ==
  Linked /\ opts.force => bin.st = "full" /\ bin.mode = opts.mode /\ bin.has = srcVer

\* Nothing is compiled needlessly: an invocation that is not forced rewrites an
\* object file only if it was not whole, or was made from other sources than the
\* present ones, or a source has the very same time stamp (compile, peac.go:75).
NoNeedlessBuild ==
  [][\A m \in Mods :
       obj'[m] # obj[m] /\ pc = "create" /\ ~ opts.force =>
         ~ ObjFresh(m) \/ \E f \in Files : fileTime[m][f] = obj[m].time]_vars

\* Every invocation comes to an end.
Terminates == pc \in Running ~> pc \in {"ok", "failed"}
=============================================================================
