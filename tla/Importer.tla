------------------------------ MODULE Importer ------------------------------
(***************************************************************************)
(* How checking a module checks all that it imports (src/types/import.go,  *)
(* imports and check in src/types/check.go).                               *)
(*                                                                         *)
(* Check imports the modules of each import statement in turn; the         *)
(* importer that Check was given remembers what it has imported and which  *)
(* imports are under way, and a module it does not know is loaded, parsed  *)
(* and checked by a Check of its own, with the same importer.  A module    *)
(* that fails is remembered with nil definitions, and the next import of   *)
(* it gives those without an error.                                        *)
(*                                                                         *)
(* What a module imports and whether it has errors of its own is decided   *)
(* when its files are read.                                                *)
(***************************************************************************)
EXTENDS Naturals, Sequences

CONSTANTS
  Mods,       \* the paths of modules
  Root,       \* the path of the module that is checked
  MaxImports  \* bound on the import statements of a module

ASSUME RootAssumption == Root \in Mods /\ MaxImports \in Nat

VARIABLES
  statements, \* the import statements of the modules read so far
  broken,     \* history: the modules that have errors of their own
  checks,     \* the calls of Check under way, outermost first
  imports,    \* what the importer remembers: "no", "nil" or "defs"
  result      \* of the outermost Check

vars == <<statements, broken, checks, imports, result>>

Statements == UNION {[1..n -> Mods] : n \in 0..MaxImports}

\* A call of Check for a module with the import statements that are left to do,
\* and whether it has found errors.
Call(m, stmts) == [mod |-> m, left |-> stmts, errs |-> FALSE]

Init ==
  /\ \E stmts \in Statements :
       /\ statements = [m \in Mods |-> IF m = Root THEN stmts ELSE <<>>]
       /\ checks = <<Call(Root, stmts)>>
  /\ broken \in SUBSET {Root}
  /\ imports = [m \in Mods |-> "no"]
  /\ result = "none"

-----------------------------------------------------------------------------

Top == checks[Len(checks)]
path == Head(Top.left)
Importing == checks # <<>> /\ Top.left # <<>>

\* The modules on the importer's paths: the root and all imports under way.
Paths == {checks[i].mod : i \in 1..Len(checks)}

\* The innermost calls of Check go on with the next import.
Imported(stack, err) ==
  LET n == Len(stack)
  IN checks' = [stack EXCEPT ![n] = [mod |-> @.mod, left |-> Tail(@.left), errs |-> @.errs \/ err]]

\* Mutant: the import is tried again.
ImportCycleStuck ==
  /\ Importing /\ path \in Paths
  /\ checks' = [checks EXCEPT ![Len(checks)].errs = TRUE]
  /\ UNCHANGED <<statements, broken, imports, result>>

ImportCycle ==
  /\ Importing /\ path \in Paths
  /\ Imported(checks, TRUE)
  /\ UNCHANGED <<statements, broken, imports, result>>

\* Mutant: any import that is remembered is good.
NilForgiven == FALSE

\* An import without definitions: a name that is looked up in it is not found,
\* and if none is, the import is not used, which is an error as well.
NilNoticed == imports[path] = "nil"

ImportAgain ==
  /\ Importing /\ path \notin Paths /\ imports[path] # "no"
  /\ Imported(checks, NilNoticed)
  /\ UNCHANGED <<statements, broken, imports, result>>

\* mod.Load or the parser fails.
LoadFails ==
  /\ Importing /\ path \notin Paths /\ imports[path] = "no"
  /\ broken' = broken \cup {path}
  /\ imports' = [imports EXCEPT ![path] = "nil"]
  /\ Imported(checks, TRUE)
  /\ UNCHANGED <<statements, result>>

\* Mutant: what is remembered is not looked at.
LoadAgain(stmts, errs) ==
  /\ Importing /\ path \notin Paths
  /\ statements' = [statements EXCEPT ![path] = stmts]
  /\ broken' = IF errs THEN broken \cup {path} ELSE broken
  /\ checks' = Append(checks, Call(path, stmts))
  /\ UNCHANGED <<imports, result>>

Load(stmts, errs) ==
  /\ Importing /\ path \notin Paths /\ imports[path] = "no"
  /\ statements' = [statements EXCEPT ![path] = stmts]
  /\ broken' = IF errs THEN broken \cup {path} ELSE broken
  /\ checks' = Append(checks, Call(path, stmts))
  /\ UNCHANGED <<imports, result>>

\* Mutant: only the module's own errors count.
FailsOwn == Top.mod \in broken

\* The definitions are checked, now that everything is imported.
Fails == Top.errs \/ Top.mod \in broken

\* An imported module is done, and the one that imports it goes on.
ImportDone ==
  /\ Len(checks) > 1 /\ Top.left = <<>>
  /\ imports' = [imports EXCEPT ![Top.mod] = IF Fails THEN "nil" ELSE "defs"]
  /\ Imported(SubSeq(checks, 1, Len(checks) - 1), Fails)
  /\ UNCHANGED <<statements, broken, result>>

CheckDone ==
  /\ Len(checks) = 1 /\ Top.left = <<>>
  /\ result' = IF Fails THEN "failed" ELSE "ok"
  /\ checks' = <<>>
  /\ UNCHANGED <<statements, broken, imports>>

Returned == result # "none" /\ UNCHANGED vars

Next ==
  \/ ImportCycle \/ ImportAgain \/ LoadFails
  \/ \E stmts \in Statements, errs \in BOOLEAN : Load(stmts, errs)
  \/ ImportDone \/ CheckDone \/ Returned

Spec == Init /\ [][Next]_vars

\* Check is a sequential function that waits for nothing.
FairSpec == Spec /\ WF_vars(Next)

-----------------------------------------------------------------------------
(* Properties *)

Imports(m) == {statements[m][i] : i \in 1..Len(statements[m])}

\* The least set of modules with m's imports that has the imports of its members.
Reached(m) ==
  {d \in Mods : \A S \in SUBSET Mods :
     Imports(m) \subseteq S /\ (\A e \in S : Imports(e) \subseteq S) => d \in S}

\* Every module that the root reaches is without errors and on no import cycle.
Sound ==
  \A m \in {Root} \cup Reached(Root) : m \notin broken /\ m \notin Reached(m)

\* A module is accepted if and only if all that it imports, however indirectly, is
\* free of errors and of cycles: a failure is remembered as a success without
\* definitions (import.go:47) and is found all the same, and a module that is imported
\* along two ways is no cycle.  On the way, what is remembered with its definitions
\* has those of all that it imports.
AcceptsSound ==
  /\ result # "none" => (result = "ok" <=> Sound)
  /\ \A m \in Mods : imports[m] = "defs" => \A d \in Imports(m) : imports[d] = "defs"

\* What is left to do at most: modules to read, and for each that is not done the imports
\* to do, and to be done.
Unread == {m \in Mods \ {Root} : m \notin Paths /\ imports[m] = "no"}
WorkLeft ==
  [read  |-> Unread,
   turns |-> {e \in Mods \X (1..MaxImports + 1) :
                \/ e[1] \in Unread
                \/ \E i \in 1..Len(checks) :
                     checks[i].mod = e[1] /\ e[2] <= Len(checks[i].left) + 1}]

\* Every step does some of the work that is left and makes no more of it, import cycles
\* included.
WorkShrinks ==
  [][/\ \A kind \in DOMAIN WorkLeft : WorkLeft'[kind] \subseteq WorkLeft[kind]
     /\ WorkLeft' # WorkLeft]_vars

\* Check returns, whatever imports what.
Terminates == <>(result # "none")
=============================================================================
