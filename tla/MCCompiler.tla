----------------------------- MODULE MCCompiler -----------------------------
(***************************************************************************)
(* The parser, the type checker and the optimizer, each on its samples.    *)
(* A module goes through them one after the other and each has its own     *)
(* form of it, so a behaviour here is one of one phase.                    *)
(***************************************************************************)
EXTENDS MCInstances

CONSTANT Modules  \* the samples of the optimizer

VARIABLES
  phase,                                           \* "parse", "check" or "optimize"
  files, locs, err, meant, unread, read,           \* of the parser
  program, funs, order, passes, cleaning, inlined  \* and of the optimizer

parserVars    == <<files, locs, err, meant, unread, read>>
optimizerVars == <<program, funs, order, passes, cleaning, inlined>>
allVars       == <<phase, vars, parserVars, optimizerVars>>

Ps == INSTANCE MCParser
Op == INSTANCE MCOptimize WITH Programs <- Modules
Sm == INSTANCE Samples
AllModules == Sm!AllSamples

NoParser    == files = <<>> /\ locs = <<>> /\ err = <<>> /\ meant = <<>> /\ unread = <<>> /\ read = <<>>
NoChecker   == prog = <<>> /\ pc = "" /\ st = <<>> /\ mod = 0 /\ next = 0 /\ bodies = <<>>
NoOptimizer == program = "" /\ funs = <<>> /\ order = <<>> /\ passes = <<>> /\ cleaning = FALSE /\ inlined = FALSE

MCInit ==
  \/ phase = "parse"    /\ Ps!MCInit /\ NoChecker /\ NoOptimizer
  \/ phase = "check"    /\ Init     /\ NoParser  /\ NoOptimizer
  \/ phase = "optimize" /\ Op!Init   /\ NoParser  /\ NoChecker

ParseStep    == phase = "parse"    /\ Ps!MCNext /\ UNCHANGED <<phase, vars, optimizerVars>>
CheckStep    == phase = "check"    /\ Next     /\ UNCHANGED <<phase, parserVars, optimizerVars>>
OptimizeStep == phase = "optimize" /\ Op!Next   /\ UNCHANGED <<phase, vars, parserVars>>

MCNext == ParseStep \/ CheckStep \/ OptimizeStep
MCSpec == MCInit /\ [][MCNext]_allVars

(***************************************************************************)
(* Properties of the parser and the optimizer, each in its phase           *)
(***************************************************************************)
\* The signature of a definition that a message prints is read again as the definition's (ast/string.go).
MessagesNameTheDefinition == phase = "parse" => Ps!MessagesNameTheDefinition
\* The tree of a text is the one that the text was written from (ast/grammar.peggy).
MeansWhatIsWritten == phase = "parse" => Ps!MeansWhatIsWritten
\* A refusal of a text points at what was wanted furthest in it (ast/parser.go).
RefusalIsExplained == phase = "parse" => Ps!RefusalIsExplained
\* A text is read if and only if the grammar has it, whatever is remembered of its rules.
ReadsTheGrammar == phase = "parse" => Ps!ReadsTheGrammar
\* The ranges of the nodes of several files find the text of the node, its file, line and column (loc/loc.go).
RangesFindTheText == phase = "parse" => Ps!RangesFindTheText

\* Between the passes of the optimizer the code is whole (basic/optimize.go).
WellFormed == phase = "optimize" => Op!WellFormed
\* No value that is lifted stands for itself, so that substitution ends (basic/lift.go and basic/sub.go).
LiftsEnd == phase = "optimize" => Op!LiftsEnd
\* Calls of small functions and of blocks are inlined (basic/inline.go).
NoCallsLeft == phase = "optimize" => Op!NoCallsLeft
\* After each pass a program does what its source means.
MeaningKept == phase = "optimize" => Op!MeaningKept
\* A round of cleaning up that asks for another leaves less code (basic/cleanup.go).
CleanUpShrinks == [][cleaning /\ cleaning' => Op!LeavesLess]_allVars
=============================================================================
