----------------------------- MODULE InitOrder -----------------------------
(***************************************************************************)
(* checkInitCycles (src/types/check.go): finding initialization cycles and *)
(* the order in which the values of a module are initialized.              *)
(*                                                                         *)
(* While definitions are checked, use (src/types/scope.go) records for     *)
(* each value and function the definitions that use it.  checkInitCycles   *)
(* then walks depth first from each value to its users.  A value met again *)
(* while it is on the path is an initialization cycle; and the values,     *)
(* appended as the walk leaves them and reversed at the end, become        *)
(* SortedVals, the order in which the generated init function sets them.   *)
(*                                                                         *)
(* The model takes one step per call and per return of the recursive       *)
(* closure check.  The order of definitions and the order of recorded uses *)
(* are those of the source text; they are left open here.                  *)
(***************************************************************************)
EXTENDS Naturals, Sequences

CONSTANTS
  Vals, \* module-level values
  Funs  \* functions and methods

ASSUME DefsDisjoint == Vals \cap Funs = {}

Defs == Vals \cup Funs

VARIABLES
  users,  \* users[d]: the definitions that use d (initDeps)
  seen,   \* definitions the walk has entered
  path,   \* the calls of check in progress, outermost first
  left,   \* left[i]: users that path[i] has yet to look at
  post,   \* mod.SortedVals while the walk lasts: values in the order they are left
  errs,   \* values that were reported to be on an initialization cycle
  sorted, \* mod.SortedVals after it is reversed
  pc      \* "walk" or "done"

vars == <<users, seen, path, left, post, errs, sorted, pc>>

\* The definitions that are entered and not yet left.
OnStack == {path[i] : i \in 1..Len(path)}

\* Mutant: the value that the walk starts from is not on the path.
onPathFromRoot == {path[i] : i \in 2..Len(path)} \cap Vals

\* Mutant: onPath[val] is not reset when the walk leaves val.
onPathForEver == seen \cap Vals

\* The values among them.
onPath == OnStack \cap Vals

TypeOK ==
  /\ users \in [Defs -> SUBSET Defs]
  /\ seen \subseteq Defs
  /\ path \in Seq(Defs)
  /\ left \in Seq(SUBSET Defs) /\ Len(left) = Len(path)
  /\ post \in Seq(Vals) /\ sorted \in Seq(Vals)
  /\ errs \subseteq Vals
  /\ pc \in {"walk", "done"}

Init ==
  /\ users \in [Defs -> SUBSET Defs]
  /\ seen = {} /\ path = <<>> /\ left = <<>> /\ post = <<>> /\ errs = {}
  /\ sorted = <<>> /\ pc = "walk"

\* check(d) for a definition that is not seen yet: it is put on the path.
Enter(d) ==
  /\ seen' = seen \cup {d}
  /\ path' = Append(path, d)

\* The outer loop: a value that is not seen.
Root(v) ==
  /\ pc = "walk" /\ path = <<>> /\ v \notin seen
  /\ Enter(v)
  /\ left' = <<users[v]>>
  /\ UNCHANGED <<users, post, errs, sorted, pc>>

\* The innermost call takes the next of its users and calls check for it.
CallsFor(d) ==
  /\ path # <<>> /\ d \in left[Len(path)]

\* Mutant: the loop over the users does not advance.
RestAgain(d) == left

Rest(d) == [left EXCEPT ![Len(path)] = @ \ {d}]

\* A value on the path is a cycle.
Cycle(d) ==
  /\ CallsFor(d) /\ d \in onPath
  /\ errs' = errs \cup {d}
  /\ left' = Rest(d)
  /\ UNCHANGED <<users, seen, path, post, sorted, pc>>

Ignore(d) ==
  /\ CallsFor(d) /\ d \notin onPath /\ d \in seen
  /\ left' = Rest(d)
  /\ UNCHANGED <<users, seen, path, post, errs, sorted, pc>>

Visit(d) ==
  /\ CallsFor(d) /\ d \notin onPath /\ d \notin seen
  /\ Enter(d)
  /\ left' = Append(Rest(d), users[d])
  /\ UNCHANGED <<users, post, errs, sorted, pc>>

\* Mutant: the values are collected in the outer loop.
LeaveRoot ==
  /\ path # <<>> /\ left[Len(path)] = {}
  /\ path' = SubSeq(path, 1, Len(path) - 1)
  /\ left' = SubSeq(left, 1, Len(path) - 1)
  /\ post' = IF Len(path) = 1 THEN Append(post, path[1]) ELSE post
  /\ UNCHANGED <<users, seen, errs, sorted, pc>>

\* The innermost call returns: a value leaves the path and is appended.
Leave ==
  /\ path # <<>> /\ left[Len(path)] = {}
  /\ path' = SubSeq(path, 1, Len(path) - 1)
  /\ left' = SubSeq(left, 1, Len(path) - 1)
  /\ post' = IF path[Len(path)] \in Vals THEN Append(post, path[Len(path)]) ELSE post
  /\ UNCHANGED <<users, seen, errs, sorted, pc>>

\* Mutant: SortedVals is not reversed.
FinishUnreversed ==
  /\ pc = "walk" /\ path = <<>> /\ Vals \subseteq seen
  /\ sorted' = post
  /\ pc' = "done"
  /\ UNCHANGED <<users, seen, path, left, post, errs>>

Finish ==
  /\ pc = "walk" /\ path = <<>> /\ Vals \subseteq seen
  /\ sorted' = [i \in 1..Len(post) |-> post[Len(post) - i + 1]]
  /\ pc' = "done"
  /\ UNCHANGED <<users, seen, path, left, post, errs>>

Done == pc = "done" /\ UNCHANGED vars

Next ==
  \/ \E v \in Vals : Root(v)
  \/ \E d \in Defs : Cycle(d) \/ Ignore(d) \/ Visit(d)
  \/ Leave
  \/ Finish
  \/ Done

Spec == Init /\ [][Next]_vars

FairSpec == Spec /\ WF_vars(Next)

-----------------------------------------------------------------------------
(* What the walk promises *)

\* Sets that hold the users of all their members.
Closed(S) == \A u \in S : users[u] \subseteq S

\* The definitions that depend on d, directly or through others: the least
\* closed set with d's users.
Dependents(d) ==
  {w \in Defs : \A S \in SUBSET Defs : users[d] \subseteq S /\ Closed(S) => w \in S}

OnCycle(d) == d \in Dependents(d)

\* Whether the values that depend on s[i] stand after it.
DependentsAfter(s, i) ==
  \A w \in Dependents(s[i]) \cap Vals : \E j \in 1..Len(s) : i < j /\ s[j] = w

\* Only values that really depend on themselves are reported; in particular
\* "recursive functions are not a cycle" (check_test.go:891).
NoFalseAlarm == \A v \in errs : OnCycle(v)

\* Every value is initialized, and only once.
AllOnce ==
  pc = "done" =>
    /\ \A v \in Vals : \E i \in 1..Len(sorted) : sorted[i] = v
    /\ \A i, j \in 1..Len(sorted) : sorted[i] = sorted[j] => i = j

\* A value that does not depend on itself is initialized before the values that
\* depend on it, through functions, recursive ones included, as well; cycles
\* elsewhere in the module do not disturb this (check.go:338-356).
SortedOffCycle ==
  pc = "done" => \A i \in 1..Len(sorted) : ~ OnCycle(sorted[i]) => DependentsAfter(sorted, i)

\* A value is initialized before the values that use it directly, but for those that are
\* reported: no cycle of values alone goes unnoticed (check.go:312-336).
SortedOrReported ==
  pc = "done" => \A i \in 1..Len(sorted) : \A w \in users[sorted[i]] \cap Vals :
    w \in errs \/ \E j \in 1..Len(sorted) : i < j /\ sorted[j] = w

\* SortedVals is "topologically sorted such that values depending on other
\* values are later in the slice than their dependencies" (tree.go:21-23),
\* whenever the module is accepted.
SortedIfAccepted ==
  pc = "done" /\ errs = {} => \A i \in 1..Len(sorted) : DependentsAfter(sorted, i)

\* What is left to do at most: definitions to enter, users to look at, definitions to
\* leave, and to reverse the result.
Unseen == Defs \ seen
WorkLeft ==
  [enter  |-> Unseen,
   look   |-> {e \in Defs \X Defs :
                 e[1] \in Unseen \/ \E i \in 1..Len(path) : path[i] = e[1] /\ e[2] \in left[i]},
   leave  |-> Unseen \cup OnStack,
   finish |-> {"walk"} \cap {pc}]

\* Every step does some of the work that is left and makes no more of it, recursive
\* definitions included.
WorkShrinks ==
  [][/\ \A kind \in DOMAIN WorkLeft : WorkLeft'[kind] \subseteq WorkLeft[kind]
     /\ WorkLeft' # WorkLeft]_vars

\* The walk comes to an end.
Terminates == <>(pc = "done")
=============================================================================
