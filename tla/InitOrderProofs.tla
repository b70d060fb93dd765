-------------------------- MODULE InitOrderProofs --------------------------
(* Proofs for InitOrder, for any sets of values and functions. *)
EXTENDS InitOrder, FiniteSetTheorems, TLAPS

\* What the walk has left for good.
Finished == seen \ OnStack

\* The calls in progress: distinct definitions, each a dependent of those that
\* are further out.
PathInv ==
  /\ OnStack \subseteq seen
  /\ \A i, j \in 1..Len(path) : path[i] = path[j] => i = j
  /\ \A i, j \in 1..Len(path) : i < j => path[j] \in Dependents(path[i])
  /\ pc = "done" => path = <<>>

\* Users that a call has looked at are seen.
SeenInv ==
  /\ \A i \in 1..Len(path) : left[i] \subseteq users[path[i]]
  /\ \A i \in 1..Len(path) : users[path[i]] \subseteq seen \cup left[i]
  /\ \A d \in Finished : users[d] \subseteq seen

\* post has the values that are finished, each once.
PostInv ==
  /\ \A i \in 1..Len(post) : post[i] \in Finished
  /\ \A i, j \in 1..Len(post) : post[i] = post[j] => i = j
  /\ \A v \in Finished \cap Vals : \E i \in 1..Len(post) : post[i] = v

\* The reverse of SortedOffCycle, for the values that are finished.
OrderInv ==
  \A i \in 1..Len(post) : ~ OnCycle(post[i]) =>
    \A w \in Dependents(post[i]) \cap Vals : \E j \in 1..Len(post) : j < i /\ post[j] = w

IInv ==
  /\ TypeOK /\ PathInv /\ SeenInv /\ PostInv /\ OrderInv
  /\ NoFalseAlarm /\ AllOnce /\ SortedOffCycle

-----------------------------------------------------------------------------
(* Dependents *)

\* A user of d depends on d.
LEMMA DependentsDirect ==
  ASSUME NEW d \in Defs, NEW w \in users[d], users \in [Defs -> SUBSET Defs]
  PROVE  w \in Dependents(d)
BY DEF Dependents

\* Dependents(d) has the users of all its members.
LEMMA DependentsClosed ==
  ASSUME NEW d \in Defs, NEW u \in Dependents(d), NEW w \in users[u],
         users \in [Defs -> SUBSET Defs]
  PROVE  w \in Dependents(d)
<1>1. u \in Defs /\ w \in Defs
  BY DEF Dependents
<1>2. ASSUME NEW S \in SUBSET Defs, users[d] \subseteq S, Closed(S)
      PROVE  w \in S
  BY <1>2 DEF Dependents, Closed
<1> QED
  BY <1>1, <1>2 DEF Dependents

\* It is the least such set.
LEMMA DependentsLeast ==
  ASSUME NEW d \in Defs, NEW S \in SUBSET Defs, users[d] \subseteq S, Closed(S)
  PROVE  Dependents(d) \subseteq S
BY DEF Dependents

\* Depending is transitive.
LEMMA DependentsTransitive ==
  ASSUME NEW d \in Defs, NEW u \in Dependents(d), NEW w \in Dependents(u),
         users \in [Defs -> SUBSET Defs]
  PROVE  w \in Dependents(d)
<1>1. u \in Defs /\ Dependents(d) \in SUBSET Defs
  BY DEF Dependents
<1>2. users[u] \subseteq Dependents(d)
  BY DependentsClosed
<1>3. Closed(Dependents(d))
  BY DependentsClosed DEF Closed
<1> QED
  BY <1>1, <1>2, <1>3, DependentsLeast

\* The walk does not change who depends on whom.
LEMMA DependentsKeep ==
  ASSUME users' = users
  PROVE  \A d : Dependents(d)' = Dependents(d)
BY DEF Dependents, Closed

-----------------------------------------------------------------------------
(* The inductive invariant *)

LEMMA InitInv == Init => IInv
BY DEF Init, IInv, TypeOK, PathInv, SeenInv, PostInv, OrderInv, Finished, OnStack,
       NoFalseAlarm, AllOnce, SortedOffCycle

\* A step that leaves post alone keeps what is known of it, if it finishes nothing.
LEMMA PostKeep ==
  ASSUME IInv, users' = users, post' = post, Finished' = Finished
  PROVE  PostInv' /\ OrderInv'
<1>1. \A d : Dependents(d)' = Dependents(d)
  BY DependentsKeep
<1>2. PostInv'
  BY DEF IInv, PostInv
<1>3. OrderInv'
  BY <1>1 DEF IInv, OrderInv, OnCycle
<1> QED
  BY <1>2, <1>3

\* A step of the walk says nothing of the final order.
LEMMA ResultKeep ==
  ASSUME IInv, users' = users, sorted' = sorted, pc' = pc
  PROVE  AllOnce' /\ SortedOffCycle'
<1>1. \A d : Dependents(d)' = Dependents(d)
  BY DependentsKeep
<1>2. AllOnce'
  BY DEF IInv, AllOnce
<1>3. SortedOffCycle'
  BY <1>1 DEF IInv, SortedOffCycle, OnCycle, DependentsAfter
<1> QED
  BY <1>2, <1>3

\* No value is reported.
LEMMA AlarmKeep ==
  ASSUME IInv, users' = users, errs' = errs
  PROVE  NoFalseAlarm'
BY DependentsKeep DEF IInv, NoFalseAlarm, OnCycle

LEMMA RootStep ==
  ASSUME IInv, NEW v \in Vals, Root(v)
  PROVE  IInv'
<1> USE DEF IInv, TypeOK
<1>0. v \in Defs /\ users' = users /\ post' = post /\ errs' = errs /\ sorted' = sorted /\ pc' = pc
  BY DEF Root, Defs
<1>1. path' = <<v>> /\ left' = <<users[v]>> /\ seen' = seen \cup {v} /\ v \notin seen /\ path = <<>>
  BY DEF Root, Enter
<1>2. TypeOK'
  BY <1>0, <1>1
<1>3. OnStack = {} /\ OnStack' = {v} /\ Finished' = Finished
  BY <1>1 DEF OnStack, Finished
<1>4. PathInv'
  BY <1>0, <1>1, <1>3 DEF PathInv, Root
<1>5. SeenInv'
  BY <1>0, <1>1, <1>3 DEF SeenInv
<1> QED
  BY <1>0, <1>2, <1>3, <1>4, <1>5, PostKeep, ResultKeep, AlarmKeep

\* Cycle and Ignore: the innermost call has looked at a user that is seen.
LEMMA LookedAt ==
  ASSUME IInv, NEW d \in Defs, CallsFor(d), d \in seen,
         left' = Rest(d), UNCHANGED <<users, seen, path, post, sorted, pc>>
  PROVE  /\ left' \in Seq(SUBSET Defs) /\ Len(left') = Len(path')
         /\ PathInv' /\ SeenInv' /\ PostInv' /\ OrderInv' /\ AllOnce' /\ SortedOffCycle'
<1> USE DEF IInv, TypeOK
<1>1. Len(path) \in 1..Len(left)
  BY DEF CallsFor
<1>2. /\ left' \in Seq(SUBSET Defs) /\ Len(left') = Len(left)
      /\ left'[Len(path)] = left[Len(path)] \ {d}
      /\ \A i \in 1..Len(path) : i # Len(path) => left'[i] = left[i]
  BY <1>1 DEF Rest
<1>3. OnStack' = OnStack /\ Finished' = Finished
  BY DEF OnStack, Finished
<1>4. PathInv'
  BY <1>3, DependentsKeep DEF PathInv
<1>5. SeenInv'
  BY <1>2, <1>3 DEF SeenInv
<1> QED
  BY <1>2, <1>3, <1>4, <1>5, PostKeep, ResultKeep

LEMMA IgnoreStep ==
  ASSUME IInv, NEW d \in Defs, Ignore(d)
  PROVE  IInv'
<1>1. TypeOK'
  BY LookedAt DEF Ignore, IInv, TypeOK
<1> QED
  BY <1>1, LookedAt, AlarmKeep DEF Ignore, IInv

LEMMA CycleStep ==
  ASSUME IInv, NEW d \in Defs, Cycle(d)
  PROVE  IInv'
<1> USE DEF IInv
<1>1. d \in Vals /\ d \in OnStack /\ d \in seen
  BY DEF Cycle, onPath, PathInv
<1>2. TypeOK'
  BY <1>1, LookedAt DEF Cycle, TypeOK
<1>3. OnCycle(d)
  <2>1. PICK i \in 1..Len(path) : path[i] = d
    BY <1>1 DEF OnStack
  <2>2. Len(path) \in 1..Len(path) /\ d \in users[path[Len(path)]] /\ path[Len(path)] \in Defs
    BY DEF Cycle, CallsFor, SeenInv, TypeOK
  <2>3. CASE i = Len(path)
    BY <2>1, <2>2, <2>3, DependentsDirect DEF OnCycle, TypeOK
  <2>4. CASE i < Len(path)
    <3>1. path[Len(path)] \in Dependents(d)
      BY <2>1, <2>2, <2>4 DEF PathInv
    <3> QED
      BY <2>2, <3>1, DependentsClosed DEF OnCycle, TypeOK
  <2> QED
    BY <2>1, <2>3, <2>4 DEF TypeOK
<1>4. NoFalseAlarm'
  BY <1>3, DependentsKeep DEF Cycle, NoFalseAlarm, OnCycle
<1> QED
  BY <1>1, <1>2, <1>4, LookedAt DEF Cycle

LEMMA VisitStep ==
  ASSUME IInv, NEW d \in Defs, Visit(d)
  PROVE  IInv'
<1> USE DEF IInv, TypeOK
<1> DEFINE k == Len(path)
<1>0. users' = users /\ post' = post /\ errs' = errs /\ sorted' = sorted /\ pc' = pc
  BY DEF Visit
<1>1. k \in 1..Len(path) /\ d \in left[k] /\ path[k] \in Defs /\ d \notin seen
  BY DEF Visit, CallsFor
<1>2. /\ Len(path') = k + 1 /\ path' \in Seq(Defs) /\ path'[k + 1] = d
      /\ \A i \in 1..k : path'[i] = path[i]
      /\ seen' = seen \cup {d}
  BY <1>1 DEF Visit, Enter
<1>3. /\ left' \in Seq(SUBSET Defs) /\ Len(left') = k + 1
      /\ left'[k + 1] = users[d] /\ left'[k] = left[k] \ {d}
      /\ \A i \in 1..k : i # k => left'[i] = left[i]
  BY <1>1 DEF Visit, Rest
<1>4. TypeOK'
  BY <1>0, <1>2, <1>3
<1>5. OnStack' = OnStack \cup {d}
  <2>1. 1..(k + 1) = 1..k \cup {k + 1}
    BY <1>1
  <2>2. OnStack' = {path'[i] : i \in 1..(k + 1)}
    BY <1>2 DEF OnStack
  <2>3. OnStack' = {path'[i] : i \in 1..k} \cup {path'[k + 1]}
    BY <2>1, <2>2
  <2>4. {path'[i] : i \in 1..k} = {path[i] : i \in 1..k}
    BY <1>2
  <2> QED
    BY <1>2, <2>3, <2>4 DEF OnStack
<1>6. Finished' = Finished
  BY <1>1, <1>2, <1>5 DEF Finished, PathInv
<1>7. PathInv'
  <2>1. d \in Dependents(path[k])
    BY <1>1, DependentsDirect DEF SeenInv
  <2>2. \A i \in 1..k : d \in Dependents(path[i])
    <3>1. TAKE i \in 1..k
    <3>2. CASE i = k
      BY <2>1, <3>2
    <3>3. CASE i < k
      <4>1. path[i] \in Defs /\ path[k] \in Dependents(path[i])
        BY <1>1, <3>3 DEF PathInv
      <4>2. d \in users[path[k]]
        BY <1>1 DEF SeenInv
      <4> QED
        BY <4>1, <4>2, DependentsClosed
    <3> QED
      BY <1>1, <3>2, <3>3
  <2>3. OnStack' \subseteq seen'
    BY <1>2, <1>5 DEF PathInv
  <2>4. ASSUME NEW i \in 1..k + 1, NEW j \in 1..k + 1, path'[i] = path'[j]
        PROVE  i = j
    <3>1. \A l \in 1..k : path'[l] \in seen
      BY <1>2 DEF PathInv, OnStack
    <3> QED
      BY <1>1, <1>2, <2>4, <3>1 DEF PathInv
  <2>5. ASSUME NEW i \in 1..k + 1, NEW j \in 1..k + 1, i < j
        PROVE  (path[j] \in Dependents(path[i]))'
    <3>1. i \in 1..k /\ path'[i] = path[i]
      BY <1>1, <1>2, <2>5
    <3>2. path'[j] \in Dependents(path[i])
      <4>1. CASE j = k + 1
        BY <1>2, <2>2, <3>1, <4>1
      <4>2. CASE j \in 1..k
        BY <1>2, <2>5, <3>1, <4>2 DEF PathInv
      <4> QED
        BY <1>1, <4>1, <4>2
    <3> QED
      BY <1>0, <3>1, <3>2 DEF Dependents, Closed
  <2>6. pc' # "done"
    BY <1>0, <1>1 DEF PathInv
  <2> QED
    BY <1>2, <2>3, <2>4, <2>5, <2>6 DEF PathInv
<1>8. SeenInv'
  <2>1. ASSUME NEW i \in 1..k + 1
        PROVE  left'[i] \subseteq users'[path'[i]] /\ users'[path'[i]] \subseteq seen' \cup left'[i]
    <3>1. CASE i = k + 1
      BY <1>0, <1>2, <1>3, <3>1
    <3>2. CASE i = k
      BY <1>0, <1>1, <1>2, <1>3, <3>2 DEF SeenInv
    <3>3. CASE i < k
      <4>1. i \in 1..k /\ left'[i] = left[i] /\ path'[i] = path[i]
        BY <1>1, <1>2, <1>3, <3>3
      <4> QED
        BY <1>0, <1>2, <4>1 DEF SeenInv
    <3> QED
      BY <1>1, <3>1, <3>2, <3>3
  <2> QED
    BY <1>0, <1>2, <1>3, <1>6, <2>1 DEF SeenInv
<1> QED
  BY <1>0, <1>4, <1>6, <1>7, <1>8, PostKeep, ResultKeep, AlarmKeep

\* When the walk leaves a value that is on no cycle, everything that depends on
\* it is finished: a dependent on the path would close a cycle through it.
LEMMA DependentsFinished ==
  ASSUME IInv, path # <<>>, left[Len(path)] = {}, ~ OnCycle(path[Len(path)])
  PROVE  Dependents(path[Len(path)]) \subseteq Finished
<1> USE DEF IInv, TypeOK
<1> DEFINE k == Len(path)
           v == path[k]
           S == Dependents(v) \cap seen
<1>1. k \in 1..Len(path) /\ v \in Defs /\ users[v] \subseteq seen
  BY DEF SeenInv
<1>2. Dependents(v) \cap OnStack = {}
  <2>1. SUFFICES ASSUME NEW i \in 1..Len(path), path[i] \in Dependents(v)
                 PROVE  FALSE
    BY DEF OnStack
  <2>2. CASE i = k
    BY <2>1, <2>2 DEF OnCycle
  <2>3. CASE i < k
    <3>1. v \in Dependents(path[i])
      BY <1>1, <2>3 DEF PathInv
    <3> QED
      BY <1>1, <2>1, <3>1, DependentsTransitive DEF OnCycle
  <2> QED
    BY <1>1, <2>2, <2>3
<1>3. users[v] \subseteq S
  BY <1>1, DependentsDirect
<1>4. Closed(S)
  <2>1. SUFFICES ASSUME NEW u \in S PROVE users[u] \subseteq S
    BY DEF Closed
  <2>2. u \in Finished
    BY <1>2 DEF Finished
  <2>3. users[u] \subseteq seen
    BY <2>2 DEF SeenInv
  <2>4. users[u] \subseteq Dependents(v)
    BY <1>1, DependentsClosed
  <2> QED
    BY <2>3, <2>4
<1>5. S \in SUBSET Defs
  OBVIOUS
<1>6. Dependents(v) \subseteq S
  <2> HIDE DEF S, v
  <2> QED
    BY <1>1, <1>3, <1>4, <1>5, DependentsLeast
<1> QED
  BY <1>2, <1>6 DEF Finished

LEMMA LeaveStep ==
  ASSUME IInv, Leave
  PROVE  IInv'
<1> USE DEF IInv, TypeOK
<1> DEFINE k == Len(path)
           v == path[k]
<1>0. users' = users /\ seen' = seen /\ errs' = errs /\ sorted' = sorted /\ pc' = pc
  BY DEF Leave
<1>1. k \in 1..Len(path) /\ v \in Defs /\ left[k] = {} /\ path # <<>>
  BY DEF Leave
<1>2. /\ path' \in Seq(Defs) /\ Len(path') = k - 1
      /\ \A i \in 1..k - 1 : path'[i] = path[i]
  BY <1>1 DEF Leave
<1>3. /\ left' \in Seq(SUBSET Defs) /\ Len(left') = k - 1
      /\ \A i \in 1..k - 1 : left'[i] = left[i]
  BY <1>1 DEF Leave
<1>4. TypeOK'
  <2>1. post' \in Seq(Vals)
    BY DEF Leave
  <2> QED
    BY <1>0, <1>2, <1>3, <2>1
<1>5. OnStack = OnStack' \cup {v}
  <2>1. 1..k = 1..(k - 1) \cup {k}
    BY <1>1
  <2>2. OnStack' = {path[i] : i \in 1..(k - 1)}
    BY <1>2 DEF OnStack
  <2> QED
    BY <2>1, <2>2 DEF OnStack
<1>6. v \notin OnStack'
  BY <1>1, <1>2 DEF OnStack, PathInv
<1>7. v \in seen /\ v \notin Finished /\ Finished' = Finished \cup {v}
  BY <1>0, <1>5, <1>6 DEF Finished, PathInv
<1>8. PathInv'
  <2>1. OnStack' \subseteq seen'
    BY <1>0, <1>5 DEF PathInv
  <2>2. ASSUME NEW i \in 1..k - 1, NEW j \in 1..k - 1, path'[i] = path'[j]
        PROVE  i = j
    <3>1. i \in 1..k /\ j \in 1..k
      BY <1>1
    <3>2. path[i] = path[j]
      BY <1>2, <2>2
    <3> QED
      BY <1>1, <3>1, <3>2 DEF PathInv
  <2>3. ASSUME NEW i \in 1..k - 1, NEW j \in 1..k - 1, i < j
        PROVE  (path[j] \in Dependents(path[i]))'
    <3>1. path'[i] = path[i] /\ path'[j] = path[j] /\ path[j] \in Dependents(path[i])
      BY <1>1, <1>2, <2>3 DEF PathInv
    <3> QED
      BY <1>0, <3>1 DEF Dependents, Closed
  <2>4. pc' # "done"
    BY <1>0, <1>1 DEF PathInv
  <2> QED
    BY <1>2, <2>1, <2>2, <2>3, <2>4 DEF PathInv
<1>9. SeenInv'
  <2>1. ASSUME NEW i \in 1..k - 1
        PROVE  left'[i] \subseteq users'[path'[i]] /\ users'[path'[i]] \subseteq seen' \cup left'[i]
    <3>1. left'[i] = left[i] /\ path'[i] = path[i]
      BY <1>2, <1>3
    <3>2. i \in 1..k
      BY <1>1
    <3> QED
      BY <1>0, <3>1, <3>2 DEF SeenInv
  <2>2. users[v] \subseteq seen
    BY <1>1 DEF SeenInv
  <2> QED
    BY <1>0, <1>2, <1>3, <1>7, <2>1, <2>2 DEF SeenInv
<1>10. PostInv' /\ OrderInv'
  <2>1. CASE v \notin Vals
    <3>1. post' = post /\ Finished' \cap Vals = Finished \cap Vals
      BY <1>7, <2>1 DEF Leave
    <3>2. PostInv'
      BY <1>7, <3>1 DEF PostInv
    <3>3. OrderInv'
      BY <1>0, <3>1, DependentsKeep DEF OrderInv, OnCycle
    <3> QED
      BY <3>2, <3>3
  <2>2. CASE v \in Vals
    <3> DEFINE m == Len(post)
    <3>1. /\ m \in Nat /\ Len(post') = m + 1 /\ post'[m + 1] = v
          /\ \A i \in 1..m : post'[i] = post[i]
      BY <2>2 DEF Leave
    <3>2. PostInv'
      <4>1. ASSUME NEW i \in 1..m + 1
            PROVE  post'[i] \in Finished'
        <5>1. CASE i \in 1..m
          <6>1. post[i] \in Finished /\ post'[i] = post[i]
            BY <3>1, <5>1 DEF PostInv
          <6> QED
            BY <1>7, <6>1
        <5>2. CASE i = m + 1
          BY <1>7, <3>1, <5>2
        <5> QED
          BY <3>1, <5>1, <5>2
      <4>2. ASSUME NEW i \in 1..m + 1, NEW j \in 1..m + 1, post'[i] = post'[j]
            PROVE  i = j
        <5>1. v \notin Finished /\ \A l \in 1..m : post[l] \in Finished
          BY <1>7 DEF PostInv
        <5>2. \A l \in 1..m : post'[l] # v
          BY <3>1, <5>1
        <5>3. CASE i \in 1..m /\ j \in 1..m
          <6>1. post[i] = post[j]
            BY <3>1, <4>2, <5>3
          <6> QED
            BY <5>3, <6>1 DEF PostInv
        <5>4. CASE i = m + 1 \/ j = m + 1
          BY <3>1, <4>2, <5>2, <5>4
        <5> QED
          BY <3>1, <5>3, <5>4
      <4>3. ASSUME NEW w \in Finished' \cap Vals
            PROVE  \E i \in 1..m + 1 : post'[i] = w
        BY <1>7, <3>1 DEF PostInv
      <4> QED
        BY <3>1, <4>1, <4>2, <4>3 DEF PostInv
    <3>3. ASSUME NEW i \in 1..m + 1, ~ OnCycle(post'[i]),
                 NEW w \in Dependents(post'[i]) \cap Vals
          PROVE  \E j \in 1..m + 1 : j < i /\ post'[j] = w
      <4>1. CASE i \in 1..m
        BY <3>1, <3>3, <4>1 DEF OrderInv
      <4>2. CASE i = m + 1
        <5>1. w \in Finished
          BY <1>1, <3>1, <3>3, <4>2, DependentsFinished
        <5>2. PICK j \in 1..m : post[j] = w
          BY <5>1 DEF PostInv
        <5> QED
          BY <3>1, <4>2, <5>2
      <4> QED
        BY <3>1, <4>1, <4>2
    <3>4. ASSUME NEW i \in 1..m + 1, (~ OnCycle(post[i]))',
                 NEW w \in (Dependents(post[i]) \cap Vals)'
          PROVE  \E j \in 1..m + 1 : j < i /\ post'[j] = w
      <4>1. (Dependents(post[i]))' = Dependents(post'[i])
        BY <1>0 DEF Dependents, Closed
      <4>2. ~ OnCycle(post'[i])
        BY <3>4, <4>1 DEF OnCycle
      <4> QED
        BY <3>3, <3>4, <4>1, <4>2
    <3>5. OrderInv'
      BY <3>1, <3>4 DEF OrderInv
    <3> QED
      BY <3>2, <3>5
  <2> QED
    BY <2>1, <2>2
<1> QED
  BY <1>0, <1>4, <1>8, <1>9, <1>10, ResultKeep, AlarmKeep

LEMMA FinishStep ==
  ASSUME IInv, Finish
  PROVE  IInv'
<1> USE DEF IInv, TypeOK
<1> DEFINE m == Len(post)
<1>0. UNCHANGED <<users, seen, path, left, post, errs>> /\ path = <<>> /\ pc' = "done"
  BY DEF Finish
<1>1. /\ m \in Nat /\ sorted' \in Seq(Vals) /\ Len(sorted') = m
      /\ \A i \in 1..m : sorted'[i] = post[m - i + 1]
  BY DEF Finish
<1>2. OnStack' = OnStack /\ Finished' = Finished /\ OnStack = {}
  BY <1>0 DEF OnStack, Finished
<1>3. TypeOK' /\ SeenInv'
  BY <1>0, <1>1, <1>2 DEF SeenInv
<1>4. PathInv'
  BY <1>0, <1>2 DEF PathInv
<1>5. AllOnce'
  <2>1. ASSUME NEW w \in Vals
        PROVE  \E i \in 1..m : sorted'[i] = w
    <3>1. w \in Finished
      BY <1>2 DEF Finish, Finished
    <3>2. PICK i \in 1..m : post[i] = w
      BY <3>1 DEF PostInv
    <3>3. m - i + 1 \in 1..m /\ m - (m - i + 1) + 1 = i
      BY <1>1
    <3> QED
      BY <1>1, <3>2, <3>3
  <2>2. ASSUME NEW i \in 1..m, NEW j \in 1..m, sorted'[i] = sorted'[j]
        PROVE  i = j
    <3>1. m - i + 1 \in 1..m /\ m - j + 1 \in 1..m
      BY <1>1
    <3> DEFINE a == m - i + 1
               b == m - j + 1
    <3>2. a = b
      <4>1. a \in 1..Len(post) /\ b \in 1..Len(post)
        BY <3>1
      <4>2. post[a] = post[b]
        BY <1>1, <2>2
      <4> HIDE DEF a, b
      <4> QED
        BY <4>1, <4>2 DEF PostInv
    <3> QED
      BY <1>1, <3>2
  <2> QED
    BY <1>1, <2>1, <2>2 DEF AllOnce
<1>6. SortedOffCycle'
  <2>1. ASSUME NEW i \in 1..m, ~ OnCycle(sorted'[i]), NEW w \in Dependents(sorted'[i]) \cap Vals
        PROVE  \E j \in 1..m : i < j /\ sorted'[j] = w
    <3>1. m - i + 1 \in 1..m /\ sorted'[i] = post[m - i + 1]
      BY <1>1
    <3>2. PICK j \in 1..m : j < m - i + 1 /\ post[j] = w
      BY <2>1, <3>1 DEF OrderInv
    <3>3. m - j + 1 \in 1..m /\ i < m - j + 1 /\ m - (m - j + 1) + 1 = j
      BY <1>1, <3>2
    <3> QED
      BY <1>1, <3>2, <3>3
  <2>2. ASSUME NEW i \in 1..m, (~ OnCycle(sorted[i]))',
               NEW w \in (Dependents(sorted[i]) \cap Vals)'
        PROVE  \E j \in 1..m : i < j /\ sorted'[j] = w
    <3>1. (Dependents(sorted[i]))' = Dependents(sorted'[i])
      BY <1>0 DEF Dependents, Closed
    <3>2. ~ OnCycle(sorted'[i])
      BY <2>2, <3>1 DEF OnCycle
    <3> QED
      BY <2>1, <2>2, <3>1, <3>2
  <2> QED
    BY <1>1, <2>2 DEF SortedOffCycle, DependentsAfter
<1> QED
  BY <1>0, <1>2, <1>3, <1>4, <1>5, <1>6, PostKeep, AlarmKeep

LEMMA StepInv == IInv /\ [Next]_vars => IInv'
<1> SUFFICES ASSUME IInv, [Next]_vars PROVE IInv'
  OBVIOUS
<1>1. CASE UNCHANGED vars
  <2>1. OnStack' = OnStack /\ Finished' = Finished
    BY <1>1 DEF vars, OnStack, Finished
  <2>2. TypeOK' /\ SeenInv'
    BY <1>1, <2>1 DEF vars, IInv, TypeOK, SeenInv
  <2>3. PathInv'
    BY <1>1, <2>1, DependentsKeep DEF vars, IInv, PathInv
  <2> QED
    BY <1>1, <2>1, <2>2, <2>3, PostKeep, ResultKeep, AlarmKeep DEF vars, IInv
<1> QED
  BY <1>1, RootStep, CycleStep, IgnoreStep, VisitStep, LeaveStep, FinishStep DEF Next, Done

-----------------------------------------------------------------------------

THEOREM IInvariance == Spec => []IInv
BY InitInv, StepInv, PTL DEF Spec

\* The walk keeps to its types: in particular the calls in progress and the users
\* they have left to look at stay in step.
THEOREM TypeCorrect == Spec => []TypeOK
<1>1. IInv => TypeOK
  BY DEF IInv
<1> QED
  BY <1>1, IInvariance, PTL

\* Whatever the definitions use, only values that depend on themselves are
\* reported as initialization cycles.
THEOREM NoFalseAlarmCorrect == Spec => []NoFalseAlarm
<1>1. IInv => NoFalseAlarm
  BY DEF IInv
<1> QED
  BY <1>1, IInvariance, PTL

\* SortedVals has every value exactly once.
THEOREM AllOnceCorrect == Spec => []AllOnce
<1>1. IInv => AllOnce
  BY DEF IInv
<1> QED
  BY <1>1, IInvariance, PTL

\* In SortedVals, a value that does not depend on itself stands before all
\* values that depend on it.
THEOREM SortedOffCycleCorrect == Spec => []SortedOffCycle
<1>1. IInv => SortedOffCycle
  BY DEF IInv
<1> QED
  BY <1>1, IInvariance, PTL
-----------------------------------------------------------------------------
(* Direct uses: the walk reports every value that it meets again on its path *)

\* The values that a call has looked at are reported, finished, or being visited.
LookedInv ==
  \A i \in 1..Len(path) : \A w \in (users[path[i]] \ left[i]) \cap Vals :
    w \in errs \/ w \in Finished \/ (i < Len(path) /\ path[i + 1] = w)

\* What stands after a finished value and uses it is reported.
DirectInv ==
  \A i \in 1..Len(post) : \A w \in users[post[i]] \cap Vals :
    w \in errs \/ \E j \in 1..Len(post) : j < i /\ post[j] = w

UsesInv == LookedInv /\ DirectInv /\ SortedOrReported

LEMMA InitUses == Init => UsesInv
BY DEF Init, UsesInv, LookedInv, DirectInv, SortedOrReported

\* A step that leaves no definition.
LEMMA UsesKeep ==
  ASSUME UsesInv, users' = users, post' = post, errs \subseteq errs', sorted' = sorted, pc' = pc
  PROVE  DirectInv' /\ SortedOrReported'
<1>1. DirectInv'
  BY DEF UsesInv, DirectInv
<1>2. SortedOrReported'
  BY DEF UsesInv, SortedOrReported
<1> QED
  BY <1>1, <1>2

LEMMA RootUses ==
  ASSUME IInv, UsesInv, NEW v \in Vals, Root(v)
  PROVE  UsesInv'
<1>1. path' = <<v>> /\ left' = <<users[v]>> /\ users' = users
  BY DEF Root, Enter
<1>2. LookedInv'
  BY <1>1 DEF LookedInv
<1> QED
  BY <1>2, UsesKeep DEF UsesInv, Root

LEMMA LookedAtUses ==
  ASSUME IInv, UsesInv, NEW d \in Defs, Cycle(d) \/ Ignore(d)
  PROVE  UsesInv'
<1> USE DEF IInv, TypeOK
<1> DEFINE k == Len(path)
<1>1. /\ UNCHANGED <<users, seen, path, post, sorted, pc>> /\ left' = Rest(d)
      /\ errs \subseteq errs' /\ CallsFor(d)
  BY DEF Cycle, Ignore
<1>2. k \in 1..Len(left)
  BY <1>1 DEF CallsFor
<1>3. /\ left'[k] = left[k] \ {d}
      /\ \A i \in 1..k : i # k => left'[i] = left[i]
  BY <1>1, <1>2 DEF Rest
<1>4. Finished' = Finished
  BY <1>1 DEF Finished, OnStack
<1>5. d \in Vals => d \in errs' \/ d \in Finished
  BY DEF Cycle, Ignore, Finished, onPath
<1>6. LookedInv'
  BY <1>1, <1>3, <1>4, <1>5 DEF UsesInv, LookedInv
<1> QED
  BY <1>1, <1>6, UsesKeep DEF UsesInv

LEMMA VisitUses ==
  ASSUME IInv, UsesInv, NEW d \in Defs, Visit(d)
  PROVE  UsesInv'
<1> USE DEF IInv, TypeOK
<1> DEFINE k == Len(path)
<1>1. /\ UNCHANGED <<users, post, errs, sorted, pc>>
      /\ path' = Append(path, d) /\ left' = Append(Rest(d), users[d]) /\ seen' = seen \cup {d}
      /\ CallsFor(d) /\ d \notin seen
  BY DEF Visit, Enter
<1>2. k \in 1..Len(left) /\ d \in left[k]
  BY <1>1 DEF CallsFor
<1>3. /\ Len(path') = k + 1 /\ path'[k + 1] = d
      /\ \A i \in 1..k : path'[i] = path[i]
  BY <1>1, <1>2
<1>4. /\ left'[k + 1] = users[d] /\ left'[k] = left[k] \ {d}
      /\ \A i \in 1..k : i # k => left'[i] = left[i]
  BY <1>1, <1>2 DEF Rest
<1>5. Finished \subseteq Finished'
  BY <1>1, <1>3, VisitStep DEF Finished, OnStack
<1>6. ASSUME NEW i \in 1..Len(path'), NEW w \in Vals, w \in users'[path'[i]], w \notin left'[i]
      PROVE  w \in errs' \/ w \in Finished' \/ (i < Len(path') /\ path'[i + 1] = w)
  <2>1. CASE i = k + 1
    BY <1>1, <1>3, <1>4, <1>6, <2>1
  <2>2. CASE i = k
    <3>1. w = d \/ w \in (users[path[k]] \ left[k]) \cap Vals
      BY <1>1, <1>2, <1>3, <1>4, <1>6, <2>2
    <3> QED
      BY <1>1, <1>2, <1>3, <1>5, <2>2, <3>1 DEF UsesInv, LookedInv
  <2>3. CASE i \in 1..k - 1
    <3>1. i \in 1..k /\ i + 1 \in 1..k /\ path'[i + 1] = path[i + 1] /\ path'[i] = path[i] /\ left'[i] = left[i]
      BY <1>2, <1>3, <1>4, <2>3
    <3>2. w \in (users[path[i]] \ left[i]) \cap Vals
      BY <1>1, <1>6, <3>1
    <3>3. w \in errs \/ w \in Finished \/ (i < k /\ path[i + 1] = w)
      BY <3>1, <3>2 DEF UsesInv, LookedInv
    <3> QED
      BY <1>1, <1>3, <1>5, <3>1, <3>3
  <2> QED
    BY <1>2, <1>3, <2>1, <2>2, <2>3
<1>7. LookedInv'
  BY <1>6 DEF LookedInv
<1> QED
  BY <1>1, <1>7, UsesKeep DEF UsesInv

LEMMA LeaveUses ==
  ASSUME IInv, UsesInv, Leave
  PROVE  UsesInv'
<1> USE DEF IInv, TypeOK
<1> DEFINE k == Len(path)
           v == path[k]
           m == Len(post)
<1>1. /\ UNCHANGED <<users, seen, errs, sorted, pc>> /\ k \in 1..Len(path) /\ left[k] = {}
      /\ post' = IF v \in Vals THEN Append(post, v) ELSE post
  BY DEF Leave
<1>2. /\ Len(path') = k - 1
      /\ \A i \in 1..k - 1 : path'[i] = path[i] /\ left'[i] = left[i]
  BY <1>1 DEF Leave
<1>3. OnStack = OnStack' \cup {v} /\ v \notin OnStack' /\ v \in seen
  <2>1. 1..k = 1..(k - 1) \cup {k}
    BY <1>1
  <2>2. OnStack' = {path[i] : i \in 1..(k - 1)}
    BY <1>2 DEF OnStack
  <2>3. \A i \in 1..(k - 1) : path[i] # v
    BY <1>1 DEF PathInv
  <2>4. OnStack = {path[i] : i \in 1..(k - 1)} \cup {path[k]}
    BY <2>1 DEF OnStack
  <2>5. v \in OnStack /\ OnStack \subseteq seen
    BY <2>4 DEF PathInv
  <2> QED
    BY <2>2, <2>3, <2>4, <2>5
<1>4. Finished' = Finished \cup {v}
  BY <1>1, <1>3 DEF Finished
<1>5. LookedInv'
  <2>1. ASSUME NEW i \in 1..Len(path'), NEW w \in Vals, w \in users'[path'[i]], w \notin left'[i]
        PROVE  w \in errs' \/ w \in Finished' \/ (i < Len(path') /\ path'[i + 1] = w)
    <3>0. i \in 1..k - 1 /\ i \in 1..k /\ w \in (users[path[i]] \ left[i]) \cap Vals
      BY <1>1, <1>2, <2>1
    <3>1. w \in errs \/ w \in Finished \/ (i < k /\ path[i + 1] = w)
      BY <3>0 DEF UsesInv, LookedInv
    <3>2. CASE i = k - 1
      BY <1>1, <1>4, <3>1, <3>2
    <3>3. CASE i + 1 \in 1..k - 1
      BY <1>1, <1>2, <1>4, <3>1, <3>3
    <3> QED
      BY <1>1, <3>0, <3>2, <3>3
  <2> QED
    BY <2>1 DEF LookedInv
<1>6. DirectInv'
  <2>1. CASE v \notin Vals
    <3>1. UNCHANGED <<users, errs, post>>
      BY <1>1, <2>1
    <3>2. DirectInv
      BY DEF UsesInv
    <3> QED
      BY ONLY <3>1, <3>2 DEF DirectInv
  <2>2. CASE v \in Vals
    <3>1. /\ m \in Nat /\ Len(post') = m + 1 /\ post'[m + 1] = v
          /\ \A i \in 1..m : post'[i] = post[i]
      BY <1>1, <2>2
    <3>2. ASSUME NEW i \in 1..m + 1, NEW w \in users[post'[i]] \cap Vals
          PROVE  w \in errs \/ \E j \in 1..m + 1 : j < i /\ post'[j] = w
      <4>1. CASE i \in 1..m
        BY <3>1, <3>2, <4>1 DEF UsesInv, DirectInv
      <4>2. CASE i = m + 1
        <5>0. w \in (users[path[k]] \ left[k]) \cap Vals
          BY <1>1, <3>1, <3>2, <4>2
        <5>1. w \in errs \/ w \in Finished
          <6>1. w \in errs \/ w \in Finished \/ (k < Len(path) /\ path[k + 1] = w)
            BY <1>1, <5>0 DEF UsesInv, LookedInv
          <6> QED
            BY <1>1, <6>1
        <5>2. w \in Finished => \E j \in 1..m : post[j] = w
          BY DEF PostInv
        <5> QED
          BY <3>1, <4>2, <5>1, <5>2
      <4> QED
        BY <3>1, <4>1, <4>2
    <3> QED
      BY <1>1, <3>1, <3>2 DEF DirectInv
  <2> QED
    BY ONLY <2>1, <2>2
<1>7. SortedOrReported'
  <2>1. SortedOrReported
    BY DEF UsesInv
  <2>2. UNCHANGED <<users, errs, sorted, pc>>
    BY <1>1
  <2> QED
    BY ONLY <2>1, <2>2 DEF SortedOrReported
<1> QED
  BY <1>5, <1>6, <1>7 DEF UsesInv

LEMMA FinishUses ==
  ASSUME IInv, UsesInv, Finish
  PROVE  UsesInv'
<1> USE DEF IInv, TypeOK
<1> DEFINE m == Len(post)
<1>1. UNCHANGED <<users, seen, path, left, post, errs>> /\ path = <<>>
  BY DEF Finish
<1>2. /\ m \in Nat /\ sorted' \in Seq(Vals) /\ Len(sorted') = m
      /\ \A i \in 1..m : sorted'[i] = post[m - i + 1]
  BY DEF Finish
<1>3. LookedInv' /\ DirectInv'
  BY <1>1 DEF UsesInv, LookedInv, DirectInv
<1>4. ASSUME NEW i \in 1..m, NEW w \in users[sorted'[i]] \cap Vals
      PROVE  w \in errs \/ \E j \in 1..m : i < j /\ sorted'[j] = w
  <2>1. m - i + 1 \in 1..m /\ sorted'[i] = post[m - i + 1]
    BY <1>2
  <2>2. w \in errs \/ \E j \in 1..m : j < m - i + 1 /\ post[j] = w
    BY <1>4, <2>1 DEF UsesInv, DirectInv
  <2>3. ASSUME NEW j \in 1..m, j < m - i + 1, post[j] = w
        PROVE  m - j + 1 \in 1..m /\ i < m - j + 1 /\ sorted'[m - j + 1] = w
    <3>1. m - j + 1 \in 1..m /\ i < m - j + 1 /\ m - (m - j + 1) + 1 = j
      BY <1>2, <2>3
    <3> QED
      BY <1>2, <2>3, <3>1
  <2> QED
    BY <2>2, <2>3
<1>5. SortedOrReported'
  BY <1>1, <1>2, <1>4 DEF SortedOrReported
<1> QED
  BY <1>3, <1>5 DEF UsesInv

LEMMA StepUses == IInv /\ UsesInv /\ [Next]_vars => UsesInv'
<1> SUFFICES ASSUME IInv, UsesInv, [Next]_vars PROVE UsesInv'
  OBVIOUS
<1>1. CASE UNCHANGED vars
  BY <1>1 DEF vars, UsesInv, LookedInv, DirectInv, SortedOrReported, Finished, OnStack
<1> QED
  BY <1>1, RootUses, LookedAtUses, VisitUses, LeaveUses, FinishUses DEF Next, Done

\* A value is initialized before those that use it directly, unless these are reported:
\* what the walk misses is a cycle through a function.
THEOREM SortedOrReportedCorrect == Spec => []SortedOrReported
<1>1. UsesInv => SortedOrReported
  BY DEF UsesInv
<1> QED
  BY <1>1, IInvariance, InitUses, StepUses, PTL DEF Spec

-----------------------------------------------------------------------------
(* The walk ends *)

\* The parts of WorkLeft.
Look == {e \in Defs \X Defs :
           e[1] \in Unseen \/ \E i \in 1..Len(path) : path[i] = e[1] /\ e[2] \in left[i]}

LEMMA WorkParts ==
  ASSUME Unseen' \subseteq Unseen, Look' \subseteq Look,
         (Unseen \cup OnStack)' \subseteq Unseen \cup OnStack,
         pc' = pc \/ pc' = "done",
         \/ Unseen' # Unseen \/ Look' # Look
         \/ (Unseen \cup OnStack)' # Unseen \cup OnStack
         \/ pc = "walk" /\ pc' = "done"
  PROVE  /\ \A kind \in DOMAIN WorkLeft : WorkLeft'[kind] \subseteq WorkLeft[kind]
         /\ WorkLeft' # WorkLeft
<1>1. /\ WorkLeft.enter = Unseen /\ WorkLeft.look = Look /\ WorkLeft.leave = Unseen \cup OnStack
      /\ WorkLeft.finish = {"walk"} \cap {pc}
      /\ DOMAIN WorkLeft = {"enter", "look", "leave", "finish"}
  BY DEF WorkLeft, Look
<1>2. /\ WorkLeft'.enter = Unseen' /\ WorkLeft'.look = Look'
      /\ WorkLeft'.leave = (Unseen \cup OnStack)'
      /\ WorkLeft'.finish = {"walk"} \cap {pc'}
  BY DEF WorkLeft, Look
<1>3. "walk" # "done"
  OBVIOUS
<1>4. WorkLeft' # WorkLeft
  BY <1>1, <1>2, <1>3
<1>5. ASSUME NEW kind \in DOMAIN WorkLeft PROVE WorkLeft'[kind] \subseteq WorkLeft[kind]
  BY <1>1, <1>2, <1>3
<1> QED
  BY <1>4, <1>5

\* Entering a definition and looking at a user.
LEMMA EnterShrinks ==
  ASSUME IInv, NEW d \in Defs, (d \in Vals /\ Root(d)) \/ Visit(d)
  PROVE  /\ Unseen' = Unseen \ {d} /\ d \in Unseen /\ OnStack' = OnStack \cup {d}
         /\ Look' \subseteq Look /\ pc' = pc
<1> USE DEF IInv, TypeOK
<1> DEFINE k == Len(path)
<1>1. CASE Visit(d)
  <2>1. /\ UNCHANGED users /\ pc' = pc
        /\ path' = Append(path, d) /\ left' = Append(Rest(d), users[d]) /\ seen' = seen \cup {d}
        /\ CallsFor(d) /\ d \notin seen
    BY <1>1 DEF Visit, Enter
  <2>2. k \in 1..Len(left) /\ d \in left[k] /\ k \in Nat
    BY <2>1 DEF CallsFor
  <2>3. /\ Len(path') = k + 1 /\ path'[k + 1] = d
        /\ \A i \in 1..k : path'[i] = path[i]
    BY <2>1, <2>2
  <2>4. /\ left'[k + 1] = users[d]
        /\ \A i \in 1..k : left'[i] \subseteq left[i]
    BY <2>1, <2>2 DEF Rest
  <2>5. OnStack' = OnStack \cup {d}
    <3>1. 1..(k + 1) = 1..k \cup {k + 1}
      BY <2>2
    <3>2. OnStack' = {path'[i] : i \in 1..k} \cup {path'[k + 1]}
      BY <2>3, <3>1 DEF OnStack
    <3>3. {path'[i] : i \in 1..k} = OnStack
      BY <2>3 DEF OnStack
    <3> QED
      BY <2>3, <3>2, <3>3
  <2>6. ASSUME NEW e \in Look' PROVE e \in Look
    <3>1. CASE e[1] \in Unseen'
      BY <2>1, <2>6, <3>1 DEF Look, Unseen
    <3>2. CASE \E i \in 1..Len(path') : path'[i] = e[1] /\ e[2] \in left'[i]
      <4>1. PICK i \in 1..(k + 1) : path'[i] = e[1] /\ e[2] \in left'[i]
        BY <2>3, <3>2
      <4>2. CASE i = k + 1
        BY <2>1, <2>3, <2>6, <4>1, <4>2 DEF Look, Unseen
      <4>3. CASE i \in 1..k
        BY <2>3, <2>4, <2>6, <4>1, <4>3 DEF Look
      <4> QED
        BY <2>2, <4>2, <4>3
    <3> QED
      BY <2>6, <3>1, <3>2 DEF Look
  <2> QED
    BY <2>1, <2>5, <2>6 DEF Unseen
<1>2. CASE d \in Vals /\ Root(d)
  <2>1. path' = <<d>> /\ left' = <<users[d]>> /\ seen' = seen \cup {d} /\ d \notin seen /\ path = <<>> /\ pc' = pc
    BY <1>2 DEF Root, Enter
  <2>2. OnStack = {} /\ OnStack' = {d}
    BY <2>1 DEF OnStack
  <2>3. Unseen' = Unseen \ {d} /\ d \in Unseen
    BY <2>1 DEF Unseen
  <2>4. Look' \subseteq Look
    BY <2>1, <2>3 DEF Look
  <2> QED
    BY <2>1, <2>2, <2>3, <2>4
<1> QED
  BY <1>1, <1>2

LEMMA LookShrinks ==
  ASSUME IInv, NEW d \in Defs, Cycle(d) \/ Ignore(d)
  PROVE  /\ Unseen' = Unseen /\ OnStack' = OnStack /\ pc' = pc
         /\ Look' \subseteq Look /\ Look' # Look
<1> USE DEF IInv, TypeOK
<1> DEFINE k == Len(path)
<1>1. UNCHANGED <<seen, path, pc>> /\ left' = Rest(d) /\ CallsFor(d)
  BY DEF Cycle, Ignore
<1>2. k \in 1..Len(left) /\ d \in left[k] /\ path[k] \in Defs /\ path[k] \in OnStack
  BY <1>1 DEF CallsFor, OnStack
<1>3. /\ left'[k] = left[k] \ {d}
      /\ \A i \in 1..k : left'[i] \subseteq left[i]
  BY <1>1, <1>2 DEF Rest
<1>4. Unseen' = Unseen /\ OnStack' = OnStack
  BY <1>1 DEF Unseen, OnStack
<1>5. Look' \subseteq Look
  BY <1>1, <1>3, <1>4 DEF Look
<1>6. <<path[k], d>> \in Look
  BY <1>2 DEF Look
<1>7. <<path[k], d>> \notin Look'
  <2>1. \A i \in 1..k : path[i] = path[k] => i = k
    BY <1>2 DEF PathInv
  <2>2. path[k] \notin Unseen
    BY <1>2 DEF Unseen, PathInv
  <2> QED
    BY <1>1, <1>3, <1>4, <2>1, <2>2 DEF Look
<1> QED
  BY <1>1, <1>4, <1>5, <1>6, <1>7

LEMMA LeaveShrinks ==
  ASSUME IInv, Leave
  PROVE  /\ Unseen' = Unseen /\ Look' \subseteq Look /\ pc' = pc
         /\ (Unseen \cup OnStack)' \subseteq Unseen \cup OnStack
         /\ (Unseen \cup OnStack)' # Unseen \cup OnStack
<1> USE DEF IInv, TypeOK
<1> DEFINE k == Len(path)
<1>1. UNCHANGED <<seen, pc>> /\ k \in 1..Len(path)
  BY DEF Leave
<1>2. /\ Len(path') = k - 1
      /\ \A i \in 1..k - 1 : path'[i] = path[i] /\ left'[i] = left[i] /\ i \in 1..k /\ i # k
  BY <1>1 DEF Leave
<1>3. Unseen' = Unseen
  BY <1>1 DEF Unseen
<1>4. Look' \subseteq Look
  BY <1>1, <1>2, <1>3 DEF Look
<1>5. OnStack' \subseteq OnStack
  BY <1>1, <1>2 DEF OnStack
<1>6. path[k] \in OnStack /\ path[k] \notin Unseen
  BY <1>1 DEF OnStack, PathInv, Unseen
<1>7. path[k] \notin OnStack'
  <2>1. \A i \in 1..k - 1 : path[i] # path[k]
    BY <1>1, <1>2 DEF PathInv
  <2> QED
    BY <1>2, <2>1 DEF OnStack
<1> QED
  BY <1>1, <1>3, <1>4, <1>5, <1>6, <1>7

\* With finitely many definitions there is only so much work to begin with.
LEMMA WorkIsFinite ==
  ASSUME IsFiniteSet(Vals), IsFiniteSet(Funs), TypeOK
  PROVE  \A kind \in DOMAIN WorkLeft : IsFiniteSet(WorkLeft[kind])
<1>1. IsFiniteSet(Defs) /\ IsFiniteSet(Defs \X Defs)
  BY FS_Union, FS_Product DEF Defs
<1>2. Unseen \subseteq Defs /\ Look \subseteq Defs \X Defs /\ Unseen \cup OnStack \subseteq Defs
  BY DEF TypeOK, Unseen, Look, OnStack
<1>3. IsFiniteSet(Unseen) /\ IsFiniteSet(Look) /\ IsFiniteSet(Unseen \cup OnStack)
  BY <1>1, <1>2, FS_Subset
<1>4. IsFiniteSet({"walk"} \cap {pc})
  <2>1. IsFiniteSet({"walk"})
    BY FS_Singleton
  <2> QED
    BY <2>1, FS_Subset
<1>5. DOMAIN WorkLeft = {"enter", "look", "leave", "finish"}
  BY DEF WorkLeft
<1>6. /\ WorkLeft["enter"] = Unseen /\ WorkLeft["look"] = Look
      /\ WorkLeft["leave"] = Unseen \cup OnStack /\ WorkLeft["finish"] = {"walk"} \cap {pc}
  BY DEF WorkLeft, Look
<1> QED
  BY <1>3, <1>4, <1>5, <1>6

\* Every step of the walk but stuttering does some work and makes none: a walk over
\* finitely many definitions ends whatever uses what, as long as it goes on.
THEOREM WorkShrinksCorrect == Spec => WorkShrinks
<1>1. ASSUME IInv, [Next]_vars
      PROVE  [/\ \A kind \in DOMAIN WorkLeft : WorkLeft'[kind] \subseteq WorkLeft[kind]
              /\ WorkLeft' # WorkLeft]_vars
  <2>1. CASE \E d \in Vals : Root(d)
    BY <1>1, <2>1, EnterShrinks, WorkParts DEF Defs
  <2>2. CASE \E d \in Defs : Visit(d)
    BY <1>1, <2>2, EnterShrinks, WorkParts
  <2>3. CASE \E d \in Defs : Cycle(d) \/ Ignore(d)
    BY <1>1, <2>3, LookShrinks, WorkParts
  <2>4. CASE Leave
    BY <1>1, <2>4, LeaveShrinks, WorkParts
  <2>5. CASE Finish
    <3>1. /\ UNCHANGED <<seen, path, left>> /\ pc = "walk" /\ pc' = "done"
      BY <2>5 DEF Finish
    <3>2. Unseen' = Unseen /\ OnStack' = OnStack /\ Look' = Look
      BY <3>1 DEF Unseen, OnStack, Look
    <3> QED
      BY <3>1, <3>2, WorkParts
  <2> QED
    BY <1>1, <2>1, <2>2, <2>3, <2>4, <2>5 DEF Next, Done
<1> QED
  BY <1>1, IInvariance, PTL DEF Spec, WorkShrinks
=============================================================================
