-------------------------- MODULE ImporterProofs --------------------------
(* Proofs for Importer, for any set of modules, which may be infinite. *)
EXTENDS Importer, SequenceTheorems, FiniteSetTheorems, TLAPS

\* What a module imports and reaches, for any import statements st.
ImportsIn(st, m) == {st[m][i] : i \in 1..Len(st[m])}
ReachIn(st, m) ==
  {d \in Mods : \A S \in SUBSET Mods :
     ImportsIn(st, m) \subseteq S /\ (\A e \in S : ImportsIn(st, e) \subseteq S) => d \in S}
\* A module that must not be accepted.
Unsound(st, br, m) == \E b \in {m} \cup ReachIn(st, m) : b \in br \/ b \in ReachIn(st, b)

CallSet == [mod : Mods, left : Seq(Mods), errs : BOOLEAN]
Stmts   == [Mods -> Seq(Mods)]
Memo    == [Mods -> {"no", "nil", "defs"}]
ModsOf(s) == {s[i].mod : i \in 1..Len(s)}

TypeInv ==
  /\ statements \in Stmts
  /\ broken \in SUBSET Mods
  /\ checks \in Seq(CallSet)
  /\ imports \in Memo
  /\ result \in {"none", "ok", "failed"}

\* The stack s is a chain of different modules, each imported by the one below it.
PathInv(s, st) ==
  /\ s # <<>> => s[1].mod = Root
  /\ \A i, j \in 1..Len(s) : i < j => s[j].mod # s[i].mod /\ s[j].mod \in ReachIn(st, s[i].mod)
  /\ \A i \in 1..Len(s) : i < Len(s) => s[i].left # <<>> /\ Head(s[i].left) = s[i + 1].mod

\* What is not left to import is there, unless an error has been found.
LeftInv(s, st, im) ==
  \A i \in 1..Len(s) :
    /\ \A k \in 1..Len(s[i].left) : s[i].left[k] \in ImportsIn(st, s[i].mod)
    /\ \A d \in ImportsIn(st, s[i].mod) :
         s[i].errs \/ im[d] = "defs" \/ \E k \in 1..Len(s[i].left) : s[i].left[k] = d

ErrsInv(s, st, br) == \A i \in 1..Len(s) : s[i].errs => Unsound(st, br, s[i].mod)

\* The modules with definitions are closed under imports, and sound; those that failed are not.
MemoInv(s, st, br, im) ==
  /\ \A m \in ModsOf(s) : im[m] = "no"
  /\ \A m \in Mods \ ModsOf(s) : im[m] = "no" /\ m # Root => st[m] = <<>>
  /\ \A m \in Mods : im[m] = "defs" =>
       m \notin br /\ m \notin ReachIn(st, m) /\ \A d \in ImportsIn(st, m) : im[d] = "defs"
  /\ \A m \in Mods : im[m] = "nil" => Unsound(st, br, m)

ResultInv ==
  /\ checks = <<>> <=> result # "none"
  /\ result = "ok" => ~Unsound(statements, broken, Root)
  /\ result = "failed" => Unsound(statements, broken, Root)

IInv ==
  /\ TypeInv
  /\ PathInv(checks, statements)
  /\ LeftInv(checks, statements, imports)
  /\ ErrsInv(checks, statements, broken)
  /\ MemoInv(checks, statements, broken, imports)
  /\ ResultInv

-----------------------------------------------------------------------------
(* What is reached *)

LEMMA ImportsType ==
  ASSUME NEW st \in Stmts, NEW m \in Mods
  PROVE  ImportsIn(st, m) \subseteq Mods
<1>1. st[m] \in Seq(Mods)
  BY DEF Stmts
<1> QED
  BY <1>1, ElementOfSeq DEF ImportsIn

\* The set of what is reached contains the imports, and those of its members.
LEMMA ReachClosed ==
  ASSUME NEW st \in Stmts, NEW m \in Mods
  PROVE  /\ ReachIn(st, m) \subseteq Mods
         /\ ImportsIn(st, m) \subseteq ReachIn(st, m)
         /\ \A e \in ReachIn(st, m) : ImportsIn(st, e) \subseteq ReachIn(st, m)
<1>1. ReachIn(st, m) \subseteq Mods
  BY DEF ReachIn
<1>2. ImportsIn(st, m) \subseteq ReachIn(st, m)
  BY ImportsType DEF ReachIn
<1>3. ASSUME NEW e \in ReachIn(st, m), NEW d \in ImportsIn(st, e)
      PROVE  d \in ReachIn(st, m)
  <2>1. e \in Mods /\ d \in Mods
    BY <1>1, ImportsType
  <2>2. ASSUME NEW S \in SUBSET Mods, ImportsIn(st, m) \subseteq S, \A c \in S : ImportsIn(st, c) \subseteq S
        PROVE  d \in S
    <3>1. e \in S
      BY <2>2 DEF ReachIn
    <3> QED
      BY <3>1, <2>2
  <2> QED
    BY <2>1, <2>2 DEF ReachIn
<1> QED
  BY <1>1, <1>2, <1>3

\* It is the least such set.
LEMMA ReachLeast ==
  ASSUME NEW st \in Stmts, NEW m \in Mods, NEW S \in SUBSET Mods,
         ImportsIn(st, m) \subseteq S, \A e \in S : ImportsIn(st, e) \subseteq S
  PROVE  ReachIn(st, m) \subseteq S
  BY DEF ReachIn

LEMMA ReachTransitive ==
  ASSUME NEW st \in Stmts, NEW m \in Mods, NEW e \in ReachIn(st, m)
  PROVE  e \in Mods /\ ReachIn(st, e) \subseteq ReachIn(st, m)
<1>1. e \in Mods
  BY ReachClosed
<1> QED
  BY <1>1, ReachClosed, ReachLeast

\* More imports reach more.
LEMMA ReachGrows ==
  ASSUME NEW st \in Stmts, NEW new \in Stmts, NEW m \in Mods,
         \A d \in Mods : ImportsIn(st, d) \subseteq ImportsIn(new, d)
  PROVE  ReachIn(st, m) \subseteq ReachIn(new, m)
<1> DEFINE S == ReachIn(new, m)
<1>1. S \in SUBSET Mods /\ ImportsIn(new, m) \subseteq S /\ \A e \in S : ImportsIn(new, e) \subseteq S
  BY ReachClosed
<1>2. ImportsIn(st, m) \subseteq S /\ \A e \in S : ImportsIn(st, e) \subseteq S
  BY <1>1
<1> QED
  BY <1>1, <1>2, ReachLeast

\* An unsound module stays so when statements are added to modules and more are broken.
LEMMA UnsoundStays ==
  ASSUME NEW st \in Stmts, NEW new \in Stmts, NEW m \in Mods, NEW br, NEW more,
         \A d \in Mods : ImportsIn(st, d) \subseteq ImportsIn(new, d),
         br \subseteq more, Unsound(st, br, m)
  PROVE  Unsound(new, more, m)
<1>1. PICK b \in {m} \cup ReachIn(st, m) : b \in br \/ b \in ReachIn(st, b)
  BY DEF Unsound
<1>2. b \in Mods
  BY ReachClosed
<1>3. ReachIn(st, m) \subseteq ReachIn(new, m) /\ ReachIn(st, b) \subseteq ReachIn(new, b)
  BY <1>2, ReachGrows
<1> QED
  BY <1>1, <1>3 DEF Unsound

\* A module that imports an unsound one is unsound.
LEMMA UnsoundSpreads ==
  ASSUME NEW st \in Stmts, NEW m \in Mods, NEW br, NEW d \in ImportsIn(st, m), Unsound(st, br, d)
  PROVE  Unsound(st, br, m)
<1>1. d \in ReachIn(st, m)
  BY ReachClosed
<1>2. ReachIn(st, d) \subseteq ReachIn(st, m)
  BY <1>1, ReachTransitive
<1> QED
  BY <1>1, <1>2 DEF Unsound

\* All that a module reaches from a closed set is in the set.
LEMMA ClosedKeepsReach ==
  ASSUME NEW st \in Stmts, NEW new \in Stmts, NEW D \in SUBSET Mods, NEW m \in D,
         \A d \in D : ImportsIn(st, d) \subseteq D,
         \A d \in D : ImportsIn(new, d) = ImportsIn(st, d),
         m \notin ReachIn(st, m)
  PROVE  m \notin ReachIn(new, m)
<1> DEFINE S == ReachIn(st, m)
<1>1. S \in SUBSET Mods /\ ImportsIn(st, m) \subseteq S /\ \A e \in S : ImportsIn(st, e) \subseteq S
  BY ReachClosed
<1>2. S \subseteq D
  BY ReachLeast
<1>3. ImportsIn(new, m) \subseteq S /\ \A e \in S : ImportsIn(new, e) \subseteq S
  BY <1>1, <1>2
<1>4. ReachIn(new, m) \subseteq S
  BY <1>1, <1>3, ReachLeast
<1> QED
  BY <1>4

-----------------------------------------------------------------------------
(* The stack of calls of Check *)

LEMMA StackType ==
  ASSUME NEW s \in Seq(CallSet)
  PROVE  /\ Len(s) \in Nat
         /\ s # <<>> <=> Len(s) # 0
         /\ \A i \in 1..Len(s) :
              s[i] \in CallSet /\ s[i].mod \in Mods /\ s[i].left \in Seq(Mods) /\ s[i].errs \in BOOLEAN
         /\ ModsOf(s) \subseteq Mods
<1>1. Len(s) \in Nat /\ (s # <<>> <=> Len(s) # 0)
  BY EmptySeq, LenProperties
<1>2. \A i \in 1..Len(s) : s[i] \in CallSet
  BY ElementOfSeq
<1> QED
  BY <1>1, <1>2 DEF CallSet, ModsOf

LEMMA ReplaceCall ==
  ASSUME NEW s \in Seq(CallSet), NEW n \in 1..Len(s), NEW c \in CallSet
  PROVE  /\ [s EXCEPT ![n] = c] \in Seq(CallSet)
         /\ Len([s EXCEPT ![n] = c]) = Len(s)
         /\ \A j \in 1..Len(s) : [s EXCEPT ![n] = c][j] = IF j = n THEN c ELSE s[j]
<1>1. [s EXCEPT ![n] = c] \in Seq(CallSet) /\ Len([s EXCEPT ![n] = c]) = Len(s)
  BY ExceptSeq
<1> QED
  BY <1>1

\* The innermost call goes on with its next import.
Advanced(s, err) == [s EXCEPT ![Len(s)] = [mod |-> @.mod, left |-> Tail(@.left), errs |-> @.errs \/ err]]

LEMMA AdvanceTop ==
  ASSUME NEW s \in Seq(CallSet), s # <<>>, s[Len(s)].left # <<>>, NEW err \in BOOLEAN,
         NEW t, t = Advanced(s, err)
  PROVE  /\ t \in Seq(CallSet) /\ Len(t) = Len(s)
         /\ \A i \in 1..Len(s) : t[i].mod = s[i].mod
         /\ \A i \in 1..Len(s) : i # Len(s) => t[i] = s[i]
         /\ t[Len(s)].left = Tail(s[Len(s)].left)
         /\ t[Len(s)].errs <=> s[Len(s)].errs \/ err
<1> DEFINE n == Len(s)
           c == [mod |-> s[n].mod, left |-> Tail(s[n].left), errs |-> s[n].errs \/ err]
<1>1. n \in 1..Len(s) /\ s[n] \in CallSet
  BY StackType
<1>2. c \in CallSet
  BY <1>1, HeadTailProperties DEF CallSet
<1>3. t = [s EXCEPT ![n] = c]
  BY DEF Advanced
<1>4. c.mod = s[n].mod /\ c.left = Tail(s[n].left) /\ (c.errs <=> s[n].errs \/ err)
  OBVIOUS
<1> HIDE DEF c
<1> DEFINE u == [s EXCEPT ![n] = c]
<1>5. /\ u \in Seq(CallSet) /\ Len(u) = Len(s)
      /\ \A j \in 1..Len(s) : u[j] = IF j = n THEN c ELSE s[j]
  BY <1>1, <1>2, ReplaceCall
<1> HIDE DEF u
<1>6. t = u
  BY <1>3 DEF u
<1> QED
  BY <1>1, <1>4, <1>5, <1>6

\* An import is done: if without an error, the definitions are there.
CanAdvance(s, err, st, im, now, br, more) ==
  /\ s \in Seq(CallSet) /\ s # <<>> /\ s[Len(s)].left # <<>>
  /\ st \in Stmts /\ br \subseteq more
  /\ PathInv(s, st) /\ LeftInv(s, st, im) /\ ErrsInv(s, st, br)
  /\ \A m \in Mods : im[m] = "defs" => now[m] = "defs"
  /\ err => Unsound(st, more, s[Len(s)].mod)
  /\ ~err => now[Head(s[Len(s)].left)] = "defs"

LEMMA AdvanceKeeps ==
  ASSUME NEW s, NEW err \in BOOLEAN, NEW st, NEW im, NEW now, NEW br, NEW more,
         CanAdvance(s, err, st, im, now, br, more), NEW t, t = Advanced(s, err)
  PROVE  /\ t \in Seq(CallSet) /\ Len(t) = Len(s) /\ t # <<>> /\ ModsOf(t) = ModsOf(s)
         /\ PathInv(t, st) /\ LeftInv(t, st, now) /\ ErrsInv(t, st, more)
<1> SUFFICES ASSUME s \in Seq(CallSet), s # <<>>, s[Len(s)].left # <<>>,
                    st \in Stmts, br \subseteq more,
                    PathInv(s, st), LeftInv(s, st, im), ErrsInv(s, st, br),
                    \A m \in Mods : im[m] = "defs" => now[m] = "defs",
                    err => Unsound(st, more, s[Len(s)].mod),
                    ~err => now[Head(s[Len(s)].left)] = "defs"
             PROVE  /\ t \in Seq(CallSet) /\ Len(t) = Len(s) /\ t # <<>> /\ ModsOf(t) = ModsOf(s)
                    /\ PathInv(t, st) /\ LeftInv(t, st, now) /\ ErrsInv(t, st, more)
  BY DEF CanAdvance
<1> DEFINE n == Len(s)
<1>1. /\ t \in Seq(CallSet) /\ Len(t) = n
      /\ \A i \in 1..n : t[i].mod = s[i].mod
      /\ \A i \in 1..n : i # n => t[i] = s[i]
      /\ t[n].left = Tail(s[n].left)
      /\ t[n].errs <=> s[n].errs \/ err
  BY AdvanceTop
<1>2. /\ n \in Nat /\ n \in 1..n
      /\ \A i \in 1..n : s[i].mod \in Mods /\ s[i].left \in Seq(Mods)
  BY StackType
<1>3. t # <<>> /\ ModsOf(t) = ModsOf(s)
  BY <1>1, <1>2, StackType DEF ModsOf
<1>4. PathInv(t, st)
  <2>1. t[1].mod = Root
    BY <1>1, <1>2 DEF PathInv
  <2>2. \A i, j \in 1..n : i < j => t[j].mod # t[i].mod /\ t[j].mod \in ReachIn(st, t[i].mod)
    BY <1>1 DEF PathInv
  <2>3. ASSUME NEW i \in 1..n, i < n
        PROVE  t[i].left # <<>> /\ Head(t[i].left) = t[i + 1].mod
    <3>1. i + 1 \in 1..n /\ i # n
      BY <2>3, <1>2
    <3> QED
      BY <2>3, <3>1, <1>1 DEF PathInv
  <2> QED
    BY <1>1, <2>1, <2>2, <2>3 DEF PathInv
<1>5. LeftInv(t, st, now)
  <2>1. ASSUME NEW i \in 1..n, i # n
        PROVE  /\ \A k \in 1..Len(t[i].left) : t[i].left[k] \in ImportsIn(st, t[i].mod)
               /\ \A d \in ImportsIn(st, t[i].mod) :
                    t[i].errs \/ now[d] = "defs" \/ \E k \in 1..Len(t[i].left) : t[i].left[k] = d
    <3>1. t[i] = s[i]
      BY <1>1, <2>1
    <3>2. \A k \in 1..Len(s[i].left) : s[i].left[k] \in ImportsIn(st, s[i].mod)
      BY DEF LeftInv
    <3>3. ASSUME NEW d \in ImportsIn(st, s[i].mod)
          PROVE  s[i].errs \/ now[d] = "defs" \/ \E k \in 1..Len(s[i].left) : s[i].left[k] = d
      <4>1. d \in Mods
        BY <1>2, ImportsType
      <4>2. s[i].errs \/ im[d] = "defs" \/ \E k \in 1..Len(s[i].left) : s[i].left[k] = d
        BY DEF LeftInv
      <4> QED
        BY <4>1, <4>2
    <3> QED
      BY <3>1, <3>2, <3>3
  <2> DEFINE left == s[n].left
  <2>2. /\ Len(left) \in Nat /\ Len(left) # 0
        /\ Tail(left) \in Seq(Mods) /\ Len(Tail(left)) = Len(left) - 1
        /\ \A k \in 1..Len(Tail(left)) : Tail(left)[k] = left[k + 1]
        /\ Head(left) = left[1]
    <3>1. left \in Seq(Mods) /\ left # <<>>
      BY <1>2
    <3>2. Len(left) \in Nat /\ Len(left) # 0
      BY <3>1, LenProperties, EmptySeq
    <3> QED
      BY <3>1, <3>2, HeadTailProperties
  <2>3. \A k \in 1..Len(Tail(left)) : Tail(left)[k] \in ImportsIn(st, s[n].mod)
    <3>1. \A k \in 1..Len(Tail(left)) : k + 1 \in 1..Len(left)
      BY <2>2
    <3> QED
      BY <1>2, <2>2, <3>1 DEF LeftInv
  <2>4. ASSUME NEW d \in ImportsIn(st, s[n].mod)
        PROVE  t[n].errs \/ now[d] = "defs" \/ \E k \in 1..Len(Tail(left)) : Tail(left)[k] = d
    <3>1. d \in Mods
      BY <1>2, ImportsType
    <3>2. s[n].errs \/ im[d] = "defs" \/ \E k \in 1..Len(left) : left[k] = d
      BY <1>2 DEF LeftInv
    <3>3. CASE s[n].errs \/ im[d] = "defs"
      BY <3>1, <3>3, <1>1
    <3>4. ASSUME NEW k \in 1..Len(left), left[k] = d
          PROVE  t[n].errs \/ now[d] = "defs" \/ \E l \in 1..Len(Tail(left)) : Tail(left)[l] = d
      <4>1. CASE k = 1
        BY <4>1, <3>4, <2>2, <1>1
      <4>2. CASE k # 1
        <5>1. k - 1 \in 1..Len(Tail(left)) /\ (k - 1) + 1 = k
          BY <4>2, <2>2
        <5>2. Tail(left)[k - 1] = d
          BY <5>1, <2>2, <3>4
        <5> QED
          BY <5>1, <5>2
      <4> QED
        BY <4>1, <4>2
    <3> QED
      BY <3>2, <3>3, <3>4
  <2>5. ASSUME NEW i \in 1..n, i = n
        PROVE  /\ \A k \in 1..Len(t[i].left) : t[i].left[k] \in ImportsIn(st, t[i].mod)
               /\ \A d \in ImportsIn(st, t[i].mod) :
                    t[i].errs \/ now[d] = "defs" \/ \E k \in 1..Len(t[i].left) : t[i].left[k] = d
    <3>1. t[i].left = Tail(left) /\ t[i].mod = s[n].mod
      BY <1>1, <1>2, <2>5
    <3>2. \A d \in ImportsIn(st, s[n].mod) : t[i].errs \/ now[d] = "defs" \/ \E k \in 1..Len(Tail(left)) : Tail(left)[k] = d
      BY <2>4, <2>5, Zenon
    <3> HIDE DEF left
    <3> QED
      BY <3>1, <3>2, <2>3, Zenon
  <2>6. Len(t) = n
    BY <1>1
  <2>7. ASSUME NEW i \in 1..n
        PROVE  /\ \A k \in 1..Len(t[i].left) : t[i].left[k] \in ImportsIn(st, t[i].mod)
               /\ \A d \in ImportsIn(st, t[i].mod) :
                    t[i].errs \/ now[d] = "defs" \/ \E k \in 1..Len(t[i].left) : t[i].left[k] = d
    BY <2>1, <2>5, Zenon
  <2> QED
    BY <2>6, <2>7 DEF LeftInv
<1>6. ErrsInv(t, st, more)
  <2>1. ASSUME NEW i \in 1..n, s[i].errs
        PROVE  Unsound(st, more, s[i].mod)
    <3>1. Unsound(st, br, s[i].mod)
      BY <2>1 DEF ErrsInv
    <3> QED
      BY <3>1, <1>2, UnsoundStays
  <2> QED
    BY <1>1, <1>2, <2>1 DEF ErrsInv
<1> QED
  BY <1>1, <1>3, <1>4, <1>5, <1>6

\* The innermost call returns to one that imports its module.
LEMMA PopKeeps ==
  ASSUME NEW s \in Seq(CallSet), Len(s) > 1, NEW t, t = SubSeq(s, 1, Len(s) - 1),
         NEW st, NEW im, NEW br, PathInv(s, st), LeftInv(s, st, im), ErrsInv(s, st, br)
  PROVE  /\ t \in Seq(CallSet) /\ Len(t) = Len(s) - 1 /\ t # <<>>
         /\ \A i \in 1..Len(t) : t[i] = s[i]
         /\ t[Len(t)].left # <<>> /\ Head(t[Len(t)].left) = s[Len(s)].mod
         /\ PathInv(t, st) /\ LeftInv(t, st, im) /\ ErrsInv(t, st, br)
<1> DEFINE n == Len(s) - 1
<1>1. n \in Nat \ {0} /\ n \in Int /\ 1 \in Int /\ \A i \in 1..n : i \in 1..Len(s) /\ i < Len(s) /\ s[i] \in CallSet
  BY StackType
<1>2. t \in Seq(CallSet) /\ Len(t) = n /\ \A i \in 1..n : t[i] = s[i]
  <2>1. /\ t \in Seq(CallSet)
        /\ Len(t) = IF 1 <= n THEN n - 1 + 1 ELSE 0
        /\ \A i \in 1..(n - 1 + 1) : t[i] = s[1 + i - 1]
    BY <1>1, SubSeqProperties
  <2> QED
    BY <2>1, <1>1
<1>3. n \in 1..n /\ t # <<>> /\ Len(s) = n + 1
  <2>1. Len(t) # 0
    BY <1>1, <1>2
  <2>2. t # <<>>
    BY <2>1, <1>2, StackType
  <2>3. Len(s) \in Nat
    BY StackType
  <2> QED
    BY <1>1, <2>2, <2>3
<1>4. t[n].left # <<>> /\ Head(t[n].left) = s[n + 1].mod
  BY <1>1, <1>2, <1>3 DEF PathInv
<1>5. PathInv(t, st)
  <2>1. t[1].mod = Root
    BY <1>1, <1>2, <1>3, StackType DEF PathInv
  <2>2. \A i, j \in 1..n : i < j => t[j].mod # t[i].mod /\ t[j].mod \in ReachIn(st, t[i].mod)
    BY <1>1, <1>2 DEF PathInv
  <2>3. ASSUME NEW i \in 1..n, i < n
        PROVE  t[i].left # <<>> /\ Head(t[i].left) = t[i + 1].mod
    <3>1. i + 1 \in 1..n /\ t[i] = s[i] /\ t[i + 1] = s[i + 1]
      BY <2>3, <1>1, <1>2
    <3> QED
      BY <3>1, <1>1 DEF PathInv
  <2> QED
    BY <1>2, <2>1, <2>2, <2>3 DEF PathInv
<1>6. LeftInv(t, st, im)
  <2>1. \A i \in 1..n :
          /\ \A k \in 1..Len(s[i].left) : s[i].left[k] \in ImportsIn(st, s[i].mod)
          /\ \A d \in ImportsIn(st, s[i].mod) :
               s[i].errs \/ im[d] = "defs" \/ \E k \in 1..Len(s[i].left) : s[i].left[k] = d
    BY <1>1 DEF LeftInv
  <2> QED
    BY <1>2, <2>1 DEF LeftInv
<1>7. ErrsInv(t, st, br)
  BY <1>1, <1>2 DEF ErrsInv
<1> QED
  BY <1>2, <1>3, <1>4, <1>5, <1>6, <1>7

\* A module is read and checked: only its own imports change.
CanPush(s, st, new, im, br, more, p) ==
  /\ s \in Seq(CallSet) /\ s # <<>> /\ s[Len(s)].left # <<>>
  /\ st \in Stmts /\ new \in Stmts /\ br \subseteq more
  /\ p \in Mods /\ p = Head(s[Len(s)].left) /\ p \notin ModsOf(s)
  /\ \A d \in Mods : ImportsIn(st, d) \subseteq ImportsIn(new, d)
  /\ \A d \in Mods : d # p => ImportsIn(new, d) = ImportsIn(st, d)
  /\ PathInv(s, st) /\ LeftInv(s, st, im) /\ ErrsInv(s, st, br)

Pushed(s, t, new, im, more, p) ==
  /\ t \in Seq(CallSet) /\ t # <<>> /\ ModsOf(t) = ModsOf(s) \cup {p}
  /\ PathInv(t, new) /\ LeftInv(t, new, im) /\ ErrsInv(t, new, more)

LEMMA PushKeeps ==
  ASSUME NEW s, NEW st, NEW new, NEW im, NEW br, NEW more, NEW p,
         CanPush(s, st, new, im, br, more, p), NEW t, t = Append(s, Call(p, new[p]))
  PROVE  Pushed(s, t, new, im, more, p)
<1>s. /\ s \in Seq(CallSet) /\ s # <<>> /\ s[Len(s)].left # <<>>
      /\ p \in Mods /\ p = Head(s[Len(s)].left) /\ p \notin ModsOf(s)
  BY DEF CanPush
<1>r. st \in Stmts /\ new \in Stmts /\ br \subseteq more
  BY DEF CanPush
<1>g. \A d \in Mods : ImportsIn(st, d) \subseteq ImportsIn(new, d)
  BY DEF CanPush
<1>e. \A d \in Mods : d # p => ImportsIn(new, d) = ImportsIn(st, d)
  BY DEF CanPush
<1>i. PathInv(s, st) /\ LeftInv(s, st, im) /\ ErrsInv(s, st, br)
  BY DEF CanPush
<1> DEFINE n == Len(s)
           c == Call(p, new[p])
<1>1. n \in Nat /\ n \in 1..n
  <2>1. n \in Nat /\ n # 0
    BY <1>s, StackType
  <2> QED
    BY <2>1
<1>2. \A i \in 1..n : s[i] \in CallSet /\ s[i].mod \in Mods /\ s[i].left \in Seq(Mods) /\ s[i].mod # p
  BY <1>s, StackType DEF ModsOf
<1>3. c \in CallSet /\ c.mod = p /\ c.left = new[p] /\ c.errs = FALSE
  BY <1>s, <1>r DEF Call, CallSet, Stmts
<1>4. t = Append(s, c)
  OBVIOUS
<1> HIDE DEF c
<1>5. /\ t \in Seq(CallSet) /\ t # <<>> /\ Len(t) = n + 1
      /\ \A i \in 1..n : t[i] = s[i]
      /\ t[n + 1] = c
  BY <1>s, <1>3, <1>4, AppendProperties
<1> HIDE DEF n
<1>6. 1..Len(t) = (1..n) \cup {n + 1}
  BY <1>1, <1>5
<1>7. \A i \in 1..Len(t) : (i \in 1..n /\ t[i] = s[i]) \/ (i = n + 1 /\ t[i] = c)
  BY <1>5, <1>6
<1>8. ModsOf(t) = ModsOf(s) \cup {p}
  BY <1>3, <1>5, <1>6 DEF ModsOf, n
<1>9. \A i \in 1..n : p \in ReachIn(new, s[i].mod)
  <2>1. p \in ImportsIn(new, s[n].mod)
    <3>1. s[n].left \in Seq(Mods) /\ s[n].left # <<>> /\ p = Head(s[n].left)
      BY <1>s, <1>1, <1>2 DEF n
    <3>2. Len(s[n].left) \in Nat /\ Len(s[n].left) # 0 /\ p = s[n].left[1]
      BY <3>1, LenProperties, EmptySeq
    <3>3. p \in ImportsIn(st, s[n].mod)
      BY <1>i, <1>1, <3>2 DEF LeftInv, n
    <3> QED
      BY <1>1, <1>2, <1>g, <3>3
  <2>2. ASSUME NEW i \in 1..n
        PROVE  p \in ReachIn(new, s[i].mod)
    <3>1. s[n].mod \in Mods /\ s[i].mod \in Mods
      BY <1>1, <1>2
    <3>2. CASE i = n
      BY <1>r, <2>1, <3>1, <3>2, ReachClosed
    <3>3. CASE i # n
      <4>1. i < n
        BY <1>1, <3>3
      <4>2. s[n].mod \in ReachIn(st, s[i].mod)
        BY <1>i, <1>1, <4>1 DEF PathInv, n
      <4>3. s[n].mod \in ReachIn(new, s[i].mod)
        BY <1>r, <1>g, <3>1, <4>2, ReachGrows
      <4> QED
        BY <1>r, <2>1, <3>1, <4>3, ReachClosed
    <3> QED
      BY <3>2, <3>3
  <2> QED
    BY <2>2
<1>10. PathInv(t, new)
  <2>1. t[1].mod = Root
    <3>1. 1 \in 1..n
      BY <1>1
    <3> QED
      BY <1>s, <1>i, <1>5, <3>1 DEF PathInv
  <2>2. ASSUME NEW i \in 1..Len(t), NEW j \in 1..Len(t), i < j
        PROVE  t[j].mod # t[i].mod /\ t[j].mod \in ReachIn(new, t[i].mod)
    <3>1. i \in 1..n /\ t[i] = s[i]
      BY <1>1, <1>5, <1>6, <2>2
    <3>2. CASE j = n + 1
      BY <1>2, <1>3, <1>5, <1>9, <3>1, <3>2
    <3>3. CASE j \in 1..n
      <4>1. s[j].mod # s[i].mod /\ s[j].mod \in ReachIn(st, s[i].mod)
        BY <1>i, <2>2, <3>1, <3>3 DEF PathInv, n
      <4>2. s[j].mod \in ReachIn(new, s[i].mod)
        BY <1>2, <1>r, <1>g, <3>1, <4>1, ReachGrows
      <4> QED
        BY <1>5, <3>1, <3>3, <4>1, <4>2
    <3> QED
      BY <1>6, <3>2, <3>3
  <2>3. ASSUME NEW i \in 1..Len(t), i < Len(t)
        PROVE  t[i].left # <<>> /\ Head(t[i].left) = t[i + 1].mod
    <3>1. i \in 1..n /\ t[i] = s[i]
      BY <1>1, <1>5, <1>6, <2>3
    <3>2. CASE i = n
      BY <1>s, <1>3, <1>5, <3>1, <3>2 DEF n
    <3>3. CASE i # n
      <4>1. i + 1 \in 1..n /\ i < n
        BY <1>1, <3>1, <3>3
      <4>2. s[i].left # <<>> /\ Head(s[i].left) = s[i + 1].mod
        BY <1>i, <3>1, <4>1 DEF PathInv, n
      <4> QED
        BY <1>5, <3>1, <4>1, <4>2
    <3> QED
      BY <3>2, <3>3
  <2> QED
    BY <2>1, <2>2, <2>3 DEF PathInv
<1>11. LeftInv(t, new, im)
  <2>1. ASSUME NEW i \in 1..n
        PROVE  /\ \A k \in 1..Len(s[i].left) : s[i].left[k] \in ImportsIn(new, s[i].mod)
               /\ \A d \in ImportsIn(new, s[i].mod) :
                    s[i].errs \/ im[d] = "defs" \/ \E k \in 1..Len(s[i].left) : s[i].left[k] = d
    <3>1. ImportsIn(new, s[i].mod) = ImportsIn(st, s[i].mod)
      BY <1>2, <1>e
    <3> QED
      BY <1>i, <3>1 DEF LeftInv, n
  <2>2. /\ \A k \in 1..Len(c.left) : c.left[k] \in ImportsIn(new, c.mod)
        /\ \A d \in ImportsIn(new, c.mod) : \E k \in 1..Len(c.left) : c.left[k] = d
    BY <1>3 DEF ImportsIn
  <2>3. ASSUME NEW i \in 1..Len(t)
        PROVE  /\ \A k \in 1..Len(t[i].left) : t[i].left[k] \in ImportsIn(new, t[i].mod)
               /\ \A d \in ImportsIn(new, t[i].mod) :
                    t[i].errs \/ im[d] = "defs" \/ \E k \in 1..Len(t[i].left) : t[i].left[k] = d
    <3>1. CASE i \in 1..n /\ t[i] = s[i]
      <4>1. /\ \A k \in 1..Len(s[i].left) : s[i].left[k] \in ImportsIn(new, s[i].mod)
            /\ \A d \in ImportsIn(new, s[i].mod) :
                 s[i].errs \/ im[d] = "defs" \/ \E k \in 1..Len(s[i].left) : s[i].left[k] = d
        BY <2>1, <3>1
      <4> QED
        BY <3>1, <4>1
    <3>2. CASE t[i] = c
      BY <2>2, <3>2, Zenon
    <3> QED
      BY <1>7, <3>1, <3>2, Zenon
  <2> QED
    BY <2>3 DEF LeftInv
<1>12. ErrsInv(t, new, more)
  <2>1. ASSUME NEW i \in 1..n, s[i].errs
        PROVE  Unsound(new, more, s[i].mod)
    <3>1. Unsound(st, br, s[i].mod)
      BY <1>i, <2>1 DEF ErrsInv, n
    <3> QED
      BY <1>2, <1>r, <1>g, <3>1, UnsoundStays
  <2> QED
    BY <1>3, <1>7, <2>1 DEF ErrsInv
<1> QED
  BY <1>5, <1>8, <1>10, <1>11, <1>12 DEF Pushed

-----------------------------------------------------------------------------
(* The inductive invariant *)

LEMMA StatementsType == Statements \subseteq Seq(Mods)
<1>1. MaxImports \in Nat
  BY RootAssumption
<1>2. ASSUME NEW n \in 0..MaxImports, NEW stmts \in [1..n -> Mods]
      PROVE  stmts \in Seq(Mods)
  <2>1. n \in Nat
    BY <1>1
  <2> QED
    BY <2>1, IsASeq
<1> QED
  BY <1>2 DEF Statements

\* Nothing is reached where nothing is read.
LEMMA InitInvariant ==
  ASSUME Init
  PROVE  IInv
<1>1. PICK stmts \in Statements :
        /\ statements = [m \in Mods |-> IF m = Root THEN stmts ELSE <<>>]
        /\ checks = <<Call(Root, stmts)>>
  BY DEF Init
<1>2. stmts \in Seq(Mods) /\ <<>> \in Seq(Mods) /\ Root \in Mods
  BY StatementsType, RootAssumption
<1> DEFINE c == Call(Root, stmts)
<1>3. c \in CallSet /\ c.mod = Root /\ c.left = stmts /\ c.errs = FALSE
  BY <1>2 DEF Call, CallSet
<1> HIDE DEF c
<1>4. checks \in Seq(CallSet) /\ Len(checks) = 1 /\ checks[1] = c /\ checks # <<>>
  BY <1>1, <1>3 DEF c
<1>5. statements[Root] = stmts
  BY <1>1, <1>2
<1>6. TypeInv
  <2>1. statements \in Stmts
    BY <1>1, <1>2 DEF Stmts
  <2>2. broken \in SUBSET Mods
    BY <1>2 DEF Init
  <2>3. imports \in Memo /\ result \in {"none", "ok", "failed"}
    BY DEF Init, Memo
  <2> QED
    BY <2>1, <2>2, <2>3, <1>4 DEF TypeInv
<1>7. PathInv(checks, statements)
  BY <1>3, <1>4 DEF PathInv
<1>8. LeftInv(checks, statements, imports)
  <2>1. /\ \A k \in 1..Len(c.left) : c.left[k] \in ImportsIn(statements, c.mod)
        /\ \A d \in ImportsIn(statements, c.mod) : \E k \in 1..Len(c.left) : c.left[k] = d
    BY <1>3, <1>5 DEF ImportsIn
  <2>2. \A i \in 1..Len(checks) : checks[i] = c
    BY <1>4
  <2> QED
    BY <2>1, <2>2 DEF LeftInv
<1>9. ErrsInv(checks, statements, broken)
  BY <1>3, <1>4 DEF ErrsInv
<1>10. MemoInv(checks, statements, broken, imports)
  <2>1. \A m \in Mods : imports[m] = "no" /\ (m # Root => statements[m] = <<>>)
    BY <1>1 DEF Init
  <2>2. ModsOf(checks) \subseteq Mods
    BY <1>4, StackType
  <2> QED
    BY <2>1, <2>2 DEF MemoInv
<1>11. ResultInv
  BY <1>4 DEF ResultInv, Init
<1> QED
  BY <1>6, <1>7, <1>8, <1>9, <1>10, <1>11 DEF IInv

\* The innermost call of Check, and the import it is at.
LEMMA TopFacts ==
  ASSUME IInv, checks # <<>>
  PROVE  /\ Len(checks) \in Nat /\ Len(checks) \in 1..Len(checks)
         /\ checks[Len(checks)] = Top /\ Top.mod \in Mods /\ Top.left \in Seq(Mods)
         /\ Paths = ModsOf(checks) /\ Root \in ModsOf(checks) /\ ModsOf(checks) \subseteq Mods
         /\ result = "none"
<1>1. checks \in Seq(CallSet)
  BY DEF IInv, TypeInv
<1>2. Root \in ModsOf(checks)
  <2>1. 1 \in 1..Len(checks) /\ checks[1].mod = Root
    BY <1>1, StackType DEF IInv, PathInv
  <2> QED
    BY <2>1 DEF ModsOf
<1>3. result = "none"
  BY DEF IInv, ResultInv
<1> QED
  BY <1>1, <1>2, <1>3, StackType DEF Top, Paths, ModsOf

LEMMA ImportingFacts ==
  ASSUME IInv, Importing
  PROVE  /\ checks # <<>> /\ checks[Len(checks)].left # <<>>
         /\ path = Head(checks[Len(checks)].left)
         /\ path \in Mods /\ path \in ImportsIn(statements, Top.mod)
<1>1. checks # <<>> /\ Top.left # <<>>
  BY DEF Importing
<1>2. Top.left \in Seq(Mods) /\ Len(checks) \in 1..Len(checks) /\ checks[Len(checks)] = Top
  BY <1>1, TopFacts
<1>3. Len(Top.left) \in Nat /\ Len(Top.left) # 0 /\ Head(Top.left) = Top.left[1] /\ Head(Top.left) \in Mods
  BY <1>1, <1>2, LenProperties, EmptySeq, HeadTailProperties
<1>4. Top.left[1] \in ImportsIn(statements, Top.mod)
  BY <1>2, <1>3 DEF IInv, LeftInv
<1> QED
  BY <1>1, <1>2, <1>3, <1>4 DEF path

\* An import is done, and all the rest is as it was.
LEMMA ImportedInvariant ==
  ASSUME IInv, Importing, NEW err \in BOOLEAN, Imported(checks, err),
         UNCHANGED <<statements, broken, imports, result>>,
         err => Unsound(statements, broken, Top.mod),
         ~err => imports[path] = "defs"
  PROVE  IInv'
<1>1. /\ checks # <<>> /\ checks[Len(checks)].left # <<>> /\ checks[Len(checks)] = Top
      /\ path = Head(checks[Len(checks)].left) /\ result = "none"
  BY ImportingFacts, TopFacts
<1>2. checks' = Advanced(checks, err)
  BY DEF Imported, Advanced
<1>3. checks \in Seq(CallSet) /\ statements \in Stmts
  BY DEF IInv, TypeInv
<1>4. /\ PathInv(checks, statements) /\ LeftInv(checks, statements, imports)
      /\ ErrsInv(checks, statements, broken)
  BY DEF IInv
<1>5. /\ checks' \in Seq(CallSet) /\ checks' # <<>> /\ ModsOf(checks') = ModsOf(checks)
      /\ PathInv(checks', statements) /\ LeftInv(checks', statements, imports)
      /\ ErrsInv(checks', statements, broken)
  <2>1. CanAdvance(checks, err, statements, imports, imports, broken, broken)
    BY <1>1, <1>3, <1>4 DEF CanAdvance
  <2> QED
    BY <1>2, <2>1, AdvanceKeeps, Zenon
<1>6. MemoInv(checks', statements, broken, imports)
  BY <1>5 DEF IInv, MemoInv
<1>7. TypeInv' /\ ResultInv'
  BY <1>1, <1>5 DEF IInv, TypeInv, ResultInv
<1> QED
  BY <1>5, <1>6, <1>7 DEF IInv

LEMMA ImportCycleInvariant ==
  ASSUME IInv, ImportCycle
  PROVE  IInv'
<1>1. /\ Importing /\ path \in Paths /\ Imported(checks, TRUE)
      /\ UNCHANGED <<statements, broken, imports, result>>
  BY DEF ImportCycle
<1>2. /\ path \in Mods /\ path \in ImportsIn(statements, Top.mod) /\ statements \in Stmts
      /\ Top.mod \in Mods /\ Len(checks) \in 1..Len(checks) /\ checks[Len(checks)] = Top
      /\ Len(checks) \in Nat
  BY <1>1, ImportingFacts, TopFacts DEF IInv, TypeInv
<1>3. PICK i \in 1..Len(checks) : path = checks[i].mod
  BY <1>1 DEF Paths
<1>4. path \in ReachIn(statements, Top.mod)
  BY <1>2, ReachClosed
<1>5. path \in ReachIn(statements, path)
  <2>1. CASE i = Len(checks)
    BY <2>1, <1>2, <1>3, <1>4
  <2>2. CASE i # Len(checks)
    <3>1. Top.mod \in ReachIn(statements, path)
      BY <2>2, <1>2, <1>3 DEF IInv, PathInv
    <3> QED
      BY <3>1, <1>2, ReachClosed
  <2> QED
    BY <2>1, <2>2
<1>6. Unsound(statements, broken, Top.mod)
  BY <1>4, <1>5 DEF Unsound
<1> QED
  BY <1>1, <1>6, ImportedInvariant

LEMMA ImportAgainInvariant ==
  ASSUME IInv, ImportAgain
  PROVE  IInv'
<1>1. /\ Importing /\ imports[path] # "no" /\ Imported(checks, NilNoticed)
      /\ UNCHANGED <<statements, broken, imports, result>>
  BY DEF ImportAgain
<1>2. /\ path \in Mods /\ path \in ImportsIn(statements, Top.mod) /\ statements \in Stmts
      /\ Top.mod \in Mods /\ imports \in Memo
  BY <1>1, ImportingFacts, TopFacts DEF IInv, TypeInv
<1>3. ASSUME NilNoticed
      PROVE  Unsound(statements, broken, Top.mod)
  <2>1. Unsound(statements, broken, path)
    BY <1>2, <1>3 DEF NilNoticed, IInv, MemoInv
  <2> QED
    BY <2>1, <1>2, UnsoundSpreads
<1>4. ~NilNoticed => imports[path] = "defs"
  BY <1>1, <1>2 DEF NilNoticed, Memo
<1>5. NilNoticed \in BOOLEAN
  BY DEF NilNoticed
<1> QED
  BY <1>1, <1>3, <1>4, <1>5, ImportedInvariant

\* A module that cannot be read is broken, and remembered without definitions.
LEMMA LoadFailsInvariant ==
  ASSUME IInv, LoadFails
  PROVE  IInv'
<1>1. /\ Importing /\ path \notin Paths /\ imports[path] = "no" /\ Imported(checks, TRUE)
      /\ broken' = broken \cup {path} /\ imports' = [imports EXCEPT ![path] = "nil"]
      /\ UNCHANGED <<statements, result>>
  BY DEF LoadFails
<1>2. /\ checks # <<>> /\ checks[Len(checks)].left # <<>> /\ checks[Len(checks)] = Top
      /\ path \in Mods /\ path \in ImportsIn(statements, Top.mod)
      /\ Top.mod \in Mods /\ path \notin ModsOf(checks) /\ result = "none"
  BY <1>1, ImportingFacts, TopFacts
<1>3. checks \in Seq(CallSet) /\ statements \in Stmts /\ imports \in Memo /\ broken \in SUBSET Mods
  BY DEF IInv, TypeInv
<1>4. /\ imports' \in Memo /\ imports'[path] = "nil"
      /\ \A m \in Mods : m # path => imports'[m] = imports[m]
  BY <1>1, <1>2, <1>3 DEF Memo
<1>5. Unsound(statements, broken', path)
  BY <1>1 DEF Unsound
<1>6. Unsound(statements, broken', Top.mod)
  BY <1>2, <1>3, <1>5, UnsoundSpreads
<1>7. /\ checks' \in Seq(CallSet) /\ checks' # <<>> /\ ModsOf(checks') = ModsOf(checks)
      /\ PathInv(checks', statements) /\ LeftInv(checks', statements, imports')
      /\ ErrsInv(checks', statements, broken')
  <2>1. \A m \in Mods : imports[m] = "defs" => imports'[m] = "defs"
    BY <1>1, <1>4
  <2>2. CanAdvance(checks, TRUE, statements, imports, imports', broken, broken')
    BY <1>1, <1>2, <1>3, <1>6, <2>1 DEF CanAdvance, IInv
  <2>3. checks' = Advanced(checks, TRUE)
    BY <1>1 DEF Imported, Advanced
  <2>4. TRUE \in BOOLEAN
    OBVIOUS
  <2> QED
    BY <2>2, <2>3, <2>4, AdvanceKeeps, Zenon
<1>8. MemoInv(checks', statements, broken', imports')
  <2>1. \A m \in ModsOf(checks) : m \in Mods /\ imports'[m] = "no"
    BY <1>2, <1>4, TopFacts DEF IInv, MemoInv
  <2>2. \A m \in Mods \ ModsOf(checks) : imports'[m] = "no" /\ m # Root => statements[m] = <<>>
    BY <1>4 DEF IInv, MemoInv
  <2>3. ASSUME NEW m \in Mods, imports'[m] = "defs"
        PROVE  m \notin broken' /\ m \notin ReachIn(statements, m)
               /\ \A d \in ImportsIn(statements, m) : imports'[d] = "defs"
    <3>1. m # path /\ imports[m] = "defs"
      BY <1>4, <2>3
    <3>2. m \notin broken /\ m \notin ReachIn(statements, m) /\ \A d \in ImportsIn(statements, m) : imports[d] = "defs"
      BY <3>1 DEF IInv, MemoInv
    <3>3. ImportsIn(statements, m) \subseteq Mods
      BY <1>3, ImportsType
    <3> QED
      BY <1>1, <1>4, <3>1, <3>2, <3>3
  <2>4. ASSUME NEW m \in Mods, imports'[m] = "nil"
        PROVE  Unsound(statements, broken', m)
    <3>1. CASE m = path
      BY <3>1, <1>5
    <3>2. CASE m # path
      <4>1. Unsound(statements, broken, m)
        BY <1>4, <2>4, <3>2 DEF IInv, MemoInv
      <4> QED
        BY <4>1, <1>1, <1>3, UnsoundStays
    <3> QED
      BY <3>1, <3>2
  <2> QED
    BY <1>7, <2>1, <2>2, <2>3, <2>4 DEF MemoInv
<1>9. TypeInv' /\ ResultInv'
  BY <1>1, <1>2, <1>3, <1>4, <1>7 DEF TypeInv, ResultInv
<1> QED
  BY <1>1, <1>7, <1>8, <1>9 DEF IInv

\* A module is read for the first time: nothing was known of its imports.
LEMMA LoadInvariant ==
  ASSUME IInv, NEW stmts \in Statements, NEW errs \in BOOLEAN, Load(stmts, errs)
  PROVE  IInv'
<1>1. /\ Importing /\ path \notin Paths /\ imports[path] = "no"
      /\ statements' = [statements EXCEPT ![path] = stmts]
      /\ broken' = IF errs THEN broken \cup {path} ELSE broken
      /\ checks' = Append(checks, Call(path, stmts))
      /\ UNCHANGED <<imports, result>>
  BY DEF Load
<1>2. /\ checks # <<>> /\ checks[Len(checks)].left # <<>> /\ path = Head(checks[Len(checks)].left)
      /\ path \in Mods /\ path \notin ModsOf(checks) /\ Root \in ModsOf(checks)
      /\ ModsOf(checks) \subseteq Mods /\ result = "none"
  BY <1>1, ImportingFacts, TopFacts
<1>3. checks \in Seq(CallSet) /\ statements \in Stmts /\ imports \in Memo /\ broken \in SUBSET Mods
  BY DEF IInv, TypeInv
<1>4. stmts \in Seq(Mods)
  BY StatementsType
<1>5. /\ statements' \in Stmts /\ statements'[path] = stmts
      /\ \A d \in Mods : d # path => statements'[d] = statements[d]
  BY <1>1, <1>2, <1>3, <1>4 DEF Stmts
<1>6. broken \subseteq broken' /\ broken' \subseteq broken \cup {path}
  BY <1>1
<1>7. /\ ImportsIn(statements, path) = {}
      /\ \A d \in Mods : d # path => ImportsIn(statements', d) = ImportsIn(statements, d)
      /\ \A d \in Mods : ImportsIn(statements, d) \subseteq ImportsIn(statements', d)
  <2>1. statements[path] = <<>>
    BY <1>1, <1>2 DEF IInv, MemoInv
  <2>2. ImportsIn(statements, path) = {}
    BY <2>1 DEF ImportsIn
  <2>3. \A d \in Mods : d # path => ImportsIn(statements', d) = ImportsIn(statements, d)
    BY <1>5 DEF ImportsIn
  <2> QED
    BY <2>2, <2>3
<1>8. /\ checks' \in Seq(CallSet) /\ checks' # <<>> /\ ModsOf(checks') = ModsOf(checks) \cup {path}
      /\ PathInv(checks', statements') /\ LeftInv(checks', statements', imports)
      /\ ErrsInv(checks', statements', broken')
  <2>1. PathInv(checks, statements) /\ LeftInv(checks, statements, imports) /\ ErrsInv(checks, statements, broken)
    BY DEF IInv
  <2>2. checks' = Append(checks, Call(path, statements'[path]))
    BY <1>1, <1>5
  <2>3. CanPush(checks, statements, statements', imports, broken, broken', path)
    BY <1>2, <1>3, <1>5, <1>6, <1>7, <2>1 DEF CanPush
  <2>4. Pushed(checks, checks', statements', imports, broken', path)
    BY <2>2, <2>3, PushKeeps, Zenon
  <2> QED
    BY <2>4 DEF Pushed
<1>9. MemoInv(checks', statements', broken', imports)
  <2>1. \A m \in ModsOf(checks') : m \in Mods /\ imports[m] = "no"
    BY <1>1, <1>2, <1>8 DEF IInv, MemoInv
  <2>2. \A m \in Mods \ ModsOf(checks') : imports[m] = "no" /\ m # Root => statements'[m] = <<>>
    BY <1>5, <1>8 DEF IInv, MemoInv
  <2>3. ASSUME NEW m \in Mods, imports[m] = "defs"
        PROVE  m \notin broken' /\ m \notin ReachIn(statements', m)
               /\ \A d \in ImportsIn(statements', m) : imports[d] = "defs"
    <3> DEFINE D == {d \in Mods : imports[d] = "defs"}
    <3>1. \A d \in D : ImportsIn(statements, d) \subseteq D
      BY <1>3, ImportsType DEF IInv, MemoInv
    <3>2. \A d \in D : ImportsIn(statements', d) = ImportsIn(statements, d)
      BY <1>1, <1>7
    <3>3. m \in D /\ m # path /\ D \in SUBSET Mods
      BY <1>1, <2>3
    <3>4. m \notin broken /\ m \notin ReachIn(statements, m)
      BY <2>3 DEF IInv, MemoInv
    <3> HIDE DEF D
    <3>5. m \notin ReachIn(statements', m)
      BY <1>3, <1>5, <3>1, <3>2, <3>3, <3>4, ClosedKeepsReach
    <3>6. \A d \in ImportsIn(statements', m) : imports[d] = "defs"
      BY <3>1, <3>2, <3>3 DEF D
    <3> QED
      BY <1>6, <3>3, <3>4, <3>5, <3>6
  <2>4. ASSUME NEW m \in Mods, imports[m] = "nil"
        PROVE  Unsound(statements', broken', m)
    <3>1. Unsound(statements, broken, m)
      BY <2>4 DEF IInv, MemoInv
    <3> QED
      BY <3>1, <1>3, <1>5, <1>6, <1>7, UnsoundStays
  <2> QED
    BY <2>1, <2>2, <2>3, <2>4 DEF MemoInv
<1>10. TypeInv' /\ ResultInv'
  BY <1>1, <1>2, <1>3, <1>5, <1>6, <1>8 DEF TypeInv, ResultInv
<1> QED
  BY <1>1, <1>8, <1>9, <1>10 DEF IInv

\* A call with nothing left to import fails if and only if its module is unsound.
LEMMA FailsIffUnsound ==
  ASSUME IInv, checks # <<>>, Top.left = <<>>
  PROVE  /\ Fails => Unsound(statements, broken, Top.mod)
         /\ ~Fails => /\ ~Unsound(statements, broken, Top.mod)
                      /\ \A d \in ImportsIn(statements, Top.mod) : imports[d] = "defs"
<1>1. /\ Len(checks) \in 1..Len(checks) /\ checks[Len(checks)] = Top /\ Top.mod \in Mods
      /\ Top.mod \in ModsOf(checks) /\ statements \in Stmts
  BY TopFacts DEF ModsOf, IInv, TypeInv
<1>2. ASSUME Fails
      PROVE  Unsound(statements, broken, Top.mod)
  <2>1. CASE Top.errs
    BY <2>1, <1>1 DEF IInv, ErrsInv
  <2>2. CASE Top.mod \in broken
    BY <2>2 DEF Unsound
  <2> QED
    BY <1>2, <2>1, <2>2 DEF Fails
<1>3. ASSUME ~Fails
      PROVE  /\ ~Unsound(statements, broken, Top.mod)
             /\ \A d \in ImportsIn(statements, Top.mod) : imports[d] = "defs"
  <2> DEFINE D == {d \in Mods : imports[d] = "defs"}
  <2>1. ~Top.errs /\ Top.mod \notin broken
    BY <1>3 DEF Fails
  <2>2. \A d \in ImportsIn(statements, Top.mod) : imports[d] = "defs"
    <3>1. \A d \in ImportsIn(statements, Top.mod) :
            Top.errs \/ imports[d] = "defs" \/ \E k \in 1..Len(Top.left) : Top.left[k] = d
      BY <1>1 DEF IInv, LeftInv
    <3>2. 1..Len(Top.left) = {}
      <4>1. Len(Top.left) = 0
        OBVIOUS
      <4> QED
        BY <4>1
    <3> QED
      BY <2>1, <3>1, <3>2
  <2>3. \A d \in D : d \in Mods /\ ImportsIn(statements, d) \subseteq D
    BY <1>1, ImportsType DEF IInv, MemoInv
  <2>4. D \in SUBSET Mods /\ ImportsIn(statements, Top.mod) \subseteq D
    BY <1>1, <2>2, ImportsType
  <2>5. Top.mod \notin D
    BY <1>1 DEF IInv, MemoInv
  <2>6. \A d \in D : d \notin broken /\ d \notin ReachIn(statements, d)
    BY DEF IInv, MemoInv
  <2> HIDE DEF D
  <2>7. ReachIn(statements, Top.mod) \subseteq D
    BY <1>1, <2>3, <2>4, ReachLeast
  <2>8. ~Unsound(statements, broken, Top.mod)
    BY <2>1, <2>5, <2>6, <2>7 DEF Unsound
  <2> QED
    BY <2>2, <2>8
<1> QED
  BY <1>2, <1>3

\* What is remembered of an imported module is what it deserves.
LEMMA ImportDoneInvariant ==
  ASSUME IInv, ImportDone
  PROVE  IInv'
<1> DEFINE t == SubSeq(checks, 1, Len(checks) - 1)
           done == Top.mod
<1>1. /\ Len(checks) > 1 /\ Top.left = <<>>
      /\ imports' = [imports EXCEPT ![done] = IF Fails THEN "nil" ELSE "defs"]
      /\ Imported(t, Fails)
      /\ UNCHANGED <<statements, broken, result>>
  BY DEF ImportDone
<1>2. checks \in Seq(CallSet) /\ statements \in Stmts /\ imports \in Memo /\ broken \in SUBSET Mods
  BY DEF IInv, TypeInv
<1>3. checks # <<>>
  BY <1>1, <1>2, StackType
<1>4. /\ Len(checks) \in Nat /\ Len(checks) \in 1..Len(checks) /\ checks[Len(checks)] = Top
      /\ done \in Mods /\ done \in ModsOf(checks) /\ ModsOf(checks) \subseteq Mods
      /\ Root \in ModsOf(checks) /\ result = "none"
  BY <1>3, TopFacts DEF ModsOf
<1>5. /\ t \in Seq(CallSet) /\ Len(t) = Len(checks) - 1 /\ t # <<>>
      /\ \A i \in 1..Len(t) : t[i] = checks[i]
      /\ t[Len(t)].left # <<>> /\ Head(t[Len(t)].left) = checks[Len(checks)].mod
      /\ PathInv(t, statements) /\ LeftInv(t, statements, imports) /\ ErrsInv(t, statements, broken)
  <2>1. PathInv(checks, statements) /\ LeftInv(checks, statements, imports) /\ ErrsInv(checks, statements, broken)
    BY DEF IInv
  <2> QED
    BY <1>1, <1>2, <2>1, PopKeeps
<1> HIDE DEF t
<1>6. ModsOf(checks) = ModsOf(t) \cup {done} /\ done \notin ModsOf(t)
  <2>1. 1..Len(checks) = (1..Len(t)) \cup {Len(checks)}
    BY <1>1, <1>4, <1>5
  <2>2. \A i \in 1..Len(t) : checks[i].mod # done
    BY <1>4, <1>5 DEF IInv, PathInv
  <2>3. ModsOf(t) = {checks[i].mod : i \in 1..Len(t)}
    BY <1>5 DEF ModsOf
  <2>4. ModsOf(checks) = {checks[i].mod : i \in 1..Len(t)} \cup {checks[Len(checks)].mod}
    BY <2>1 DEF ModsOf
  <2> QED
    BY <1>4, <2>2, <2>3, <2>4
<1>7. /\ imports' \in Memo /\ imports'[done] = IF Fails THEN "nil" ELSE "defs"
      /\ \A m \in Mods : m # done => imports'[m] = imports[m]
  BY <1>1, <1>2, <1>4 DEF Memo
<1>8. imports[done] = "no"
  BY <1>4 DEF IInv, MemoInv
<1>9. /\ Fails => Unsound(statements, broken, done)
      /\ ~Fails => /\ ~Unsound(statements, broken, done)
                   /\ \A d \in ImportsIn(statements, done) : imports[d] = "defs"
  BY <1>1, <1>3, FailsIffUnsound
<1>10. Fails \in BOOLEAN
  <2>1. Top.errs \in BOOLEAN
    BY <1>2, <1>4, StackType
  <2> QED
    BY <2>1 DEF Fails
<1>11. /\ checks' \in Seq(CallSet) /\ checks' # <<>> /\ ModsOf(checks') = ModsOf(t)
       /\ PathInv(checks', statements) /\ LeftInv(checks', statements, imports')
       /\ ErrsInv(checks', statements, broken)
  <2>1. \A m \in Mods : imports[m] = "defs" => imports'[m] = "defs"
    BY <1>7, <1>8
  <2>2. Fails => Unsound(statements, broken, t[Len(t)].mod)
    <3>1. Len(t) \in 1..Len(t) /\ t[Len(t)].mod \in Mods /\ t[Len(t)].left \in Seq(Mods)
      BY <1>5, StackType
    <3>2. /\ Len(t[Len(t)].left) \in Nat /\ Len(t[Len(t)].left) # 0
          /\ Head(t[Len(t)].left) = t[Len(t)].left[1]
      BY <1>5, <3>1, LenProperties, EmptySeq
    <3>3. t[Len(t)].left[1] \in ImportsIn(statements, t[Len(t)].mod)
      BY <1>5, <3>1, <3>2 DEF LeftInv
    <3>4. done \in ImportsIn(statements, t[Len(t)].mod)
      BY <1>4, <1>5, <3>2, <3>3
    <3> QED
      BY <1>2, <1>9, <3>1, <3>4, UnsoundSpreads
  <2>3. ~Fails => imports'[Head(t[Len(t)].left)] = "defs"
    BY <1>4, <1>5, <1>7
  <2>4. CanAdvance(t, Fails, statements, imports, imports', broken, broken)
    BY <1>2, <1>5, <2>1, <2>2, <2>3 DEF CanAdvance
  <2>5. checks' = Advanced(t, Fails)
    BY <1>1 DEF Imported, Advanced
  <2> QED
    BY <1>10, <2>4, <2>5, AdvanceKeeps, Zenon
<1>12. MemoInv(checks', statements, broken, imports')
  <2>1. \A m \in ModsOf(t) : imports'[m] = "no"
    BY <1>4, <1>6, <1>7 DEF IInv, MemoInv
  <2>2. \A m \in Mods \ ModsOf(t) : imports'[m] = "no" /\ m # Root => statements[m] = <<>>
    <3>1. imports'[done] # "no"
      BY <1>7
    <3> QED
      BY <1>6, <1>7, <3>1 DEF IInv, MemoInv
  <2>3. ASSUME NEW m \in Mods, imports'[m] = "defs"
        PROVE  m \notin broken /\ m \notin ReachIn(statements, m)
               /\ \A d \in ImportsIn(statements, m) : imports'[d] = "defs"
    <3>1. /\ m \notin broken /\ m \notin ReachIn(statements, m)
          /\ \A d \in ImportsIn(statements, m) : imports[d] = "defs"
      <4>1. CASE m = done
        <5>1. ~Fails
          BY <4>1, <2>3, <1>7
        <5> QED
          BY <4>1, <5>1, <1>9 DEF Unsound
      <4>2. CASE m # done
        BY <4>2, <2>3, <1>7 DEF IInv, MemoInv
      <4> QED
        BY <4>1, <4>2
    <3>2. ImportsIn(statements, m) \subseteq Mods
      BY <1>2, ImportsType
    <3> QED
      BY <1>7, <1>8, <3>1, <3>2
  <2>4. ASSUME NEW m \in Mods, imports'[m] = "nil"
        PROVE  Unsound(statements, broken, m)
    <3>1. CASE m = done
      <4>1. Fails
        BY <3>1, <2>4, <1>7
      <4> QED
        BY <3>1, <4>1, <1>9
    <3>2. CASE m # done
      BY <3>2, <2>4, <1>7 DEF IInv, MemoInv
    <3> QED
      BY <3>1, <3>2
  <2> QED
    BY <1>11, <2>1, <2>2, <2>3, <2>4 DEF MemoInv
<1>13. TypeInv' /\ ResultInv'
  BY <1>1, <1>2, <1>4, <1>7, <1>11 DEF TypeInv, ResultInv
<1> QED
  BY <1>1, <1>11, <1>12, <1>13 DEF IInv

\* The outermost call returns what the root deserves.
LEMMA CheckDoneInvariant ==
  ASSUME IInv, CheckDone
  PROVE  IInv'
<1>1. /\ Len(checks) = 1 /\ Top.left = <<>> /\ checks' = <<>>
      /\ result' = IF Fails THEN "failed" ELSE "ok"
      /\ UNCHANGED <<statements, broken, imports>>
  BY DEF CheckDone
<1>2. checks \in Seq(CallSet)
  BY DEF IInv, TypeInv
<1>3. checks # <<>>
  <2>1. Len(checks) # 0
    BY <1>1
  <2> QED
    BY <1>2, <2>1, StackType
<1>4. Top.mod = Root /\ ModsOf(checks) = {Root}
  <2>1. checks[1].mod = Root /\ Top = checks[1]
    BY <1>1, <1>3 DEF IInv, PathInv, Top
  <2>2. 1..Len(checks) = {1}
    BY <1>1
  <2> QED
    BY <2>1, <2>2 DEF ModsOf
<1>5. /\ Fails => Unsound(statements, broken, Root)
      /\ ~Fails => ~Unsound(statements, broken, Root)
  BY <1>1, <1>3, <1>4, FailsIffUnsound
<1>6. Len(checks') = 0 /\ checks' \in Seq(CallSet)
  BY <1>1
<1>7. 1..Len(checks') = {}
  BY <1>6
<1>8. /\ PathInv(checks', statements) /\ LeftInv(checks', statements, imports)
      /\ ErrsInv(checks', statements, broken)
  BY <1>1, <1>7 DEF PathInv, LeftInv, ErrsInv
<1>9. MemoInv(checks', statements, broken, imports)
  <2>1. ModsOf(checks') = {}
    BY <1>7 DEF ModsOf
  <2> QED
    BY <1>4, <2>1 DEF IInv, MemoInv
<1>10. TypeInv' /\ ResultInv'
  BY <1>1, <1>5, <1>6 DEF IInv, TypeInv, ResultInv
<1> QED
  BY <1>1, <1>8, <1>9, <1>10 DEF IInv

LEMMA StutterInvariant ==
  ASSUME IInv, UNCHANGED vars
  PROVE  IInv'
  BY DEF IInv, TypeInv, ResultInv, vars

\* The invariant holds whatever imports what.
LEMMA InvariantCorrect == Spec => []IInv
<1>1. Init => IInv
  BY InitInvariant
<1>2. ASSUME IInv, [Next]_vars
      PROVE  IInv'
  <2>1. CASE ImportCycle
    BY <1>2, <2>1, ImportCycleInvariant
  <2>2. CASE ImportAgain
    BY <1>2, <2>2, ImportAgainInvariant
  <2>3. CASE LoadFails
    BY <1>2, <2>3, LoadFailsInvariant
  <2>4. CASE \E stmts \in Statements, errs \in BOOLEAN : Load(stmts, errs)
    BY <1>2, <2>4, LoadInvariant
  <2>5. CASE ImportDone
    BY <1>2, <2>5, ImportDoneInvariant
  <2>6. CASE CheckDone
    BY <1>2, <2>6, CheckDoneInvariant
  <2>7. CASE UNCHANGED vars
    BY <1>2, <2>7, StutterInvariant
  <2> QED
    BY <1>2, <2>1, <2>2, <2>3, <2>4, <2>5, <2>6, <2>7 DEF Next, Returned
<1> QED
  BY <1>1, <1>2, PTL DEF Spec

-----------------------------------------------------------------------------
(* The theorems *)

\* The outermost Check (types/check.go, check, with the importer of types/import.go)
\* accepts a module if and only if nothing that it reaches by imports has errors or
\* is on an import cycle, and what is remembered with definitions imports only such.
THEOREM AcceptsSoundCorrect == Spec => []AcceptsSound
<1>1. ASSUME IInv
      PROVE  AcceptsSound
  <2>1. ASSUME NEW m
        PROVE  Imports(m) = ImportsIn(statements, m)
    BY DEF Imports, ImportsIn
  <2>2. ASSUME NEW m
        PROVE  Reached(m) = ReachIn(statements, m)
    BY <2>1 DEF Reached, ReachIn
  <2>3. Sound <=> ~Unsound(statements, broken, Root)
    BY <2>2 DEF Sound, Unsound
  <2>4. result # "none" => (result = "ok" <=> Sound)
    BY <1>1, <2>3 DEF IInv, TypeInv, ResultInv
  <2>5. \A m \in Mods : imports[m] = "defs" => \A d \in Imports(m) : imports[d] = "defs"
    BY <1>1, <2>1 DEF IInv, MemoInv
  <2> QED
    BY <2>4, <2>5 DEF AcceptsSound
<1> QED
  BY <1>1, InvariantCorrect, PTL

-----------------------------------------------------------------------------
(* Check ends *)

BoundInv == \A i \in 1..Len(checks) : Len(checks[i].left) <= MaxImports

\* The turns that the calls on stack s have left, with those of the modules in U.
Turns(s, U) ==
  {e \in Mods \X (1..MaxImports + 1) :
     e[1] \in U \/ \E i \in 1..Len(s) : s[i].mod = e[1] /\ e[2] <= Len(s[i].left) + 1}

\* The turn of the innermost call.
Turn(s) == <<s[Len(s)].mod, Len(s[Len(s)].left) + 1>>

LEMMA AdvanceShrinks ==
  ASSUME NEW s \in Seq(CallSet), s # <<>>, s[Len(s)].left # <<>>, NEW err \in BOOLEAN,
         NEW t, t = Advanced(s, err),
         \A i \in 1..Len(s) : Len(s[i].left) <= MaxImports,
         \A i, j \in 1..Len(s) : i < j => s[j].mod # s[i].mod,
         NEW U, NEW V, V \subseteq U, ModsOf(s) \cap V = {}
  PROVE  /\ Turns(t, V) \subseteq Turns(s, U)
         /\ Turn(s) \in Turns(s, U) \ Turns(t, V)
         /\ \A i \in 1..Len(t) : Len(t[i].left) <= MaxImports
         /\ ModsOf(t) = ModsOf(s)
<1> DEFINE n == Len(s)
           top == s[n].left
<1>1. /\ n \in 1..Len(s) /\ n \in Nat /\ MaxImports \in Nat /\ s[n].mod \in Mods
      /\ \A i \in 1..n : s[i].mod \in Mods /\ Len(s[i].left) \in Nat
  BY StackType, RootAssumption, LenProperties
<1>2. /\ t \in Seq(CallSet) /\ Len(t) = n
      /\ \A i \in 1..n : t[i].mod = s[i].mod
      /\ \A i \in 1..n : i # n => t[i] = s[i]
      /\ t[n].left = Tail(top)
  BY AdvanceTop
<1>3. Len(top) \in 1..MaxImports /\ Len(t[n].left) = Len(top) - 1
  <2>1. top \in Seq(Mods) /\ top # <<>>
    BY <1>1, StackType
  <2>2. Len(Tail(top)) = Len(top) - 1 /\ Len(top) \in Nat /\ Len(top) # 0
    BY <2>1, HeadTailProperties, EmptySeq, LenProperties
  <2> QED
    BY <1>1, <1>2, <2>2
<1>4. ASSUME NEW i \in 1..n
      PROVE  Len(t[i].left) <= Len(s[i].left) /\ Len(t[i].left) \in Nat
  <2>1. Len(s[i].left) \in Nat
    BY <1>1
  <2>2. CASE i = n
    BY <1>1, <1>3, <2>2
  <2>3. CASE i # n
    BY <1>2, <2>1, <2>3
  <2> QED
    BY <2>2, <2>3
<1>5. ModsOf(t) = ModsOf(s)
  BY <1>2 DEF ModsOf
<1>6. ASSUME NEW e \in Turns(t, V) PROVE e \in Turns(s, U)
  <2>1. e \in Mods \X (1..MaxImports + 1) /\ e[2] \in Nat
    BY <1>1 DEF Turns
  <2>2. CASE e[1] \in V
    BY <2>1, <2>2 DEF Turns
  <2>3. CASE \E i \in 1..Len(t) : t[i].mod = e[1] /\ e[2] <= Len(t[i].left) + 1
    <3>1. PICK i \in 1..n : t[i].mod = e[1] /\ e[2] <= Len(t[i].left) + 1
      BY <1>2, <2>3
    <3>2. s[i].mod = e[1] /\ e[2] <= Len(s[i].left) + 1
      BY <1>1, <1>2, <1>4, <2>1, <3>1
    <3> QED
      BY <2>1, <3>2 DEF Turns
  <2> QED
    BY <2>2, <2>3 DEF Turns
<1>7. Turn(s) \in Turns(s, U)
  <2>1. Len(top) + 1 \in 1..MaxImports + 1
    BY <1>1, <1>3
  <2> QED
    BY <1>1, <2>1 DEF Turns, Turn
<1>8. Turn(s) \notin Turns(t, V)
  <2>1. s[n].mod \notin V
    BY <1>1 DEF ModsOf
  <2>2. ASSUME NEW i \in 1..n, t[i].mod = s[n].mod, Len(top) + 1 <= Len(t[i].left) + 1
        PROVE  FALSE
    <3>1. i = n
      BY <1>1, <1>2, <2>2
    <3> QED
      BY <1>3, <2>2, <3>1
  <2> QED
    BY <1>2, <2>1, <2>2 DEF Turns, Turn
<1>9. \A i \in 1..Len(t) : Len(t[i].left) <= MaxImports
  BY <1>1, <1>2, <1>4
<1> QED
  BY <1>5, <1>6, <1>7, <1>8, <1>9

\* What the provers need of WorkLeft: its parts, now and next.
LEMMA WorkParts ==
  ASSUME Unread' \subseteq Unread, Turns(checks, Unread)' \subseteq Turns(checks, Unread),
         Unread' # Unread \/ Turns(checks, Unread)' # Turns(checks, Unread)
  PROVE  /\ \A kind \in DOMAIN WorkLeft : WorkLeft'[kind] \subseteq WorkLeft[kind]
         /\ WorkLeft' # WorkLeft
<1>1. /\ WorkLeft.read = Unread /\ WorkLeft.turns = Turns(checks, Unread)
      /\ DOMAIN WorkLeft = {"read", "turns"}
  BY DEF WorkLeft, Turns
<1>2. WorkLeft'.read = Unread' /\ WorkLeft'.turns = Turns(checks, Unread)'
  BY DEF WorkLeft, Turns
<1>3. WorkLeft' # WorkLeft
  BY <1>1, <1>2
<1>4. ASSUME NEW kind \in DOMAIN WorkLeft PROVE WorkLeft'[kind] \subseteq WorkLeft[kind]
  BY <1>1, <1>2
<1> QED
  BY <1>3, <1>4

WInv == IInv /\ BoundInv

LEMMA StatementsBound ==
  ASSUME NEW stmts \in Statements
  PROVE  stmts \in Seq(Mods) /\ Len(stmts) \in Nat /\ Len(stmts) <= MaxImports
<1>1. MaxImports \in Nat
  BY RootAssumption
<1>2. PICK n \in 0..MaxImports : stmts \in [1..n -> Mods]
  BY DEF Statements
<1>3. n \in Nat /\ Len(stmts) = n
  BY <1>1, <1>2
<1> QED
  BY <1>2, <1>3, StatementsType

\* Imported shrinks what the calls have left, if no module becomes unread.
LEMMA ImportedShrinks ==
  ASSUME WInv, Importing, NEW err \in BOOLEAN, Imported(checks, err), Unread' \subseteq Unread
  PROVE  /\ BoundInv'
         /\ \A kind \in DOMAIN WorkLeft : WorkLeft'[kind] \subseteq WorkLeft[kind]
         /\ WorkLeft' # WorkLeft
<1>1. checks' = Advanced(checks, err) /\ checks # <<>> /\ checks[Len(checks)].left # <<>>
  BY ImportingFacts DEF WInv, Imported, Advanced
<1>2. /\ checks \in Seq(CallSet)
      /\ \A i \in 1..Len(checks) : Len(checks[i].left) <= MaxImports
      /\ \A i, j \in 1..Len(checks) : i < j => checks[j].mod # checks[i].mod
  BY DEF WInv, IInv, TypeInv, PathInv, BoundInv
<1>3. ModsOf(checks) \cap Unread = {}
  BY DEF Unread, Paths, ModsOf
<1>4. /\ Turns(checks', Unread') \subseteq Turns(checks, Unread)
      /\ Turn(checks) \in Turns(checks, Unread) \ Turns(checks', Unread')
      /\ \A i \in 1..Len(checks') : Len(checks'[i].left) <= MaxImports
  <2>1. ModsOf(checks) \cap Unread' = {}
    BY <1>3
  <2> QED
    BY <1>1, <1>2, <2>1, AdvanceShrinks
<1>5. Turns(checks, Unread)' = Turns(checks', Unread')
  BY DEF Turns
<1> QED
  BY <1>4, <1>5, WorkParts DEF BoundInv

LEMMA LoadShrinks ==
  ASSUME WInv, NEW stmts \in Statements, NEW errs \in BOOLEAN, Load(stmts, errs)
  PROVE  /\ BoundInv'
         /\ \A kind \in DOMAIN WorkLeft : WorkLeft'[kind] \subseteq WorkLeft[kind]
         /\ WorkLeft' # WorkLeft
<1> DEFINE n == Len(checks)
<1>1. /\ path \notin Paths /\ imports[path] = "no" /\ imports' = imports /\ path \in Mods
      /\ checks' = Append(checks, Call(path, stmts)) /\ checks # <<>>
  BY ImportingFacts DEF Load, WInv
<1>2. checks \in Seq(CallSet) /\ n \in Nat /\ Root \in Paths
  BY <1>1, TopFacts DEF WInv, IInv, TypeInv
<1>3. /\ Len(checks') = n + 1 /\ checks'[n + 1] = Call(path, stmts)
      /\ \A i \in 1..n : checks'[i] = checks[i]
  BY <1>1, <1>2
<1>4. Call(path, stmts).mod = path /\ Call(path, stmts).left = stmts
  BY DEF Call
<1>5. 1..Len(checks') = 1..n \cup {n + 1}
  BY <1>2, <1>3
<1>6. Paths' = Paths \cup {path}
  BY <1>3, <1>4, <1>5 DEF Paths
<1>7. Unread' = Unread \ {path} /\ path \in Unread
  BY <1>1, <1>2, <1>6 DEF Unread
<1>8. Turns(checks', Unread') \subseteq Turns(checks, Unread)
  <2> SUFFICES ASSUME NEW e \in Turns(checks', Unread') PROVE e \in Turns(checks, Unread)
    OBVIOUS
  <2>1. CASE e[1] \in Unread
    BY <2>1 DEF Turns
  <2>2. CASE e[1] \notin Unread
    <3>1. PICK i \in 1..Len(checks') :
                 checks'[i].mod = e[1] /\ e[2] <= Len(checks'[i].left) + 1
      BY <1>7, <2>2 DEF Turns
    <3>2. i \in 1..n
      BY <1>3, <1>4, <1>5, <1>7, <2>2, <3>1
    <3>3. checks[i].mod = e[1] /\ e[2] <= Len(checks[i].left) + 1
      BY <1>3, <3>1, <3>2
    <3> QED
      BY <3>2, <3>3 DEF Turns
  <2> QED
    BY <2>1, <2>2
<1>9. BoundInv'
  <2>1. \A i \in 1..n : Len(checks[i].left) <= MaxImports
    BY DEF WInv, BoundInv
  <2> QED
    BY <1>3, <1>4, <1>5, <2>1, StatementsBound DEF BoundInv
<1>10. Turns(checks, Unread)' = Turns(checks', Unread')
  BY DEF Turns
<1> QED
  BY <1>7, <1>8, <1>9, <1>10, WorkParts

LEMMA ImportDoneShrinks ==
  ASSUME WInv, ImportDone
  PROVE  /\ BoundInv'
         /\ \A kind \in DOMAIN WorkLeft : WorkLeft'[kind] \subseteq WorkLeft[kind]
         /\ WorkLeft' # WorkLeft
<1> DEFINE n == Len(checks)
           t == SubSeq(checks, 1, n - 1)
<1>1. /\ n > 1 /\ imports' = [imports EXCEPT ![Top.mod] = IF Fails THEN "nil" ELSE "defs"]
      /\ checks' = Advanced(t, Fails)
  BY DEF ImportDone, Imported, Advanced
<1>2. checks \in Seq(CallSet) /\ n \in Nat /\ imports \in Memo
  BY StackType DEF WInv, IInv, TypeInv
<1>3. /\ t \in Seq(CallSet) /\ Len(t) = n - 1 /\ t # <<>>
      /\ \A i \in 1..n - 1 : t[i] = checks[i]
  <2>1. PathInv(checks, statements) /\ LeftInv(checks, statements, imports)
          /\ ErrsInv(checks, statements, broken)
    BY DEF WInv, IInv
  <2>2. /\ t \in Seq(CallSet) /\ Len(t) = n - 1 /\ t # <<>>
        /\ \A i \in 1..Len(t) : t[i] = checks[i]
    BY <1>1, <1>2, <2>1, PopKeeps
  <2> QED
    BY <2>2
<1>4. /\ \A i \in 1..n : Len(checks[i].left) <= MaxImports
      /\ \A i, j \in 1..n : i < j => checks[j].mod # checks[i].mod
      /\ checks[n - 1].left # <<>>
  BY <1>1, <1>2 DEF WInv, IInv, PathInv, BoundInv
<1>5. /\ \A i \in 1..Len(t) : Len(t[i].left) <= MaxImports
      /\ \A i, j \in 1..Len(t) : i < j => t[j].mod # t[i].mod
      /\ t[Len(t)].left # <<>>
  BY <1>1, <1>2, <1>3, <1>4
<1>6. Fails \in BOOLEAN
  <2>1. checks # <<>>
    BY <1>1, <1>2
  <2>2. Top \in CallSet
    BY <1>2, <2>1, StackType DEF Top
  <2> QED
    BY <2>2 DEF Fails, CallSet
<1>7. ModsOf(checks) = ModsOf(t) \cup {Top.mod}
  <2>1. 1..n = 1..n - 1 \cup {n}
    BY <1>1, <1>2
  <2> HIDE DEF t
  <2> QED
    BY <1>3, <2>1 DEF ModsOf, Top
<1>8. ModsOf(checks') = ModsOf(t)
  <2> HIDE DEF t
  <2> QED
    BY <1>1, <1>3, <1>5, <1>6, AdvanceTop DEF ModsOf
<1>9. Unread' \subseteq Unread
  <2>1. Paths = ModsOf(checks) /\ Paths' = ModsOf(checks')
    BY DEF Paths, ModsOf
  <2>2. ASSUME NEW m \in Mods, imports'[m] = "no" PROVE m # Top.mod /\ imports[m] = "no"
    BY <1>1, <1>2, <2>2 DEF Memo
  <2> HIDE DEF t
  <2> QED
    BY <1>7, <1>8, <2>1, <2>2 DEF Unread
<1>10. ModsOf(t) \cap Unread' = {}
  <2> HIDE DEF t
  <2>1. Paths' = ModsOf(t)
    BY <1>8 DEF Paths, ModsOf
  <2> QED
    BY <2>1 DEF Unread
<1>11. /\ Turns(checks', Unread') \subseteq Turns(t, Unread)
       /\ Turn(t) \in Turns(t, Unread) \ Turns(checks', Unread')
       /\ \A i \in 1..Len(checks') : Len(checks'[i].left) <= MaxImports
  <2> HIDE DEF t
  <2> QED
    BY <1>1, <1>3, <1>5, <1>6, <1>9, <1>10, AdvanceShrinks
<1>12. Turns(t, Unread) \subseteq Turns(checks, Unread)
  <2>1. 1..Len(t) \subseteq 1..n
    BY <1>2, <1>3
  <2> HIDE DEF t
  <2>2. \A i \in 1..Len(t) : i \in 1..n /\ t[i] = checks[i]
    BY <1>3, <2>1
  <2> QED
    BY <2>2 DEF Turns
<1>13. Turns(checks, Unread)' = Turns(checks', Unread')
  BY DEF Turns
<1> HIDE DEF t
<1> QED
  BY <1>9, <1>11, <1>12, <1>13, WorkParts DEF BoundInv

LEMMA CheckDoneShrinks ==
  ASSUME WInv, CheckDone
  PROVE  /\ BoundInv'
         /\ \A kind \in DOMAIN WorkLeft : WorkLeft'[kind] \subseteq WorkLeft[kind]
         /\ WorkLeft' # WorkLeft
<1>1. Len(checks) = 1 /\ checks' = <<>> /\ imports' = imports /\ checks # <<>>
  BY DEF CheckDone
<1>2. /\ checks[1].mod = Root /\ Root \in Mods /\ MaxImports \in Nat
      /\ Len(checks[1].left) \in Nat
  <2>1. checks \in Seq(CallSet) /\ 1 \in 1..Len(checks)
    BY <1>1 DEF WInv, IInv, TypeInv
  <2> QED
    BY <1>1, <2>1, StackType, LenProperties, RootAssumption DEF WInv, IInv, PathInv
<1>3. Paths = {Root} /\ Paths' = {}
  <2>1. 1..Len(checks) = {1} /\ 1..Len(checks') = {}
    BY <1>1
  <2> QED
    BY <1>2, <2>1 DEF Paths
<1>4. Unread' = Unread /\ Root \notin Unread
  BY <1>1, <1>3 DEF Unread
<1>5. Turns(checks', Unread') \subseteq Turns(checks, Unread)
  BY <1>1, <1>4 DEF Turns
<1>6. <<Root, 1>> \in Turns(checks, Unread)
  <2>1. <<Root, 1>> \in Mods \X (1..MaxImports + 1)
    BY <1>2
  <2>2. 1 \in 1..Len(checks) /\ checks[1].mod = Root /\ 1 <= Len(checks[1].left) + 1
    BY <1>1, <1>2
  <2> QED
    BY <2>1, <2>2 DEF Turns
<1>7. <<Root, 1>> \notin Turns(checks', Unread')
  BY <1>1, <1>4 DEF Turns
<1>8. Turns(checks, Unread)' = Turns(checks', Unread')
  BY DEF Turns
<1>9. BoundInv'
  BY <1>1 DEF BoundInv
<1> QED
  BY <1>4, <1>5, <1>6, <1>7, <1>8, <1>9, WorkParts

LEMMA StepShrinks ==
  ASSUME WInv, Next, vars' # vars
  PROVE  /\ BoundInv'
         /\ \A kind \in DOMAIN WorkLeft : WorkLeft'[kind] \subseteq WorkLeft[kind]
         /\ WorkLeft' # WorkLeft
<1>1. ASSUME NEW err \in BOOLEAN, Importing, Imported(checks, err)
      PROVE  Paths' = Paths
  <2>1. checks' = Advanced(checks, err) /\ checks # <<>> /\ checks[Len(checks)].left # <<>>
    BY <1>1, ImportingFacts DEF WInv, Imported, Advanced
  <2>2. checks \in Seq(CallSet)
    BY DEF WInv, IInv, TypeInv
  <2> QED
    BY <2>1, <2>2, AdvanceTop DEF Paths
<1>2. CASE ImportCycle
  <2>1. Importing /\ Imported(checks, TRUE) /\ imports' = imports
    BY <1>2 DEF ImportCycle
  <2>2. Unread' \subseteq Unread
    BY <1>1, <2>1 DEF Unread
  <2> QED
    BY <2>1, <2>2, ImportedShrinks
<1>3. CASE ImportAgain
  <2>1. Importing /\ Imported(checks, NilNoticed) /\ imports' = imports /\ NilNoticed \in BOOLEAN
    BY <1>3 DEF ImportAgain, NilNoticed
  <2>2. Unread' \subseteq Unread
    BY <1>1, <2>1 DEF Unread
  <2> QED
    BY <2>1, <2>2, ImportedShrinks
<1>4. CASE LoadFails
  <2>1. Importing /\ Imported(checks, TRUE) /\ imports' = [imports EXCEPT ![path] = "nil"]
    BY <1>4 DEF LoadFails
  <2>2. imports \in Memo
    BY DEF WInv, IInv, TypeInv
  <2>3. \A m \in Mods : imports'[m] = "no" => imports[m] = "no"
    BY <2>1, <2>2 DEF Memo
  <2>4. Unread' \subseteq Unread
    BY <1>1, <2>1, <2>3 DEF Unread
  <2> QED
    BY <2>1, <2>4, ImportedShrinks
<1>5. CASE \E stmts \in Statements, errs \in BOOLEAN : Load(stmts, errs)
  BY <1>5, LoadShrinks
<1>6. CASE ImportDone
  BY <1>6, ImportDoneShrinks
<1>7. CASE CheckDone
  BY <1>7, CheckDoneShrinks
<1> QED
  BY <1>2, <1>3, <1>4, <1>5, <1>6, <1>7 DEF Next, Returned

LEMMA InitBound == Init => BoundInv
<1> SUFFICES ASSUME Init PROVE BoundInv
  OBVIOUS
<1>1. PICK stmts \in Statements : checks = <<Call(Root, stmts)>>
  BY DEF Init
<1>2. Len(checks) = 1 /\ checks[1].left = stmts
  BY <1>1 DEF Call
<1> QED
  BY <1>2, StatementsBound DEF BoundInv

\* With finitely many modules there is only so much to do.
LEMMA WorkIsFinite ==
  ASSUME IsFiniteSet(Mods)
  PROVE  \A kind \in DOMAIN WorkLeft : IsFiniteSet(WorkLeft[kind])
<1>1. MaxImports + 1 \in Int
  BY RootAssumption
<1>2. IsFiniteSet(1..MaxImports + 1)
  BY <1>1, FS_Interval
<1>3. IsFiniteSet(Mods \X (1..MaxImports + 1))
  BY <1>2, FS_Product
<1>4. IsFiniteSet(Unread)
  <2>1. Unread \subseteq Mods
    BY DEF Unread
  <2> QED
    BY <2>1, FS_Subset
<1>5. IsFiniteSet(Turns(checks, Unread))
  <2>1. Turns(checks, Unread) \subseteq Mods \X (1..MaxImports + 1)
    BY DEF Turns
  <2> QED
    BY <1>3, <2>1, FS_Subset
<1>6. /\ WorkLeft["read"] = Unread /\ WorkLeft["turns"] = Turns(checks, Unread)
      /\ DOMAIN WorkLeft = {"read", "turns"}
  BY DEF WorkLeft, Turns
<1> QED
  BY <1>4, <1>5, <1>6

\* Each step of Check but stuttering does some of the work left and makes none: it ends on
\* any finite set of modules whatever imports what, as long as it goes on.
THEOREM WorkShrinksCorrect == Spec => WorkShrinks
<1> DEFINE Less == /\ \A kind \in DOMAIN WorkLeft : WorkLeft'[kind] \subseteq WorkLeft[kind]
                   /\ WorkLeft' # WorkLeft
<1>1. IInv /\ BoundInv /\ [Next]_vars => BoundInv' /\ [Less]_vars
  <2> SUFFICES ASSUME IInv, BoundInv, [Next]_vars PROVE BoundInv' /\ [Less]_vars
    OBVIOUS
  <2>1. CASE UNCHANGED vars
    BY <2>1 DEF vars, BoundInv
  <2>2. CASE vars' # vars
    BY <2>2, StepShrinks DEF WInv
  <2> QED
    BY <2>1, <2>2
<1>2. Spec => [][Less]_vars
  BY <1>1, InitBound, InvariantCorrect, PTL DEF Spec
<1> QED
  BY <1>2 DEF WorkShrinks
=============================================================================
