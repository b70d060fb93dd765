--------------------------- MODULE LeastElements ---------------------------
(***************************************************************************)
(* Induction over data, in the form of least elements of sets: what is     *)
(* wrong for some number, or for some finite set, is wrong for a least     *)
(* one.  The proofs about chains, walks and loops use it where a principle *)
(* of induction with a predicate as its parameter would be used.           *)
(***************************************************************************)
EXTENDS Integers, Sequences, FiniteSets, FiniteSetTheorems, SequenceTheorems,
        WellFoundedInduction, TLAPS

\* Among some subsets of a finite set there is one that no other is part of.
LEMMA MinimalSet ==
  ASSUME NEW U, IsFiniteSet(U), NEW T, T \subseteq SUBSET U, T # {}
  PROVE  \E x \in T : \A y \in T : y \subseteq x => y = x
<1>1. FiniteSubsetsOf(U) = SUBSET U
  BY FS_FiniteSubsetsOfFinite
<1>2. IsWellFoundedOn(StrictSubsetOrdering(U), SUBSET U)
  BY <1>1, FS_StrictSubsetOrderingWellFounded
<1>3. \E x \in T : \A y \in T : ~ (<<y, x>> \in StrictSubsetOrdering(U))
  BY <1>2, WFMin
<1>4. PICK x \in T : \A y \in T : ~ (<<y, x>> \in StrictSubsetOrdering(U))
  BY <1>3
<1>5. ASSUME NEW y \in T, y \subseteq x PROVE y = x
  <2>1. <<y, x>> \notin StrictSubsetOrdering(U)
    BY <1>4
  <2> QED
    BY <1>5, <2>1 DEF StrictSubsetOrdering
<1> QED
  BY <1>4, <1>5

\* A set of natural numbers has a least one.
LEMMA SmallestOf ==
  ASSUME NEW S \in SUBSET Nat, S # {}
  PROVE  \E m \in S : \A k \in S : m <= k
<1>1. PICK n \in S : TRUE
  OBVIOUS
<1> DEFINE U == 0..n
           T == {0..k : k \in {k \in S : k <= n}}
<1>2. IsFiniteSet(U)
  BY <1>1, FS_Interval
<1>3. T \subseteq SUBSET U /\ T # {}
  <2>1. ASSUME NEW t \in T PROVE t \subseteq U
    BY <2>1, <1>1
  <2>2. 0..n \in T
    BY <1>1
  <2> QED
    BY <2>1, <2>2
<1> HIDE DEF U
<1>4. \E x \in T : \A y \in T : y \subseteq x => y = x
  <2> HIDE DEF T
  <2> QED
    BY <1>2, <1>3, MinimalSet
<1>5. PICK m \in S : m <= n /\ \A y \in T : y \subseteq 0..m => y = 0..m
  BY <1>4
<1>6. ASSUME NEW k \in S PROVE m <= k
  <2> SUFFICES ASSUME k < m PROVE FALSE
    BY <1>6
  <2>1. k <= n /\ 0..k \in T /\ 0..k \subseteq 0..m
    BY <1>5, <1>1
  <2>2. 0..k = 0..m
    BY <1>5, <2>1
  <2> QED
    BY <2>2
<1> QED
  BY <1>6

\* R orders S strictly and totally.
Orders(R, S) ==
  /\ \A e \in S : <<e, e>> \notin R
  /\ \A e, f, g \in S : <<e, f>> \in R /\ <<f, g>> \in R => <<e, g>> \in R
  /\ \A e, f \in S : e = f \/ <<e, f>> \in R \/ <<f, e>> \in R

LEMMA GreatestOf ==
  ASSUME NEW S, IsFiniteSet(S), S # {}, NEW R, Orders(R, S)
  PROVE  \E m \in S : \A e \in S : e = m \/ <<e, m>> \in R
<1> DEFINE Above(m) == {f \in S : <<m, f>> \in R}
           T == {Above(m) : m \in S}
<1>1. T \subseteq SUBSET S /\ T # {}
  OBVIOUS
<1>2. \E x \in T : \A y \in T : y \subseteq x => y = x
  <2> HIDE DEF T
  <2> QED
    BY <1>1, MinimalSet
<1>3. PICK m \in S : \A k \in S : Above(k) \subseteq Above(m) => Above(k) = Above(m)
  <2>1. PICK x \in T : \A y \in T : y \subseteq x => y = x
    BY <1>2
  <2>2. PICK m \in S : x = Above(m)
    OBVIOUS
  <2>3. \A k \in S : Above(k) \in T
    OBVIOUS
  <2> HIDE DEF T, Above
  <2> QED
    BY <2>1, <2>2, <2>3
<1>4. ASSUME NEW f \in S PROVE <<m, f>> \notin R
  <2> SUFFICES ASSUME <<m, f>> \in R PROVE FALSE
    OBVIOUS
  <2>1. Above(f) \subseteq Above(m)
    BY DEF Orders
  <2>2. f \in Above(m) /\ f \notin Above(f)
    BY DEF Orders
  <2> QED
    BY <1>3, <2>1, <2>2
<1> QED
  BY <1>4 DEF Orders

\* s lists S in the order of R.
Lists(s, S, R) ==
  /\ s \in Seq(S)
  /\ \A e \in S : \E i \in 1..Len(s) : s[i] = e
  /\ \A i, j \in 1..Len(s) : i < j => <<s[i], s[j]>> \in R

\* A finite set can be listed in order.
LEMMA Listing ==
  ASSUME NEW S, IsFiniteSet(S), NEW R, Orders(R, S)
  PROVE  \E s : Lists(s, S, R)
<1> DEFINE T == {x \in SUBSET S : ~ \E s : Lists(s, x, R)}
<1> SUFFICES ASSUME T # {} PROVE FALSE
  OBVIOUS
<1>1. \E x \in T : \A y \in T : y \subseteq x => y = x
  <2>1. T \subseteq SUBSET S
    OBVIOUS
  <2> HIDE DEF T
  <2> QED
    BY <2>1, MinimalSet
<1>2. PICK x \in T : \A y \in T : y \subseteq x => y = x
  BY <1>1
<1>3. x # {}
  <2>1. Lists(<<>>, {}, R)
    BY DEF Lists
  <2> QED
    BY <2>1
<1>4. IsFiniteSet(x) /\ Orders(R, x)
  <2>1. IsFiniteSet(x)
    BY FS_Subset
  <2> QED
    BY <2>1 DEF Orders
<1>5. PICK m \in x : \A e \in x : e = m \/ <<e, m>> \in R
  BY <1>3, <1>4, GreatestOf
<1>6. x \ {m} \notin T
  BY <1>2
<1>7. PICK s : Lists(s, x \ {m}, R)
  BY <1>6
<1> DEFINE t == Append(s, m)
<1>8. s \in Seq(x \ {m}) /\ s \in Seq(x) /\ Len(s) \in Nat
  <2>1. s \in Seq(x \ {m})
    BY <1>7 DEF Lists
  <2> QED
    BY <2>1, LenProperties
<1>9. /\ t \in Seq(x) /\ Len(t) = Len(s) + 1 /\ t[Len(s) + 1] = m
      /\ \A i \in 1..Len(s) : t[i] = s[i] /\ s[i] \in x \ {m}
  <2>1. \A i \in 1..Len(s) : s[i] \in x \ {m}
    BY <1>8, ElementOfSeq
  <2> QED
    BY <1>8, <2>1, AppendProperties
<1> HIDE DEF t
<1>10. \A i \in 1..Len(t) : i \in 1..Len(s) \/ i = Len(s) + 1
  BY <1>8, <1>9
<1>11. ASSUME NEW e \in x PROVE \E i \in 1..Len(t) : t[i] = e
  <2>1. CASE e = m
    BY <1>8, <1>9, <2>1
  <2>2. CASE e # m
    <3>1. PICK i \in 1..Len(s) : s[i] = e
      BY <1>7, <2>2 DEF Lists
    <3>2. i \in 1..Len(t)
      BY <1>8, <1>9
    <3> QED
      BY <1>9, <3>1, <3>2
  <2> QED
    BY <2>1, <2>2
<1>12. ASSUME NEW i \in 1..Len(t), NEW j \in 1..Len(t), i < j
       PROVE  <<t[i], t[j]>> \in R
  <2>1. i \in 1..Len(s)
    BY <1>8, <1>9, <1>12
  <2>2. CASE j \in 1..Len(s)
    BY <1>7, <1>9, <1>12, <2>1, <2>2 DEF Lists
  <2>3. CASE j = Len(s) + 1
    BY <1>5, <1>9, <2>1, <2>3
  <2> QED
    BY <1>10, <2>2, <2>3
<1>13. Lists(t, x, R)
  BY <1>9, <1>11, <1>12 DEF Lists
<1> QED
  BY <1>2, <1>13
=============================================================================
