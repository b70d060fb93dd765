--------------------------- MODULE HashMapProofs ---------------------------
(***************************************************************************)
(* Proofs for HashMap, for any keys, hash methods and numbers of buckets.  *)
(***************************************************************************)
EXTENDS HashMap, LeastElements

-----------------------------------------------------------------------------
(* Chains *)

Links == Nat \ {0}

\* A chain is determined by where it starts.
LEMMA ChainPrefix ==
  ASSUME NEW links, NEW e, NEW s \in Seq(Links), NEW t \in Seq(Links),
         IsChain(links, e, s), IsChain(links, e, t)
  PROVE  Len(s) <= Len(t) /\ \A i \in 1..Len(s) : s[i] = t[i]
<1>1. Len(s) \in Nat /\ Len(t) \in Nat /\ DOMAIN s = 1..Len(s) /\ DOMAIN t = 1..Len(t)
  BY LenProperties
<1> DEFINE Wrong == {i \in Nat : i \in 1..Len(s) /\ ~ (i \in 1..Len(t) /\ s[i] = t[i])}
<1>2. Wrong = {}
  <2> SUFFICES ASSUME Wrong # {} PROVE FALSE
    OBVIOUS
  <2>1. PICK m \in Wrong : \A k \in Wrong : m <= k
    <3>1. Wrong \in SUBSET Nat
      OBVIOUS
    <3> HIDE DEF Wrong
    <3> QED
      BY <3>1, SmallestOf
  <2>2. m \in 1..Len(s) /\ ~ (m \in 1..Len(t) /\ s[m] = t[m]) /\ m \in Nat
    BY DEF Wrong
  <2>3. s[m] \in Links
    BY <2>2, ElementOfSeq
  <2>4. CASE m = 1
    <3>1. e = s[1] /\ e # 0
      <4>1. s # <<>>
        BY <1>1, <2>2, EmptySeq
      <4> QED
        BY <2>3, <2>4, <4>1 DEF IsChain, Links
    <3>2. t # <<>> /\ e = t[1]
      BY <3>1 DEF IsChain
    <3>3. Len(t) # 0
      BY <3>2, EmptySeq
    <3>4. 1 \in 1..Len(t)
      BY <1>1, <3>3
    <3> QED
      BY <2>2, <2>4, <3>1, <3>2, <3>4
  <2>5. CASE m # 1
    <3>1. m - 1 \in 1..Len(s) /\ m - 1 \in Nat /\ m - 1 # Len(s) /\ (m - 1) + 1 = m
      BY <1>1, <2>2, <2>5
    <3>2. m - 1 \notin Wrong
      BY <2>1, <2>2
    <3>3. m - 1 \in 1..Len(t) /\ s[m - 1] = t[m - 1]
      BY <3>1, <3>2
    <3>4. links[s[m - 1]] = s[m]
      BY <1>1, <3>1 DEF IsChain
    <3>5. links[t[m - 1]] = IF m - 1 = Len(t) THEN 0 ELSE t[m]
      BY <1>1, <3>1, <3>3 DEF IsChain
    <3>6. m - 1 # Len(t) /\ t[m] = s[m]
      BY <2>3, <3>3, <3>4, <3>5 DEF Links
    <3>7. m \in 1..Len(t)
      BY <1>1, <2>2, <3>3, <3>6
    <3> QED
      BY <2>2, <3>6, <3>7
  <2> QED
    BY <2>4, <2>5
<1>3. \A i \in 1..Len(s) : i \in 1..Len(t) /\ s[i] = t[i]
  BY <1>2
<1>4. Len(s) <= Len(t)
  <2>1. CASE Len(s) = 0
    BY <1>1, <2>1
  <2>2. CASE Len(s) # 0
    <3>1. Len(s) \in 1..Len(s)
      BY <1>1, <2>2
    <3> QED
      BY <1>1, <1>3, <3>1
  <2> QED
    BY <2>1, <2>2
<1> QED
  BY <1>3, <1>4

LEMMA ChainUnique ==
  ASSUME NEW links, NEW e, NEW s \in Seq(Links), NEW t \in Seq(Links),
         IsChain(links, e, s), IsChain(links, e, t)
  PROVE  s = t
<1>1. Len(s) <= Len(t) /\ \A i \in 1..Len(s) : s[i] = t[i]
  BY ChainPrefix
<1>2. Len(t) <= Len(s)
  BY ChainPrefix
<1>3. Len(s) \in Nat /\ Len(t) \in Nat
  BY LenProperties
<1>4. Len(s) = Len(t)
  BY <1>1, <1>2, <1>3
<1> QED
  BY <1>1, <1>4, SeqEqual

\* What follows the first p entries of a chain.
After(s, p) == SubSeq(s, p + 1, Len(s))
LinkAfter(s, p) == IF p = Len(s) THEN 0 ELSE s[p + 1]

LEMMA AfterProperties ==
  ASSUME NEW S, NEW s \in Seq(S), NEW p \in 0..Len(s)
  PROVE  /\ After(s, p) \in Seq(S) /\ Len(After(s, p)) = Len(s) - p
         /\ Len(s) - p \in Nat /\ p \in Nat /\ Len(s) \in Nat
         /\ \A i \in 1..(Len(s) - p) : p + i \in 1..Len(s) /\ After(s, p)[i] = s[p + i]
<1>1. Len(s) \in Nat /\ p \in Nat /\ Len(s) - p \in Nat
  BY LenProperties
<1>2. \A i \in (p + 1)..Len(s) : s[i] \in S
  <2>1. \A i \in (p + 1)..Len(s) : i \in 1..Len(s)
    BY <1>1
  <2> QED
    BY <2>1, ElementOfSeq
<1>3. /\ SubSeq(s, p + 1, Len(s)) \in Seq(S)
      /\ Len(SubSeq(s, p + 1, Len(s))) =
           IF p + 1 <= Len(s) THEN Len(s) - (p + 1) + 1 ELSE 0
      /\ \A i \in 1..(Len(s) - (p + 1) + 1) : SubSeq(s, p + 1, Len(s))[i] = s[p + 1 + i - 1]
  BY <1>1, <1>2, SubSeqProperties
<1> DEFINE t == After(s, p)
<1>4. /\ t \in Seq(S) /\ Len(t) = IF p + 1 <= Len(s) THEN Len(s) - (p + 1) + 1 ELSE 0
      /\ \A i \in 1..(Len(s) - (p + 1) + 1) : t[i] = s[p + 1 + i - 1]
  BY <1>3 DEF After
<1> HIDE DEF t
<1>5. Len(t) = Len(s) - p /\ \A i \in 1..(Len(s) - p) : p + i \in 1..Len(s) /\ t[i] = s[p + i]
  BY <1>1, <1>4
<1> QED
  BY <1>1, <1>4, <1>5 DEF t

\* It is a chain, too.
LEMMA AfterIsChain ==
  ASSUME NEW links, NEW e, NEW s \in Seq(Links), IsChain(links, e, s), NEW p \in 0..Len(s)
  PROVE  IsChain(links, LinkAfter(s, p), After(s, p))
<1> DEFINE t == After(s, p)
<1>1. /\ t \in Seq(Links) /\ Len(t) = Len(s) - p /\ Len(t) \in Nat /\ p \in Nat
      /\ Len(s) \in Nat
      /\ \A i \in 1..Len(t) : p + i \in 1..Len(s) /\ t[i] = s[p + i]
  BY AfterProperties
<1> HIDE DEF t
<1>2. DOMAIN s = 1..Len(s) /\ DOMAIN t = 1..Len(t)
  BY <1>1, LenProperties
<1>3. LinkAfter(s, p) = IF t = <<>> THEN 0 ELSE t[1]
  <2>1. t = <<>> <=> p = Len(s)
    <3>1. t = <<>> <=> Len(t) = 0
      BY <1>1, EmptySeq
    <3> QED
      BY <1>1, <3>1
  <2>2. ASSUME p # Len(s) PROVE t[1] = s[p + 1]
    <3>1. Len(t) = Len(s) - p /\ Len(t) \in Nat /\ p \in Nat /\ Len(s) \in Nat
      BY <1>1
    <3>2. 1 \in 1..Len(t)
      BY <2>2, <3>1
    <3> QED
      BY <1>1, <3>2
  <2> QED
    BY <2>1, <2>2 DEF LinkAfter
<1>4. ASSUME NEW i \in 1..Len(t)
      PROVE  links[t[i]] = IF i = Len(t) THEN 0 ELSE t[i + 1]
  <2>1. p + i \in 1..Len(s) /\ t[i] = s[p + i] /\ i \in Nat
    BY <1>1
  <2>2. links[s[p + i]] = IF p + i = Len(s) THEN 0 ELSE s[p + i + 1]
    BY <1>2, <2>1 DEF IsChain
  <2>3. CASE i = Len(t)
    <3>1. p + i = Len(s)
      BY <1>1, <2>3
    <3> QED
      BY <2>1, <2>2, <2>3, <3>1
  <2>4. CASE i # Len(t)
    <3>1. p + i # Len(s) /\ p + i + 1 = p + (i + 1)
      BY <1>1, <2>1, <2>4
    <3>3. i + 1 \in 1..Len(t)
      <4>1. Len(t) \in Nat /\ i \in 1..Len(t)
        BY <1>1
      <4> QED
        BY <2>4, <4>1
    <3>2. t[i + 1] = s[p + i + 1]
      BY <1>1, <3>1, <3>3
    <3> QED
      BY <2>1, <2>2, <2>4, <3>1, <3>2
  <2> QED
    BY <2>3, <2>4
<1>5. IsChain(links, LinkAfter(s, p), t)
  BY <1>2, <1>3, <1>4 DEF IsChain
<1> QED
  BY <1>5 DEF t

\* No entry comes twice in a chain.
LEMMA ChainDistinct ==
  ASSUME NEW links, NEW e, NEW s \in Seq(Links), IsChain(links, e, s),
         NEW i \in 1..Len(s), NEW j \in 1..Len(s), s[i] = s[j]
  PROVE  i = j
<1>1. Len(s) \in Nat /\ i \in Nat /\ j \in Nat /\ i - 1 \in 0..Len(s) /\ j - 1 \in 0..Len(s)
  BY LenProperties
<1>2. LinkAfter(s, i - 1) = s[i] /\ LinkAfter(s, j - 1) = s[j]
  BY <1>1 DEF LinkAfter
<1>3. IsChain(links, s[i], After(s, i - 1)) /\ IsChain(links, s[i], After(s, j - 1))
  BY <1>1, <1>2, AfterIsChain
<1>4. /\ After(s, i - 1) \in Seq(Links) /\ Len(After(s, i - 1)) = Len(s) - (i - 1)
      /\ After(s, j - 1) \in Seq(Links) /\ Len(After(s, j - 1)) = Len(s) - (j - 1)
  BY <1>1, AfterProperties
<1>5. After(s, i - 1) = After(s, j - 1)
  BY <1>3, <1>4, ChainUnique
<1> QED
  BY <1>1, <1>4, <1>5

\* The entries of the chain that starts at e, for the links of n entries.
LEMMA ChainIs ==
  ASSUME NEW n \in Nat, NEW links, DOMAIN links = 1..n, Len(links) = n,
         NEW e, NEW s \in Seq(1..n), IsChain(links, e, s)
  PROVE  Chain(links, e) = s
<1>1. s \in Seq(Links) /\ Len(s) \in Nat /\ \A i \in 1..Len(s) : s[i] \in 1..n
  <2>1. Len(s) \in Nat /\ \A i \in 1..Len(s) : s[i] \in 1..n
    BY LenProperties, ElementOfSeq
  <2>2. 1..n \subseteq Links
    BY DEF Links
  <2> QED
    BY <2>1, <2>2, SeqMonotonic
<1>2. Len(s) <= n
  <2> SUFFICES ASSUME Len(s) > n PROVE FALSE
    BY <1>1
  <2> DEFINE f == [i \in 1..Len(s) |-> s[i]]
             S == 1..Len(s)
             T == 1..n
  <2>1. IsFiniteSet(S) /\ IsFiniteSet(T) /\ Cardinality(T) = n /\ Cardinality(S) = Len(s)
    <3>1. Len(s) \in Int /\ n \in Int /\ 1 \in Int /\ Len(s) - 1 + 1 = Len(s) /\ n - 1 + 1 = n
      BY <1>1
    <3>2. /\ IsFiniteSet(1..Len(s)) /\ IsFiniteSet(1..n)
          /\ Cardinality(1..n) = IF 1 > n THEN 0 ELSE n - 1 + 1
          /\ Cardinality(1..Len(s)) = IF 1 > Len(s) THEN 0 ELSE Len(s) - 1 + 1
      BY <3>1, FS_Interval, Zenon
    <3> QED
      BY <1>1, <3>2
  <2>2. f \in [S -> T]
    BY <1>1
  <2>3. Cardinality(T) < Cardinality(S)
    BY <1>1, <2>1
  <2> HIDE DEF f, S, T
  <2>4. PICK i \in S, j \in S : i # j /\ f[i] = f[j]
    BY <2>1, <2>2, <2>3, FS_PigeonHole
  <2>5. s[i] = s[j] /\ i \in 1..Len(s) /\ j \in 1..Len(s)
    BY <2>4 DEF f, S
  <2> QED
    BY <1>1, <2>4, <2>5, ChainDistinct
<1>3. s \in SeqOf(1..n, n)
  BY <1>1, <1>2 DEF SeqOf
<1> DEFINE t == Chain(links, e)
<1>4. t \in SeqOf(1..n, n) /\ IsChain(links, e, t)
  BY <1>3 DEF Chain
<1> HIDE DEF t
<1>5. t \in Seq(1..n)
  BY <1>4 DEF SeqOf
<1>6. t \in Seq(Links)
  <2>1. 1..n \subseteq Links
    BY DEF Links
  <2> QED
    BY <1>5, <2>1, SeqMonotonic
<1>7. t = s
  BY <1>1, <1>4, <1>6, ChainUnique
<1> QED
  BY <1>7 DEF t

-----------------------------------------------------------------------------
(* Changes of chains *)

Push(f, s) == <<f>> \o s

LEMMA PushProperties ==
  ASSUME NEW S, NEW s \in Seq(S), NEW f \in S
  PROVE  /\ Push(f, s) \in Seq(S) /\ Len(Push(f, s)) = Len(s) + 1 /\ Len(s) \in Nat
         /\ Push(f, s)[1] = f
         /\ \A i \in 1..Len(s) : Push(f, s)[i + 1] = s[i]
<1> DEFINE a == <<f>>
           t == Push(f, s)
<1>1. a \in Seq(S) /\ Len(a) = 1 /\ a[1] = f /\ Len(s) \in Nat
  BY LenProperties
<1>2. t = a \o s
  BY DEF Push
<1> HIDE DEF a, t
<1>3. /\ t \in Seq(S) /\ Len(t) = 1 + Len(s)
      /\ \A i \in 1..(1 + Len(s)) : t[i] = IF i <= 1 THEN a[i] ELSE s[i - 1]
  <2>1. /\ t \in Seq(S) /\ Len(t) = Len(a) + Len(s)
        /\ \A i \in 1..(Len(a) + Len(s)) :
             t[i] = IF i <= Len(a) THEN a[i] ELSE s[i - Len(a)]
    BY <1>1, <1>2, ConcatProperties
  <2> QED
    BY <1>1, <2>1
<1>4. Len(t) = Len(s) + 1 /\ t[1] = f
  BY <1>1, <1>3
<1>5. ASSUME NEW i \in 1..Len(s) PROVE t[i + 1] = s[i]
  <2>1. i + 1 \in 1..(1 + Len(s)) /\ ~ (i + 1 <= 1) /\ (i + 1) - 1 = i
    BY <1>1
  <2> QED
    BY <1>3, <2>1
<1> QED
  BY <1>1, <1>3, <1>4, <1>5 DEF t

LEMMA PushElements ==
  ASSUME NEW S, NEW s \in Seq(S), NEW f \in S
  PROVE  \A i \in 1..(Len(s) + 1) : i = 1 \/ (i - 1 \in 1..Len(s) /\ Push(f, s)[i] = s[i - 1])
<1>1. Len(s) \in Nat /\ \A i \in 1..Len(s) : Push(f, s)[i + 1] = s[i]
  BY PushProperties
<1>2. ASSUME NEW i \in 1..(Len(s) + 1), i # 1
      PROVE  i - 1 \in 1..Len(s) /\ Push(f, s)[i] = s[i - 1]
  <2>1. i - 1 \in 1..Len(s) /\ (i - 1) + 1 = i
    BY <1>1, <1>2
  <2>2. Push(f, s)[(i - 1) + 1] = s[i - 1]
    BY <1>1, <2>1
  <2> QED
    BY <2>1, <2>2
<1> QED
  BY <1>2

\* An entry is put in front of a chain.
LEMMA ChainPush ==
  ASSUME NEW links, NEW e, NEW s \in Seq(Links), IsChain(links, e, s),
         NEW f \in Links, NEW to, to[f] = e, \A i \in 1..Len(s) : to[s[i]] = links[s[i]]
  PROVE  IsChain(to, f, Push(f, s))
<1> DEFINE t == Push(f, s)
<1>1. /\ t \in Seq(Links) /\ Len(t) = Len(s) + 1 /\ Len(s) \in Nat
      /\ t[1] = f /\ \A i \in 1..Len(s) : t[i + 1] = s[i]
      /\ \A i \in 1..(Len(s) + 1) : i = 1 \/ (i - 1 \in 1..Len(s) /\ t[i] = s[i - 1])
  <2>1. \A i \in 1..(Len(s) + 1) : i = 1 \/ (i - 1 \in 1..Len(s) /\ t[i] = s[i - 1])
    BY PushElements
  <2> QED
    BY <2>1, PushProperties
<1> HIDE DEF t
<1>2. DOMAIN s = 1..Len(s) /\ DOMAIN t = 1..(Len(s) + 1) /\ t # <<>>
  BY <1>1, LenProperties, EmptySeq
<1>3. s = <<>> <=> Len(s) = 0
  BY EmptySeq
<1>4. ASSUME NEW i \in 1..(Len(s) + 1)
      PROVE  to[t[i]] = IF i = Len(t) THEN 0 ELSE t[i + 1]
  <2>1. CASE i = 1
    <3>1. CASE Len(s) = 0
      BY <1>1, <1>3, <2>1, <3>1 DEF IsChain
    <3>2. CASE Len(s) # 0
      <4>1. 1 \in 1..Len(s) /\ 1 # Len(t)
        BY <1>1, <3>2
      <4> QED
        BY <1>1, <1>3, <2>1, <3>2, <4>1 DEF IsChain
    <3> QED
      BY <3>1, <3>2
  <2>2. CASE i # 1
    <3>1. i - 1 \in 1..Len(s) /\ t[i] = s[i - 1] /\ (i - 1) + 1 = i
      BY <1>1, <2>2
    <3>2. to[t[i]] = IF i - 1 = Len(s) THEN 0 ELSE s[i]
      BY <1>2, <3>1 DEF IsChain
    <3>3. i - 1 = Len(s) <=> i = Len(t)
      BY <1>1
    <3>4. ASSUME i # Len(t) PROVE t[i + 1] = s[i]
      <4>1. i \in 1..Len(s)
        BY <1>1, <3>4
      <4> QED
        BY <1>1, <4>1
    <3> QED
      BY <3>2, <3>3, <3>4
  <2> QED
    BY <2>1, <2>2
<1>5. IsChain(to, f, t)
  BY <1>1, <1>2, <1>4 DEF IsChain
<1> QED
  BY <1>5 DEF t

\* An entry is put behind a chain, by a change of the last link.
LEMMA ChainAppend ==
  ASSUME NEW links, NEW e, NEW s \in Seq(Links), IsChain(links, e, s),
         NEW f \in Links, NEW to, to[f] = 0,
         \A i \in 1..Len(s) : to[s[i]] = IF i = Len(s) THEN f ELSE links[s[i]]
  PROVE  IsChain(to, IF s = <<>> THEN f ELSE e, Append(s, f))
<1> DEFINE t == Append(s, f)
<1>1. /\ t \in Seq(Links) /\ Len(t) = Len(s) + 1 /\ Len(s) \in Nat
      /\ t[Len(s) + 1] = f /\ \A i \in 1..Len(s) : t[i] = s[i]
  BY AppendProperties, LenProperties
<1> HIDE DEF t
<1>2. DOMAIN s = 1..Len(s) /\ DOMAIN t = 1..(Len(s) + 1) /\ t # <<>>
  BY <1>1, LenProperties, EmptySeq
<1>3. s = <<>> <=> Len(s) = 0
  BY EmptySeq
<1>4. ASSUME NEW i \in 1..(Len(s) + 1)
      PROVE  to[t[i]] = IF i = Len(t) THEN 0 ELSE t[i + 1]
  <2>1. CASE i = Len(s) + 1
    BY <1>1, <2>1
  <2>2. CASE i # Len(s) + 1
    <3>1. i \in 1..Len(s) /\ i # Len(t) /\ t[i] = s[i]
      BY <1>1, <2>2
    <3>2. CASE i = Len(s)
      BY <1>1, <3>1, <3>2
    <3>3. CASE i # Len(s)
      <4>1. i + 1 \in 1..Len(s)
        BY <1>1, <3>1, <3>3
      <4>2. links[s[i]] = IF i = Len(s) THEN 0 ELSE s[i + 1]
        BY <3>1 DEF IsChain
      <4>3. to[s[i]] = links[s[i]]
        BY <3>1, <3>3
      <4>4. t[i + 1] = s[i + 1]
        BY <1>1, <4>1
      <4> QED
        BY <3>1, <3>3, <4>2, <4>3, <4>4
    <3> QED
      BY <3>2, <3>3
  <2> QED
    BY <2>1, <2>2
<1>5. (IF s = <<>> THEN f ELSE e) = t[1]
  <2>1. CASE s = <<>>
    BY <1>1, <1>3, <2>1
  <2>2. CASE s # <<>>
    <3>1. 1 \in 1..Len(s)
      BY <1>1, <1>3, <2>2
    <3> QED
      BY <1>1, <2>2, <3>1 DEF IsChain
  <2> QED
    BY <2>1, <2>2
<1>6. IsChain(to, IF s = <<>> THEN f ELSE e, t)
  BY <1>1, <1>2, <1>4, <1>5 DEF IsChain
<1> QED
  BY <1>6 DEF t

LEMMA RemoveAtProperties ==
  ASSUME NEW S, NEW s \in Seq(S), NEW p \in 1..Len(s)
  PROVE  /\ RemoveAt(s, p) \in Seq(S) /\ Len(RemoveAt(s, p)) = Len(s) - 1
         /\ Len(s) - 1 \in Nat /\ Len(s) \in Nat
         /\ \A i \in 1..(Len(s) - 1) :
              RemoveAt(s, p)[i] = IF i < p THEN s[i] ELSE s[i + 1]
<1> DEFINE a == SubSeq(s, 1, p - 1)
           b == SubSeq(s, p + 1, Len(s))
           t == RemoveAt(s, p)
<1>1. Len(s) \in Nat /\ p \in Nat /\ Len(s) - 1 \in Nat /\ \A i \in 1..Len(s) : s[i] \in S
  <2>1. Len(s) \in Nat /\ \A i \in 1..Len(s) : s[i] \in S
    BY LenProperties, ElementOfSeq
  <2> QED
    BY <2>1
<1>2. a \in Seq(S) /\ Len(a) = p - 1 /\ \A i \in 1..(p - 1) : a[i] = s[i]
  <2>1. \A i \in 1..(p - 1) : s[i] \in S
    BY <1>1
  <2>2. /\ a \in Seq(S) /\ Len(a) = IF 1 <= p - 1 THEN p - 1 - 1 + 1 ELSE 0
        /\ \A i \in 1..(p - 1 - 1 + 1) : a[i] = s[1 + i - 1]
    BY <1>1, <2>1, SubSeqProperties
  <2> HIDE DEF a
  <2> QED
    BY <1>1, <2>2
<1>3. b \in Seq(S) /\ Len(b) = Len(s) - p /\ \A i \in 1..(Len(s) - p) : b[i] = s[p + i]
  <2>1. p \in 0..Len(s)
    BY <1>1
  <2> QED
    BY <2>1, AfterProperties DEF After
<1>4. t = a \o b
  BY DEF RemoveAt
<1> HIDE DEF a, b, t
<1>5. /\ t \in Seq(S) /\ Len(t) = Len(a) + Len(b)
      /\ \A i \in 1..(Len(a) + Len(b)) : t[i] = IF i <= Len(a) THEN a[i] ELSE b[i - Len(a)]
  BY <1>2, <1>3, <1>4, ConcatProperties
<1>6. Len(t) = Len(s) - 1 /\ Len(a) + Len(b) = Len(s) - 1
  BY <1>1, <1>2, <1>3, <1>5
<1>7. ASSUME NEW i \in 1..(Len(s) - 1)
      PROVE  t[i] = IF i < p THEN s[i] ELSE s[i + 1]
  <2>1. i \in Nat /\ t[i] = IF i <= p - 1 THEN a[i] ELSE b[i - (p - 1)]
    BY <1>1, <1>2, <1>5, <1>6
  <2>2. CASE i < p
    <3>1. i \in 1..(p - 1)
      BY <1>1, <2>2
    <3> QED
      BY <1>1, <1>2, <2>1, <2>2, <3>1
  <2>3. CASE ~ i < p
    <3>1. i - (p - 1) \in 1..(Len(s) - p) /\ p + (i - (p - 1)) = i + 1 /\ ~ i <= p - 1
      BY <1>1, <2>3
    <3> QED
      BY <1>3, <2>1, <2>3, <3>1
  <2> QED
    BY <2>2, <2>3
<1> QED
  BY <1>1, <1>5, <1>6, <1>7 DEF t

\* The entry at place p is taken out of a chain: the link that leads to it becomes
\* its own link.
LEMMA ChainRemove ==
  ASSUME NEW links, NEW e, NEW s \in Seq(Links), IsChain(links, e, s), NEW p \in 1..Len(s),
         NEW to,
         \A i \in 1..Len(s) :
           i # p => to[s[i]] = IF i = p - 1 THEN links[s[p]] ELSE links[s[i]]
  PROVE  IsChain(to, IF p = 1 THEN links[s[1]] ELSE e, RemoveAt(s, p))
<1> DEFINE t == RemoveAt(s, p)
           n == Len(s)
<1>1. /\ t \in Seq(Links) /\ Len(t) = n - 1 /\ n - 1 \in Nat /\ n \in Nat
      /\ \A i \in 1..(n - 1) : t[i] = IF i < p THEN s[i] ELSE s[i + 1]
  BY RemoveAtProperties
<1> HIDE DEF t
<1>2. DOMAIN s = 1..n /\ DOMAIN t = 1..(n - 1) /\ s # <<>>
  BY <1>1, LenProperties, EmptySeq
<1>3. \A i \in 1..n : links[s[i]] = IF i = n THEN 0 ELSE s[i + 1]
  BY <1>2 DEF IsChain
<1>4. t = <<>> <=> n = 1
  BY <1>1, EmptySeq
<1> HIDE DEF n
<1>5. p \in 1..n /\ p \in Nat
  BY <1>1 DEF n
<1>6. (IF p = 1 THEN links[s[1]] ELSE e) = IF t = <<>> THEN 0 ELSE t[1]
  <2>1. CASE n = 1
    <3>1. p = 1
      BY <1>5, <2>1
    <3> QED
      BY <1>3, <1>4, <1>5, <2>1, <3>1
  <2>2. CASE n # 1
    <3>1. 1 \in 1..(n - 1) /\ 1 \in 1..n
      BY <1>1, <2>2
    <3>2. t[1] = IF p = 1 THEN s[2] ELSE s[1]
      BY <1>1, <1>5, <3>1
    <3>3. e = s[1]
      BY <1>2 DEF IsChain
    <3> QED
      BY <1>3, <1>4, <2>2, <3>1, <3>2, <3>3
  <2> QED
    BY <2>1, <2>2
<1>7. ASSUME NEW i \in 1..(n - 1)
      PROVE  to[t[i]] = IF i = n - 1 THEN 0 ELSE t[i + 1]
  <2>1. i \in 1..n /\ i + 1 \in 1..n /\ i \in Nat /\ (i # n - 1 => i + 1 \in 1..(n - 1))
    BY <1>1
  <2>2. CASE i < p - 1
    <3>1. t[i] = s[i] /\ t[i + 1] = s[i + 1] /\ i # n - 1
      <4>1. i < p /\ i + 1 < p /\ i # n - 1
        BY <1>1, <1>5, <2>1, <2>2
      <4> QED
        BY <1>1, <2>1, <4>1
    <3>2. to[s[i]] = links[s[i]] /\ i # n
      BY <1>1, <1>5, <2>1, <2>2 DEF n
    <3> QED
      BY <1>3, <2>1, <3>1, <3>2
  <2>3. CASE i = p - 1
    <3>1. i < p /\ i # p /\ i + 1 = p
      BY <1>5, <2>1, <2>3
    <3>2. t[i] = s[i] /\ to[s[i]] = links[s[p]]
      BY <1>1, <2>1, <2>3, <3>1 DEF n
    <3>3. links[s[p]] = IF p = n THEN 0 ELSE s[p + 1]
      BY <1>3, <1>5
    <3>4. p = n <=> i = n - 1
      BY <1>1, <1>5, <2>1, <3>1
    <3>5. i # n - 1 => t[i + 1] = s[p + 1]
      <4>1. ~ (i + 1 < p) /\ i + 1 + 1 = p + 1
        BY <1>5, <3>1
      <4> QED
        BY <1>1, <2>1, <4>1
    <3> QED
      BY <3>2, <3>3, <3>4, <3>5
  <2>4. CASE i > p - 1
    <3>1. ~ i < p /\ ~ i + 1 < p /\ i + 1 # p /\ i + 1 # p - 1
      BY <1>5, <2>1, <2>4
    <3>2. t[i] = s[i + 1] /\ to[s[i + 1]] = links[s[i + 1]]
      BY <1>1, <2>1, <3>1 DEF n
    <3>3. links[s[i + 1]] = IF i + 1 = n THEN 0 ELSE s[i + 1 + 1]
      BY <1>3, <2>1
    <3>4. i + 1 = n <=> i = n - 1
      BY <1>1, <2>1
    <3>5. i # n - 1 => t[i + 1] = s[i + 1 + 1]
      BY <1>1, <2>1, <3>1
    <3> QED
      BY <3>2, <3>3, <3>4, <3>5
  <2> QED
    BY <1>5, <2>1, <2>2, <2>3, <2>4
<1>8. IsChain(to, IF p = 1 THEN links[s[1]] ELSE e, t)
  BY <1>1, <1>2, <1>6, <1>7 DEF IsChain
<1> QED
  BY <1>8 DEF t

-----------------------------------------------------------------------------
(* The inductive invariant *)

Entries == [key : Keys, val : Vals, next : Nat, before : Nat, after : Nat]

In(s, e) == \E i \in 1..Len(s) : s[i] = e

\* o are the entries in the order of their insertion, linked in both directions, and
\* no two of them have the same key.
Ordered(entries, fst, lst, o) ==
  /\ o \in Seq(1..Len(entries))
  /\ IsChain(afters(entries), fst, o)
  /\ lst = IF o = <<>> THEN 0 ELSE o[Len(o)]
  /\ \A i \in 1..Len(o) : entries[o[i]].before = IF i = 1 THEN 0 ELSE o[i - 1]
  /\ \A i, j \in 1..Len(o) : entries[o[i]].key = entries[o[j]].key => i = j

\* s is bucket i: the entries of o that belong to it.
BucketIs(entries, bks, o, i, s) ==
  /\ s \in Seq(1..Len(entries))
  /\ IsChain(nexts(entries), bks[i], s)
  /\ \A e \in 1..Len(entries) :
       In(s, e) <=> In(o, e) /\ indexOf(entries[e].key, Len(bks)) = i

Bucketed(entries, bks, o) ==
  \A i \in 1..Len(bks) : \E s : BucketIs(entries, bks, o, i, s)

Table(entries, bks) ==
  /\ hash \in [Keys -> Nat]
  /\ entries \in Seq(Entries)
  /\ bks \in Seq(Nat) /\ Len(bks) # 0

Sound(entries, bks, fst, lst, o) ==
  Table(entries, bks) /\ Ordered(entries, fst, lst, o) /\ Bucketed(entries, bks, o)

\* A do: is at an entry of the map, if none removes the entry that it is at.
AllIn(o, s) == s \in Seq(Nat) /\ \A i \in 1..Len(s) : In(o, s[i])

DosInv(o) == RemovesCurrent \/ AllIn(o, dos)

SoundMap(o) == Sound(entry, buckets, first, last, o) /\ size = Len(o) /\ DosInv(o)

IInv == \E o : SoundMap(o)

LEMMA TableLinks ==
  ASSUME NEW entries \in Seq(Entries)
  PROVE  /\ Len(entries) \in Nat /\ DOMAIN entries = 1..Len(entries)
         /\ \A e \in 1..Len(entries) : entries[e] \in Entries
         /\ DOMAIN nexts(entries) = 1..Len(entries) /\ Len(nexts(entries)) = Len(entries)
         /\ DOMAIN afters(entries) = 1..Len(entries) /\ Len(afters(entries)) = Len(entries)
         /\ \A e \in 1..Len(entries) :
              nexts(entries)[e] = entries[e].next /\ afters(entries)[e] = entries[e].after
<1> DEFINE n == Len(entries)
<1>1. n \in Nat /\ DOMAIN entries = 1..n /\ \A e \in 1..n : entries[e] \in Entries
  BY LenProperties, ElementOfSeq
<1>2. nexts(entries) = [e \in 1..n |-> entries[e].next]
  BY <1>1 DEF nexts
<1>3. afters(entries) = [e \in 1..n |-> entries[e].after]
  BY <1>1 DEF afters
<1> HIDE DEF n
<1>4. Len(nexts(entries)) = n /\ DOMAIN nexts(entries) = 1..n
  BY <1>1, <1>2
<1>5. Len(afters(entries)) = n /\ DOMAIN afters(entries) = 1..n
  BY <1>1, <1>3
<1> QED
  BY <1>1, <1>2, <1>3, <1>4, <1>5 DEF n

LEMMA IndexType ==
  ASSUME hash \in [Keys -> Nat], NEW k \in Keys, NEW n \in Nat \ {0}
  PROVE  indexOf(k, n) \in 1..n
<1>1. hash[k] \in Nat
  OBVIOUS
<1>2. hash[k] % n \in 0..(n - 1)
  BY <1>1
<1> QED
  BY <1>2 DEF indexOf

LEMMA LinksOf ==
  ASSUME NEW n \in Nat, NEW s \in Seq(1..n)
  PROVE  /\ s \in Seq(Links) /\ Len(s) \in Nat /\ DOMAIN s = 1..Len(s)
         /\ \A i \in 1..Len(s) : s[i] \in 1..n
<1>1. 1..n \subseteq Links
  BY DEF Links
<1> QED
  BY <1>1, SeqMonotonic, LenProperties, ElementOfSeq

\* What the walk through a bucket, and through the order, comes to.
LEMMA BucketChain ==
  ASSUME NEW entries, NEW bks, NEW fst, NEW lst, NEW o, Sound(entries, bks, fst, lst, o)
  PROVE  /\ \A i \in 1..Len(bks) :
              BucketIs(entries, bks, o, i, Chain(nexts(entries), bks[i]))
         /\ Chain(afters(entries), fst) = o
<1>1. entries \in Seq(Entries) /\ o \in Seq(1..Len(entries)) /\ IsChain(afters(entries), fst, o)
  BY DEF Sound, Table, Ordered
<1>2. ASSUME NEW i \in 1..Len(bks)
      PROVE  BucketIs(entries, bks, o, i, Chain(nexts(entries), bks[i]))
  <2>1. PICK s : BucketIs(entries, bks, o, i, s)
    BY DEF Sound, Bucketed
  <2>2. s \in Seq(1..Len(entries)) /\ IsChain(nexts(entries), bks[i], s)
    BY <2>1 DEF BucketIs
  <2>3. Chain(nexts(entries), bks[i]) = s
    BY <1>1, <2>2, TableLinks, ChainIs
  <2> QED
    BY <2>1, <2>3
<1>3. Chain(afters(entries), fst) = o
  BY <1>1, TableLinks, ChainIs
<1> QED
  BY <1>2, <1>3

\* The map has key k at place p of its order.
HasAt(o, k, p) == p \in 1..Len(o) /\ entry[o[p]].key = k

LEMMA FoundIs ==
  ASSUME NEW o, SoundMap(o), NEW k \in Keys
  PROVE  /\ Found(k) <=> \E p \in 1..Len(o) : HasAt(o, k, p)
         /\ \A p : HasAt(o, k, p) =>
              /\ EntryOf(k) = o[p] /\ Place(k) \in 1..Len(Bucket(k))
              /\ Bucket(k)[Place(k)] = o[p]
         /\ BucketIs(entry, buckets, o, indexOf(k, NumBuckets), Bucket(k))
         /\ indexOf(k, NumBuckets) \in 1..NumBuckets
<1> DEFINE i == indexOf(k, NumBuckets)
           b == Bucket(k)
<1>1. /\ Sound(entry, buckets, first, last, o) /\ entry \in Seq(Entries)
      /\ hash \in [Keys -> Nat] /\ NumBuckets = Len(buckets) /\ NumBuckets \in Nat \ {0}
  <2>1. buckets \in Seq(Nat) /\ Len(buckets) # 0
    BY DEF SoundMap, Sound, Table
  <2>2. Len(buckets) \in Nat
    BY <2>1, LenProperties
  <2> QED
    BY <2>1, <2>2 DEF SoundMap, Sound, Table, NumBuckets
<1>2. i \in 1..NumBuckets
  BY <1>1, IndexType
<1>3. BucketIs(entry, buckets, o, i, b)
  BY <1>1, <1>2, BucketChain DEF Bucket
<1> HIDE DEF i, b
<1>4. /\ Len(entry) \in Nat /\ b \in Seq(1..Len(entry)) /\ IsChain(nexts(entry), buckets[i], b)
      /\ \A e \in 1..Len(entry) : In(b, e) <=> In(o, e) /\ indexOf(entry[e].key, Len(buckets)) = i
  BY <1>1, <1>3, TableLinks DEF BucketIs
<1>5. /\ b \in Seq(Links) /\ Len(b) \in Nat /\ DOMAIN b = 1..Len(b)
      /\ \A j \in 1..Len(b) : b[j] \in 1..Len(entry)
  BY <1>4, LinksOf
<1>6. /\ o \in Seq(1..Len(entry)) /\ \A p \in 1..Len(o) : o[p] \in 1..Len(entry)
      /\ \A p, q \in 1..Len(o) : entry[o[p]].key = entry[o[q]].key => p = q
  <2>1. /\ o \in Seq(1..Len(entry))
        /\ \A p, q \in 1..Len(o) : entry[o[p]].key = entry[o[q]].key => p = q
    BY <1>1 DEF Sound, Ordered
  <2> QED
    BY <1>4, <2>1, LinksOf
<1>7. Places(k) = {j \in 1..Len(b) : entry[b[j]].key = k}
  BY <1>5 DEF Places, b
<1>8. ASSUME NEW j \in 1..Len(b), entry[b[j]].key = k
      PROVE  \E p \in 1..Len(o) : HasAt(o, k, p)
  <2>1. In(b, b[j]) /\ b[j] \in 1..Len(entry)
    BY <1>5 DEF In
  <2>2. In(o, b[j])
    BY <1>4, <2>1
  <2> QED
    BY <1>8, <2>2 DEF In, HasAt
<1>9. ASSUME NEW p, HasAt(o, k, p)
      PROVE  \E j \in 1..Len(b) : b[j] = o[p] /\ Places(k) = {j}
  <2>1. p \in 1..Len(o) /\ entry[o[p]].key = k /\ o[p] \in 1..Len(entry)
    BY <1>6, <1>9 DEF HasAt
  <2>2. In(o, o[p]) /\ indexOf(entry[o[p]].key, Len(buckets)) = i
    BY <1>1, <2>1 DEF In, i
  <2>3. In(b, o[p])
    BY <1>4, <2>1, <2>2
  <2>4. PICK j \in 1..Len(b) : b[j] = o[p]
    BY <2>3 DEF In
  <2>5. ASSUME NEW l \in 1..Len(b), entry[b[l]].key = k PROVE l = j
    <3>1. In(b, b[l]) /\ b[l] \in 1..Len(entry)
      BY <1>5 DEF In
    <3>2. PICK q \in 1..Len(o) : o[q] = b[l]
      BY <1>4, <3>1 DEF In
    <3>3. q = p
      BY <1>6, <2>1, <2>5, <3>2
    <3>4. b[l] = b[j]
      BY <2>4, <3>2, <3>3
    <3> QED
      BY <1>4, <1>5, <3>4, ChainDistinct
  <2>6. Places(k) = {j}
    BY <1>7, <2>1, <2>4, <2>5
  <2> QED
    BY <2>4, <2>6
<1>10. Found(k) <=> \E p \in 1..Len(o) : HasAt(o, k, p)
  BY <1>7, <1>8, <1>9 DEF Found
<1>11. ASSUME NEW p, HasAt(o, k, p)
       PROVE  EntryOf(k) = o[p] /\ Place(k) \in 1..Len(b) /\ b[Place(k)] = o[p]
  <2>1. PICK j \in 1..Len(b) : b[j] = o[p] /\ Places(k) = {j}
    BY <1>9, <1>11
  <2>2. Place(k) = j
    <3>1. j <= j
      BY <1>5
    <3> QED
      BY <2>1, <3>1 DEF Place
  <2> QED
    BY <2>1, <2>2 DEF EntryOf, b
<1> QED
  BY <1>2, <1>3, <1>10, <1>11 DEF i, b

\* The invariant says what SameEntries says.
LEMMA SoundSame == IInv => SameEntries
<1> SUFFICES ASSUME NEW o, SoundMap(o), NEW i \in 1..NumBuckets
             PROVE  ToSet(Chain(nexts(entry), buckets[i])) =
                      {e \in ToSet(Order(first)) : indexOf(entry[e].key, NumBuckets) = i}
  BY DEF IInv, SameEntries
<1> DEFINE b == Chain(nexts(entry), buckets[i])
<1>1. /\ Sound(entry, buckets, first, last, o) /\ entry \in Seq(Entries)
      /\ o \in Seq(1..Len(entry)) /\ i \in 1..Len(buckets)
  BY DEF SoundMap, Sound, Table, Ordered, NumBuckets
<1>2. BucketIs(entry, buckets, o, i, b) /\ Order(first) = o
  BY <1>1, BucketChain DEF Order
<1> HIDE DEF b
<1>3. /\ b \in Seq(1..Len(entry))
      /\ \A e \in 1..Len(entry) :
           In(b, e) <=> In(o, e) /\ indexOf(entry[e].key, Len(buckets)) = i
  BY <1>2 DEF BucketIs
<1>4. /\ DOMAIN b = 1..Len(b) /\ \A j \in 1..Len(b) : b[j] \in 1..Len(entry)
      /\ DOMAIN o = 1..Len(o) /\ \A j \in 1..Len(o) : o[j] \in 1..Len(entry)
  <2>1. Len(entry) \in Nat
    BY <1>1, LenProperties
  <2> QED
    BY <1>1, <1>3, <2>1, LinksOf
<1>5. \A e : e \in ToSet(b) <=> In(b, e) /\ e \in 1..Len(entry)
  BY <1>4 DEF ToSet, In
<1>6. \A e : e \in ToSet(o) <=> In(o, e) /\ e \in 1..Len(entry)
  BY <1>4 DEF ToSet, In
<1>7. \A e : e \in ToSet(b) <=> e \in {e1 \in ToSet(o) : indexOf(entry[e1].key, NumBuckets) = i}
  BY <1>3, <1>5, <1>6 DEF NumBuckets
<1> HIDE DEF NumBuckets
<1> QED
  BY <1>2, <1>7 DEF b
-----------------------------------------------------------------------------
(* Grow *)

\* No entry has two places in the chains, n of them, of N entries.
Apart(chains, n, N) ==
  /\ n \in Nat /\ N \in Nat /\ DOMAIN chains = 1..n
  /\ \A i \in 1..n : chains[i] \in Seq(1..N)
  /\ \A i, j \in 1..n : \A l \in 1..Len(chains[i]), m \in 1..Len(chains[j]) :
       chains[i][l] = chains[j][m] => i = j /\ l = m

Reached(chains) == UNION {ToSet(chains[i]) : i \in DOMAIN chains}

IsPlace(chains, e, i, l) ==
  i \in DOMAIN chains /\ l \in 1..Len(chains[i]) /\ chains[i][l] = e

Precedes(i, l, j, m) == i < j \/ (i = j /\ l < m)

LEMMA PlaceOf ==
  ASSUME NEW chains, NEW n, NEW N, Apart(chains, n, N)
  PROVE  /\ \A e \in Reached(chains) : \E i, l : IsPlace(chains, e, i, l)
         /\ \A e, i, l : IsPlace(chains, e, i, l) =>
              e \in Reached(chains) /\ e \in 1..N /\ i \in Nat /\ l \in Nat
         /\ \A e, i, l, j, m :
              IsPlace(chains, e, i, l) /\ IsPlace(chains, e, j, m) => i = j /\ l = m
         /\ \A e, f : Before(chains, e, f) <=>
              \E i, l, j, m : /\ IsPlace(chains, e, i, l) /\ IsPlace(chains, f, j, m)
                              /\ Precedes(i, l, j, m)
<1>1. /\ n \in Nat /\ N \in Nat /\ DOMAIN chains = 1..n
      /\ \A i \in 1..n : chains[i] \in Seq(1..N)
  BY DEF Apart
<1>2. ASSUME NEW i \in 1..n
      PROVE  /\ Len(chains[i]) \in Nat /\ DOMAIN chains[i] = 1..Len(chains[i])
             /\ \A l \in 1..Len(chains[i]) : chains[i][l] \in 1..N
  BY <1>1, LinksOf
<1>3. ASSUME NEW e \in Reached(chains) PROVE \E i, l : IsPlace(chains, e, i, l)
  <2>1. PICK i \in 1..n : e \in ToSet(chains[i])
    BY <1>1 DEF Reached
  <2> QED
    BY <1>1, <1>2, <2>1 DEF IsPlace, ToSet
<1>4. ASSUME NEW e, NEW i, NEW l, IsPlace(chains, e, i, l)
      PROVE  e \in Reached(chains) /\ e \in 1..N /\ i \in Nat /\ l \in Nat
  <2>1. i \in 1..n /\ l \in 1..Len(chains[i]) /\ chains[i][l] = e
    BY <1>1, <1>4 DEF IsPlace
  <2>2. e \in ToSet(chains[i]) /\ e \in 1..N
    BY <1>2, <2>1 DEF ToSet
  <2>3. e \in Reached(chains)
    BY <1>1, <2>1, <2>2 DEF Reached
  <2>4. i \in Nat /\ l \in Nat
    BY <1>1, <1>2, <2>1
  <2> QED
    BY <2>2, <2>3, <2>4
<1>5. ASSUME NEW e, NEW i, NEW l, NEW j, NEW m,
             IsPlace(chains, e, i, l), IsPlace(chains, e, j, m)
      PROVE  i = j /\ l = m
  BY <1>1, <1>5 DEF IsPlace, Apart
<1>6. ASSUME NEW e, NEW f
      PROVE  Before(chains, e, f) <=>
               \E i, l, j, m : /\ IsPlace(chains, e, i, l) /\ IsPlace(chains, f, j, m)
                               /\ Precedes(i, l, j, m)
  <2>1. \A i \in 1..n : DOMAIN chains[i] = 1..Len(chains[i])
    BY <1>2
  <2>2. ASSUME Before(chains, e, f)
        PROVE  \E i, l, j, m : /\ IsPlace(chains, e, i, l) /\ IsPlace(chains, f, j, m)
                               /\ Precedes(i, l, j, m)
    BY <1>1, <2>1, <2>2, Zenon DEF Before, IsPlace, Precedes
  <2>3. ASSUME NEW i, NEW l, NEW j, NEW m, IsPlace(chains, e, i, l),
               IsPlace(chains, f, j, m), Precedes(i, l, j, m)
        PROVE  Before(chains, e, f)
    BY <1>1, <2>1, <2>3, Zenon DEF Before, IsPlace, Precedes
  <2> QED
    BY <2>2, <2>3
<1> QED
  BY <1>3, <1>4, <1>5, <1>6

\* Grow comes to the entries of the table one after the other.
LEMMA BeforeOrders ==
  ASSUME NEW chains, NEW n, NEW N, Apart(chains, n, N)
  PROVE  /\ \A e : ~ Before(chains, e, e)
         /\ \A e, f, g : Before(chains, e, f) /\ Before(chains, f, g) => Before(chains, e, g)
         /\ \A e, f \in Reached(chains) : e = f \/ Before(chains, e, f) \/ Before(chains, f, e)
<1>1. ASSUME NEW e, Before(chains, e, e) PROVE FALSE
  <2>1. PICK i, l, j, m : /\ IsPlace(chains, e, i, l) /\ IsPlace(chains, e, j, m)
                          /\ Precedes(i, l, j, m)
    BY <1>1, PlaceOf
  <2>2. i = j /\ l = m /\ i \in Nat /\ l \in Nat
    BY <2>1, PlaceOf
  <2> QED
    BY <2>1, <2>2 DEF Precedes
<1>2. ASSUME NEW e, NEW f, NEW g, Before(chains, e, f), Before(chains, f, g)
      PROVE  Before(chains, e, g)
  <2>1. PICK i, l, j, m : /\ IsPlace(chains, e, i, l) /\ IsPlace(chains, f, j, m)
                          /\ Precedes(i, l, j, m)
    BY <1>2, PlaceOf
  <2>2. PICK j1, m1, k, p : /\ IsPlace(chains, f, j1, m1) /\ IsPlace(chains, g, k, p)
                            /\ Precedes(j1, m1, k, p)
    BY <1>2, PlaceOf
  <2>3. j1 = j /\ m1 = m
    BY <2>1, <2>2, PlaceOf
  <2>4. i \in Nat /\ l \in Nat /\ j \in Nat /\ m \in Nat /\ k \in Nat /\ p \in Nat
    BY <2>1, <2>2, PlaceOf
  <2>5. Precedes(i, l, k, p)
    BY <2>1, <2>2, <2>3, <2>4 DEF Precedes
  <2> QED
    BY <2>1, <2>2, <2>5, PlaceOf
<1>3. ASSUME NEW e \in Reached(chains), NEW f \in Reached(chains)
      PROVE  e = f \/ Before(chains, e, f) \/ Before(chains, f, e)
  <2>1. PICK i, l : IsPlace(chains, e, i, l)
    BY PlaceOf
  <2>2. PICK j, m : IsPlace(chains, f, j, m)
    BY PlaceOf
  <2>3. i \in Nat /\ l \in Nat /\ j \in Nat /\ m \in Nat
    BY <2>1, <2>2, PlaceOf
  <2>4. Precedes(i, l, j, m) \/ Precedes(j, m, i, l) \/ (i = j /\ l = m)
    BY <2>3 DEF Precedes
  <2>5. CASE i = j /\ l = m
    BY <2>1, <2>2, <2>5 DEF IsPlace
  <2>6. CASE Precedes(i, l, j, m)
    BY <2>1, <2>2, <2>6, PlaceOf
  <2>7. CASE Precedes(j, m, i, l)
    BY <2>1, <2>2, <2>7, PlaceOf
  <2> QED
    BY <2>4, <2>5, <2>6, <2>7
<1> QED
  BY <1>1, <1>2, <1>3

LEMMA LastIs ==
  ASSUME NEW chains, NEW n, NEW N, Apart(chains, n, N),
         NEW S, NEW e \in S, \A f \in S : f = e \/ Before(chains, f, e)
  PROVE  LastOf(chains, S) = e
<1>1. ASSUME NEW d \in S, \A f \in S : f = d \/ Before(chains, f, d) PROVE d = e
  <2>1. ~ (Before(chains, e, d) /\ Before(chains, d, e))
    <3>1. ASSUME Before(chains, e, d), Before(chains, d, e) PROVE Before(chains, e, e)
      BY <3>1, BeforeOrders
    <3>2. ~ Before(chains, e, e)
      BY BeforeOrders
    <3> QED
      BY <3>1, <3>2
  <2> QED
    BY <1>1, <2>1
<1> QED
  BY <1>1 DEF LastOf

\* The entries that belong to a bucket, the last that grow comes to first, linked.
LEMMA NewBucket ==
  ASSUME NEW chains, NEW n, NEW N, Apart(chains, n, N), NEW S \in SUBSET Reached(chains)
  PROVE  \E s : /\ s \in Seq(S) /\ \A e \in S : In(s, e)
                /\ LastOf(chains, S) = IF s = <<>> THEN 0 ELSE s[1]
                /\ \A i \in 1..Len(s) :
                     LastOf(chains, {f \in S : Before(chains, f, s[i])}) =
                       IF i = Len(s) THEN 0 ELSE s[i + 1]
<1> DEFINE R == {r \in S \X S : Before(chains, r[2], r[1])}
<1>1. \A e, f \in S : <<e, f>> \in R <=> Before(chains, f, e)
  OBVIOUS
<1> HIDE DEF R
<1>2. Orders(R, S)
  <2>1. \A e \in S : e \in Reached(chains)
    OBVIOUS
  <2>2. \A e \in S : <<e, e>> \notin R
    BY <1>1, BeforeOrders
  <2>3. ASSUME NEW e \in S, NEW f \in S, NEW g \in S, <<e, f>> \in R, <<f, g>> \in R
        PROVE  <<e, g>> \in R
    <3>1. Before(chains, f, e) /\ Before(chains, g, f)
      BY <1>1, <2>3
    <3>2. Before(chains, g, e)
      BY <3>1, BeforeOrders
    <3> QED
      BY <1>1, <3>2
  <2>4. ASSUME NEW e \in S, NEW f \in S
        PROVE  e = f \/ <<e, f>> \in R \/ <<f, e>> \in R
    <3>1. e = f \/ Before(chains, e, f) \/ Before(chains, f, e)
      BY <2>1, BeforeOrders
    <3> QED
      BY <1>1, <3>1
  <2> QED
    BY <2>2, <2>3, <2>4 DEF Orders
<1>3. IsFiniteSet(S)
  <2>1. S \subseteq 1..N
    <3>1. ASSUME NEW e \in S PROVE e \in 1..N
      <4>1. \E i, l : IsPlace(chains, e, i, l)
        BY PlaceOf
      <4> QED
        BY <4>1, PlaceOf
    <3> QED
      BY <3>1
  <2>2. IsFiniteSet(1..N)
    BY FS_Interval DEF Apart
  <2> QED
    BY <2>1, <2>2, FS_Subset
<1>4. PICK s : Lists(s, S, R)
  BY <1>2, <1>3, Listing
<1>5. s \in Seq(S) /\ Len(s) \in Nat /\ \A i \in 1..Len(s) : s[i] \in S
  <2>1. s \in Seq(S)
    BY <1>4 DEF Lists
  <2> QED
    BY <2>1, LenProperties, ElementOfSeq
<1>6. \A e \in S : In(s, e)
  BY <1>4 DEF Lists, In
<1>7. \A i, j \in 1..Len(s) : i < j => Before(chains, s[j], s[i])
  BY <1>1, <1>4, <1>5 DEF Lists
<1>8. s = <<>> <=> Len(s) = 0
  BY <1>5, EmptySeq
<1>9. LastOf(chains, S) = IF s = <<>> THEN 0 ELSE s[1]
  <2>1. CASE s = <<>>
    <3>1. S = {}
      BY <1>5, <1>6, <1>8, <2>1 DEF In
    <3> QED
      BY <2>1, <3>1 DEF LastOf
  <2>2. CASE s # <<>>
    <3>1. 1 \in 1..Len(s) /\ s[1] \in S
      BY <1>5, <1>8, <2>2
    <3>2. ASSUME NEW f \in S PROVE f = s[1] \/ Before(chains, f, s[1])
      <4>1. PICK j \in 1..Len(s) : s[j] = f
        BY <1>6 DEF In
      <4>2. j = 1 \/ 1 < j
        BY <1>5
      <4> QED
        BY <1>7, <3>1, <4>1, <4>2
    <3>3. LastOf(chains, S) = s[1]
      BY <3>1, <3>2, LastIs
    <3> QED
      BY <2>2, <3>3
  <2> QED
    BY <2>1, <2>2
<1>10. ASSUME NEW i \in 1..Len(s)
       PROVE  LastOf(chains, {f \in S : Before(chains, f, s[i])}) =
                IF i = Len(s) THEN 0 ELSE s[i + 1]
  <2> DEFINE T == {f \in S : Before(chains, f, s[i])}
  <2>1. \A f \in T : f \in S /\ Before(chains, f, s[i])
    OBVIOUS
  <2>2. \A f \in S : Before(chains, f, s[i]) => f \in T
    OBVIOUS
  <2> HIDE DEF T
  <2>3. ASSUME NEW f \in T PROVE \E j \in 1..Len(s) : f = s[j] /\ i < j
    <3>1. PICK j \in 1..Len(s) : s[j] = f
      BY <1>6, <2>1 DEF In
    <3>2. j # i
      BY <2>1, <3>1, BeforeOrders
    <3>3. ASSUME j < i PROVE FALSE
      <4>1. Before(chains, s[i], f) /\ Before(chains, f, s[i])
        BY <1>7, <2>1, <3>1, <3>3
      <4>2. Before(chains, f, f)
        BY <4>1, BeforeOrders
      <4> QED
        BY <4>2, BeforeOrders
    <3>4. i < j
      BY <1>5, <3>2, <3>3
    <3> QED
      BY <3>1, <3>4
  <2>4. CASE i = Len(s)
    <3>1. T = {}
      BY <1>5, <2>3, <2>4
    <3> QED
      BY <2>4, <3>1 DEF LastOf, T
  <2>5. CASE i # Len(s)
    <3>1. i + 1 \in 1..Len(s) /\ i < i + 1
      BY <1>5, <2>5
    <3>2. s[i + 1] \in T
      BY <1>5, <1>7, <2>2, <3>1
    <3>3. ASSUME NEW f \in T PROVE f = s[i + 1] \/ Before(chains, f, s[i + 1])
      <4>1. PICK j \in 1..Len(s) : f = s[j] /\ i < j
        BY <2>3
      <4>2. j = i + 1 \/ i + 1 < j
        BY <1>5, <4>1
      <4> QED
        BY <1>7, <3>1, <4>1, <4>2
    <3>4. LastOf(chains, T) = s[i + 1]
      BY <3>2, <3>3, LastIs
    <3> QED
      BY <2>5, <3>4 DEF T
  <2> QED
    BY <2>4, <2>5
<1> QED
  BY <1>5, <1>6, <1>9, <1>10

\* The order does not depend on the links of the buckets and on the values.
SameBut(entries, to) ==
  /\ to \in Seq(Entries) /\ Len(to) = Len(entries)
  /\ \A e \in 1..Len(entries) :
       /\ to[e].key = entries[e].key
       /\ to[e].before = entries[e].before /\ to[e].after = entries[e].after

LEMMA OrderedSame ==
  ASSUME NEW entries \in Seq(Entries), NEW fst, NEW lst, NEW o,
         Ordered(entries, fst, lst, o), NEW to, SameBut(entries, to)
  PROVE  Ordered(to, fst, lst, o)
<1>1. o \in Seq(1..Len(entries)) /\ Len(to) = Len(entries) /\ Len(entries) \in Nat
  BY LenProperties DEF Ordered, SameBut
<1>2. /\ DOMAIN o = 1..Len(o) /\ Len(o) \in Nat
      /\ \A i \in 1..Len(o) : o[i] \in 1..Len(entries)
  BY <1>1, LinksOf
<1>3. \A e \in 1..Len(entries) : afters(to)[e] = afters(entries)[e]
  <2>1. to \in Seq(Entries)
    BY DEF SameBut
  <2> QED
    BY <1>1, <2>1, TableLinks DEF SameBut
<1>4. IsChain(afters(to), fst, o)
  <2>1. IsChain(afters(entries), fst, o)
    BY DEF Ordered
  <2>2. \A i \in 1..Len(o) : afters(to)[o[i]] = afters(entries)[o[i]]
    BY <1>2, <1>3
  <2> QED
    BY <1>2, <2>1, <2>2 DEF IsChain
<1>5. \A i \in 1..Len(o) : to[o[i]].before = IF i = 1 THEN 0 ELSE o[i - 1]
  <2>1. \A i \in 1..Len(o) : entries[o[i]].before = IF i = 1 THEN 0 ELSE o[i - 1]
    BY DEF Ordered
  <2>2. \A i \in 1..Len(o) : to[o[i]].before = entries[o[i]].before
    BY <1>2 DEF SameBut
  <2> QED
    BY <2>1, <2>2
<1>6. \A i, j \in 1..Len(o) : to[o[i]].key = to[o[j]].key => i = j
  BY <1>2 DEF Ordered, SameBut
<1> QED
  BY <1>1, <1>4, <1>5, <1>6 DEF Ordered

ChainsOf(entries, bks) == [i \in DOMAIN bks |-> Chain(nexts(entries), bks[i])]

\* The buckets of a sound table have no entry in common, and have all of the order.
LEMMA BucketsApart ==
  ASSUME NEW entries, NEW bks, NEW fst, NEW lst, NEW o, Sound(entries, bks, fst, lst, o)
  PROVE  /\ Apart(ChainsOf(entries, bks), Len(bks), Len(entries))
         /\ \A e : e \in Reached(ChainsOf(entries, bks)) <=> In(o, e)
<1> DEFINE c == ChainsOf(entries, bks)
           n == Len(bks)
           N == Len(entries)
           b(i) == Chain(nexts(entries), bks[i])
<1>1. /\ entries \in Seq(Entries) /\ N \in Nat /\ n \in Nat /\ n # 0 /\ DOMAIN bks = 1..n
      /\ hash \in [Keys -> Nat] /\ o \in Seq(1..N)
  <2>1. /\ entries \in Seq(Entries) /\ bks \in Seq(Nat) /\ n # 0
        /\ hash \in [Keys -> Nat] /\ o \in Seq(1..N)
    BY DEF Sound, Table, Ordered
  <2> QED
    BY <2>1, LenProperties
<1>2. DOMAIN c = 1..n /\ \A i \in 1..n : c[i] = b(i)
  BY <1>1 DEF ChainsOf
<1>3. \A i \in 1..n : BucketIs(entries, bks, o, i, c[i])
  <2>1. \A i \in 1..n : BucketIs(entries, bks, o, i, b(i))
    BY BucketChain
  <2> HIDE DEF c, b
  <2> QED
    BY <1>2, <2>1
<1> HIDE DEF c, b
<1>4. ASSUME NEW i \in 1..n
      PROVE  /\ c[i] \in Seq(1..N) /\ c[i] \in Seq(Links) /\ Len(c[i]) \in Nat
             /\ DOMAIN c[i] = 1..Len(c[i]) /\ \A l \in 1..Len(c[i]) : c[i][l] \in 1..N
             /\ IsChain(nexts(entries), bks[i], c[i])
             /\ \A e \in 1..N : In(c[i], e) <=> In(o, e) /\ indexOf(entries[e].key, n) = i
  <2>1. /\ c[i] \in Seq(1..N) /\ IsChain(nexts(entries), bks[i], c[i])
        /\ \A e \in 1..N : In(c[i], e) <=> In(o, e) /\ indexOf(entries[e].key, n) = i
    BY <1>3 DEF BucketIs
  <2> QED
    BY <1>1, <2>1, LinksOf
<1>5. ASSUME NEW i \in 1..n, NEW j \in 1..n, NEW l \in 1..Len(c[i]), NEW m \in 1..Len(c[j]),
             c[i][l] = c[j][m]
      PROVE  i = j /\ l = m
  <2>1. In(c[i], c[i][l]) /\ In(c[j], c[i][l]) /\ c[i][l] \in 1..N
    BY <1>4, <1>5 DEF In
  <2>2. i = j
    BY <1>4, <2>1
  <2>3. m \in 1..Len(c[i]) /\ c[i][l] = c[i][m]
    BY <1>5, <2>2
  <2>4. c[i] \in Seq(Links) /\ IsChain(nexts(entries), bks[i], c[i])
    BY <1>4
  <2>5. l = m
    BY <2>3, <2>4, ChainDistinct
  <2> QED
    BY <2>2, <2>5
<1>6. Apart(c, n, N)
  BY <1>1, <1>2, <1>4, <1>5 DEF Apart
<1>7. ASSUME NEW e PROVE e \in Reached(c) <=> In(o, e)
  <2>1. ASSUME e \in Reached(c) PROVE In(o, e)
    <3>1. PICK i, l : IsPlace(c, e, i, l)
      BY <1>6, <2>1, PlaceOf
    <3>2. i \in 1..n /\ l \in 1..Len(c[i]) /\ c[i][l] = e
      BY <1>2, <3>1 DEF IsPlace
    <3>3. In(c[i], e) /\ e \in 1..N
      BY <1>4, <3>2 DEF In
    <3> QED
      BY <1>4, <3>2, <3>3
  <2>2. ASSUME In(o, e) PROVE e \in Reached(c)
    <3>1. e \in 1..N
      BY <1>1, <2>2, LinksOf DEF In
    <3>2. entries[e].key \in Keys
      BY <1>1, <3>1, TableLinks DEF Entries
    <3>3. indexOf(entries[e].key, n) \in 1..n
      BY <1>1, <3>2, IndexType
    <3>4. In(c[indexOf(entries[e].key, n)], e)
      BY <1>4, <2>2, <3>1, <3>3
    <3>5. PICK l : IsPlace(c, e, indexOf(entries[e].key, n), l)
      BY <1>2, <3>3, <3>4 DEF In, IsPlace
    <3> QED
      BY <1>6, <3>5, PlaceOf
  <2> QED
    BY <2>1, <2>2
<1> QED
  BY <1>6, <1>7 DEF c

\* Grow keeps the table sound.
LEMMA RehashSound ==
  ASSUME NEW entries, NEW bks, NEW fst, NEW lst, NEW o, Sound(entries, bks, fst, lst, o)
  PROVE  /\ Sound(Rehash(entries, bks).entry, Rehash(entries, bks).buckets, fst, lst, o)
         /\ SameBut(entries, Rehash(entries, bks).entry)
         /\ \A e \in 1..Len(entries) : Rehash(entries, bks).entry[e].val = entries[e].val
<1> DEFINE c == ChainsOf(entries, bks)
           n == Len(bks)
           N == Len(entries)
           old == Reached(c)
           index(e) == indexOf(entries[e].key, 2 * n)
           B(i) == {e \in old : index(e) = i}
           next(e) == LastOf(c, {f \in B(index(e)) : Before(c, f, e)})
           to == Rehash(entries, bks).entry
           tb == Rehash(entries, bks).buckets
<1>1. /\ entries \in Seq(Entries) /\ N \in Nat /\ n \in Nat /\ 2 * n \in Nat \ {0}
      /\ DOMAIN entries = 1..N /\ \A e \in 1..N : entries[e] \in Entries
      /\ hash \in [Keys -> Nat] /\ o \in Seq(1..N)
  <2>1. /\ entries \in Seq(Entries) /\ bks \in Seq(Nat) /\ n # 0
        /\ hash \in [Keys -> Nat] /\ o \in Seq(1..N)
    BY DEF Sound, Table, Ordered
  <2>2. n \in Nat
    BY <2>1, LenProperties
  <2>3. 2 * n \in Nat \ {0}
    BY <2>1, <2>2
  <2> QED
    BY <2>1, <2>2, <2>3, LenProperties, ElementOfSeq
<1>2. /\ to = [e \in DOMAIN entries |->
                 IF e \in old THEN [entries[e] EXCEPT !.next = next(e)] ELSE entries[e]]
      /\ tb = [i \in 1..2 * n |-> LastOf(c, B(i))]
  BY DEF Rehash, ChainsOf, Reached
<1>3. Apart(c, n, N) /\ \A e : e \in old <=> In(o, e)
  BY BucketsApart
<1>4. \A e : e \in old => e \in 1..N
  <2>1. ASSUME NEW e \in old PROVE e \in 1..N
    <3>1. \E i, l : IsPlace(c, e, i, l)
      BY <1>3, PlaceOf
    <3> HIDE DEF c
    <3> QED
      BY <1>3, <3>1, PlaceOf
  <2> QED
    BY <2>1
<1> HIDE DEF c, old, n, N, to, tb
<1>5. \A i : B(i) \in SUBSET old
  OBVIOUS
<1>6. \A S \in SUBSET old : LastOf(c, S) \in Nat
  <2> SUFFICES ASSUME NEW S \in SUBSET old PROVE LastOf(c, S) \in Nat
    OBVIOUS
  <2>1. PICK s : s \in Seq(S) /\ LastOf(c, S) = IF s = <<>> THEN 0 ELSE s[1]
    BY <1>3, NewBucket DEF old
  <2>2. CASE s = <<>>
    BY <2>1, <2>2
  <2>3. CASE s # <<>>
    <3>1. Len(s) \in Nat /\ Len(s) # 0
      BY <2>1, <2>3, EmptySeq, LenProperties
    <3>2. s[1] \in S
      BY <2>1, <3>1, ElementOfSeq
    <3>3. s[1] \in Nat
      BY <1>1, <1>4, <3>2
    <3> QED
      BY <2>1, <2>3, <3>3
  <2> QED
    BY <2>2, <2>3
<1>7. \A e \in old : next(e) \in Nat
  <2>1. \A e : {f \in B(index(e)) : Before(c, f, e)} \in SUBSET old
    OBVIOUS
  <2> QED
    BY <1>6, <2>1
<1>8. \A i \in 1..2 * n : LastOf(c, B(i)) \in Nat
  BY <1>5, <1>6
<1> HIDE DEF B, index, next
<1>9. ASSUME NEW e \in 1..N
      PROVE  /\ to[e] \in Entries /\ to[e].key = entries[e].key /\ to[e].val = entries[e].val
             /\ to[e].before = entries[e].before /\ to[e].after = entries[e].after
             /\ e \in old => to[e].next = next(e)
  <2>1. entries[e] \in Entries
    BY <1>1
  <2>2. CASE e \in old
    <3>1. to[e] = [entries[e] EXCEPT !.next = next(e)] /\ next(e) \in Nat
      BY <1>1, <1>2, <1>7, <2>2
    <3> QED
      BY <2>1, <3>1 DEF Entries
  <2>3. CASE e \notin old
    BY <1>1, <1>2, <2>1, <2>3
  <2> QED
    BY <2>2, <2>3
<1>10. to \in Seq(Entries) /\ Len(to) = N
  <2>1. DOMAIN to = 1..N /\ to = [e \in 1..N |-> to[e]]
    BY <1>1, <1>2
  <2>2. Len(to) = N
    BY <1>1, <2>1
  <2>3. to \in [1..N -> Entries]
    BY <1>9, <2>1
  <2> QED
    BY <1>1, <2>2, <2>3
<1>11. tb \in Seq(Nat) /\ Len(tb) = 2 * n /\ \A i \in 1..2 * n : tb[i] = LastOf(c, B(i))
  <2>1. 2 * n \in Nat
    BY <1>1
  <2>2. tb \in [1..2 * n -> Nat] /\ \A i \in 1..2 * n : tb[i] = LastOf(c, B(i))
    BY <1>2, <1>8
  <2> QED
    BY <1>2, <2>1, <2>2
<1>12. SameBut(entries, to)
  BY <1>9, <1>10 DEF SameBut, N
<1>13. Table(to, tb)
  <2>1. 2 * n # 0
    BY <1>1
  <2> QED
    BY <1>1, <1>10, <1>11, <2>1 DEF Table
<1>14. Ordered(to, fst, lst, o)
  BY <1>1, <1>12, OrderedSame DEF Sound
<1>15. ASSUME NEW i \in 1..2 * n PROVE \E s : BucketIs(to, tb, o, i, s)
  <2>1. B(i) \in SUBSET Reached(c) /\ \A e : e \in B(i) <=> e \in old /\ index(e) = i
    BY DEF B, old
  <2>2. PICK s :
          /\ s \in Seq(B(i)) /\ \A e \in B(i) : In(s, e)
          /\ LastOf(c, B(i)) = IF s = <<>> THEN 0 ELSE s[1]
          /\ \A j \in 1..Len(s) :
               LastOf(c, {f \in B(i) : Before(c, f, s[j])}) =
                 IF j = Len(s) THEN 0 ELSE s[j + 1]
    BY <1>3, <2>1, NewBucket
  <2>3. /\ s \in Seq(1..N) /\ Len(s) \in Nat /\ DOMAIN s = 1..Len(s)
        /\ \A j \in 1..Len(s) : s[j] \in B(i)
    <3>1. B(i) \subseteq 1..N
      BY <1>4, <2>1
    <3> QED
      BY <2>2, <3>1, SeqMonotonic, LenProperties, ElementOfSeq
  <2>4. ASSUME NEW j \in 1..Len(s)
        PROVE  nexts(to)[s[j]] = IF j = Len(s) THEN 0 ELSE s[j + 1]
    <3>1. s[j] \in old /\ index(s[j]) = i /\ s[j] \in 1..N
      BY <1>4, <2>1, <2>3
    <3>2. nexts(to)[s[j]] = to[s[j]].next
      BY <1>10, <3>1, TableLinks
    <3>3. to[s[j]].next = LastOf(c, {f \in B(i) : Before(c, f, s[j])})
      BY <1>9, <3>1 DEF next
    <3> QED
      BY <2>2, <3>2, <3>3
  <2>5. IsChain(nexts(to), tb[i], s)
    BY <1>11, <2>2, <2>3, <2>4 DEF IsChain
  <2>6. ASSUME NEW e \in 1..N
        PROVE  In(s, e) <=> In(o, e) /\ indexOf(to[e].key, 2 * n) = i
    <3>1. indexOf(to[e].key, 2 * n) = index(e)
      BY <1>9 DEF index
    <3>2. In(s, e) <=> e \in B(i)
      BY <2>2, <2>3 DEF In
    <3> QED
      BY <1>3, <2>1, <3>1, <3>2
  <2>7. BucketIs(to, tb, o, i, s)
    BY <1>10, <1>11, <2>3, <2>5, <2>6 DEF BucketIs
  <2> QED
    BY <2>7
<1>16. Sound(to, tb, fst, lst, o)
  BY <1>11, <1>13, <1>14, <1>15 DEF Sound, Bucketed
<1> QED
  BY <1>9, <1>12, <1>16 DEF to, tb, N

LEMMA GrowSound ==
  ASSUME NEW entries, NEW bks, NEW sz, NEW fst, NEW lst, NEW o,
         Sound(entries, bks, fst, lst, o)
  PROVE  /\ Sound(Grow(entries, bks, sz).entry, Grow(entries, bks, sz).buckets, fst, lst, o)
         /\ SameBut(entries, Grow(entries, bks, sz).entry)
         /\ \A e \in 1..Len(entries) : Grow(entries, bks, sz).entry[e].val = entries[e].val
<1>1. CASE 10 * sz > 8 * Len(bks)
  <2>1. Grow(entries, bks, sz) = Rehash(entries, bks)
    BY <1>1 DEF Grow
  <2> QED
    BY <2>1, RehashSound
<1>2. CASE ~ (10 * sz > 8 * Len(bks))
  <2>1. Grow(entries, bks, sz) = [entry |-> entries, buckets |-> bks]
    BY <1>2 DEF Grow
  <2>2. entries \in Seq(Entries)
    BY DEF Sound, Table
  <2> QED
    BY <2>1, <2>2 DEF SameBut
<1> QED
  BY <1>1, <1>2

-----------------------------------------------------------------------------
(* The operations keep the invariant *)

LEMMA InAppend ==
  ASSUME NEW S, NEW s \in Seq(S), NEW f \in S, NEW d
  PROVE  In(Append(s, f), d) <=> d = f \/ In(s, d)
<1> DEFINE t == Append(s, f)
<1>1. /\ Len(t) = Len(s) + 1 /\ Len(s) \in Nat
      /\ t[Len(s) + 1] = f /\ \A i \in 1..Len(s) : t[i] = s[i]
  BY AppendProperties, LenProperties
<1> HIDE DEF t
<1>2. /\ Len(s) + 1 \in 1..Len(t) /\ \A i \in 1..Len(s) : i \in 1..Len(t)
      /\ \A i \in 1..Len(t) : i = Len(s) + 1 \/ i \in 1..Len(s)
  BY <1>1
<1>3. In(t, d) <=> d = f \/ In(s, d)
  BY <1>1, <1>2 DEF In
<1> QED
  BY <1>3 DEF t

LEMMA InPush ==
  ASSUME NEW S, NEW s \in Seq(S), NEW f \in S, NEW d
  PROVE  In(Push(f, s), d) <=> d = f \/ In(s, d)
<1> DEFINE t == Push(f, s)
<1>1. /\ Len(t) = Len(s) + 1 /\ Len(s) \in Nat
      /\ t[1] = f /\ \A i \in 1..Len(s) : t[i + 1] = s[i]
  BY PushProperties
<1>2. \A i \in 1..(Len(s) + 1) : i = 1 \/ (i - 1 \in 1..Len(s) /\ t[i] = s[i - 1])
  BY PushElements
<1> HIDE DEF t
<1>3. /\ 1 \in 1..Len(t) /\ \A i \in 1..Len(s) : i + 1 \in 1..Len(t)
  BY <1>1
<1>4. In(t, d) <=> d = f \/ In(s, d)
  BY <1>1, <1>2, <1>3 DEF In
<1> QED
  BY <1>4 DEF t

LEMMA InRemoveAt ==
  ASSUME NEW links, NEW e, NEW s \in Seq(Links), IsChain(links, e, s),
         NEW p \in 1..Len(s), NEW d
  PROVE  In(RemoveAt(s, p), d) <=> In(s, d) /\ d # s[p]
<1> DEFINE t == RemoveAt(s, p)
<1>1. /\ Len(t) = Len(s) - 1 /\ Len(s) \in Nat
      /\ \A i \in 1..(Len(s) - 1) : t[i] = IF i < p THEN s[i] ELSE s[i + 1]
  BY RemoveAtProperties
<1> HIDE DEF t
<1>2. ASSUME In(t, d) PROVE In(s, d) /\ d # s[p]
  <2>1. PICK i \in 1..(Len(s) - 1) : t[i] = d
    BY <1>1, <1>2 DEF In
  <2>2. i \in 1..Len(s) /\ i + 1 \in 1..Len(s) /\ (i < p => i # p) /\ (~ i < p => i + 1 # p)
    BY <1>1
  <2>3. PICK j \in 1..Len(s) : s[j] = d /\ j # p
    BY <1>1, <2>1, <2>2
  <2>4. s[j] # s[p]
    BY <2>3, ChainDistinct
  <2> QED
    BY <2>3, <2>4 DEF In
<1>3. ASSUME In(s, d), d # s[p] PROVE In(t, d)
  <2>1. PICK i \in 1..Len(s) : s[i] = d
    BY <1>3 DEF In
  <2>2. i # p
    BY <1>3, <2>1
  <2>3. CASE i < p
    <3>1. i \in 1..(Len(s) - 1)
      BY <1>1, <2>3
    <3> QED
      BY <1>1, <2>1, <2>3, <3>1 DEF In
  <2>4. CASE ~ i < p
    <3>1. i - 1 \in 1..(Len(s) - 1) /\ ~ (i - 1 < p) /\ (i - 1) + 1 = i
      BY <1>1, <2>2, <2>4
    <3> QED
      BY <1>1, <2>1, <3>1 DEF In
  <2> QED
    BY <2>3, <2>4
<1> QED
  BY <1>2, <1>3 DEF t

\* What a sound table says of its order, in one place.
LEMMA SoundOrder ==
  ASSUME NEW entries, NEW bks, NEW fst, NEW lst, NEW o, Sound(entries, bks, fst, lst, o)
  PROVE  /\ entries \in Seq(Entries) /\ Len(entries) \in Nat
         /\ o \in Seq(1..Len(entries)) /\ o \in Seq(Links) /\ Len(o) \in Nat
         /\ DOMAIN o = 1..Len(o) /\ \A i \in 1..Len(o) : o[i] \in 1..Len(entries)
         /\ IsChain(afters(entries), fst, o)
         /\ o = <<>> <=> Len(o) = 0
         /\ o = <<>> <=> fst = 0
         /\ o = <<>> <=> lst = 0
         /\ \A i, j \in 1..Len(o) : o[i] = o[j] => i = j
<1>1. /\ entries \in Seq(Entries) /\ Len(entries) \in Nat /\ o \in Seq(1..Len(entries))
      /\ IsChain(afters(entries), fst, o) /\ lst = IF o = <<>> THEN 0 ELSE o[Len(o)]
  BY LenProperties DEF Sound, Table, Ordered
<1>2. /\ o \in Seq(Links) /\ Len(o) \in Nat /\ DOMAIN o = 1..Len(o)
      /\ \A i \in 1..Len(o) : o[i] \in 1..Len(entries)
  BY <1>1, LinksOf
<1>3. o = <<>> <=> Len(o) = 0
  BY <1>2, EmptySeq
<1>4. o # <<>> => fst # 0 /\ lst # 0
  <2> SUFFICES ASSUME o # <<>> PROVE fst # 0 /\ lst # 0
    OBVIOUS
  <2>1. 1 \in 1..Len(o) /\ Len(o) \in 1..Len(o)
    BY <1>2, <1>3
  <2>2. o[1] # 0 /\ o[Len(o)] # 0
    BY <1>1, <1>2, <2>1
  <2> QED
    BY <1>1, <2>2 DEF IsChain
<1>5. o = <<>> => fst = 0 /\ lst = 0
  BY <1>1 DEF IsChain
<1>6. \A i, j \in 1..Len(o) : o[i] = o[j] => i = j
  BY <1>1, <1>2, ChainDistinct
<1> QED
  BY <1>1, <1>2, <1>3, <1>4, <1>5, <1>6

\* A new entry, at the end of the order and in front of its bucket.
LinkedTo(e) == IF last = 0 THEN entry ELSE [entry EXCEPT ![last].after = e]

NewEntry(k, v) ==
  [key |-> k, val |-> v, next |-> buckets[indexOf(k, NumBuckets)],
   before |-> last, after |-> 0]

WithNew(k, v) == Append(LinkedTo(Len(entry) + 1), NewEntry(k, v))

LEMMA NewEntries ==
  ASSUME NEW o, SoundMap(o), NEW k \in Keys, NEW v \in Vals
  PROVE  /\ WithNew(k, v) \in Seq(Entries) /\ Len(WithNew(k, v)) = Len(entry) + 1
         /\ WithNew(k, v)[Len(entry) + 1] = NewEntry(k, v)
         /\ \A d \in 1..Len(entry) :
              /\ WithNew(k, v)[d].key = entry[d].key /\ WithNew(k, v)[d].val = entry[d].val
              /\ WithNew(k, v)[d].next = entry[d].next
              /\ WithNew(k, v)[d].before = entry[d].before
              /\ WithNew(k, v)[d].after =
                   IF d = last THEN Len(entry) + 1 ELSE entry[d].after
<1> DEFINE n == Len(entry)
           t == LinkedTo(n + 1)
           i == indexOf(k, NumBuckets)
<1>1. Sound(entry, buckets, first, last, o)
  BY DEF SoundMap
<1>2. /\ entry \in Seq(Entries) /\ n \in Nat /\ DOMAIN entry = 1..n
      /\ \A d \in 1..n : entry[d] \in Entries
      /\ last = 0 \/ last \in 1..n
  <2>1. entry \in Seq(Entries) /\ \A j \in 1..Len(o) : o[j] \in 1..n
    BY <1>1, SoundOrder
  <2>2. last = 0 \/ last \in 1..n
    <3>1. CASE o = <<>>
      BY <1>1, <3>1, SoundOrder
    <3>2. CASE o # <<>>
      <4>1. Len(o) \in Nat /\ Len(o) # 0
        BY <1>1, <3>2, SoundOrder
      <4>2. Len(o) \in 1..Len(o)
        BY <4>1
      <4> QED
        BY <1>1, <2>1, <3>2, <4>2 DEF Sound, Ordered
    <3> QED
      BY <3>1, <3>2
  <2> QED
    BY <2>1, <2>2, LenProperties, ElementOfSeq
<1>3. NewEntry(k, v) \in Entries
  <2>1. buckets \in Seq(Nat) /\ Len(buckets) # 0 /\ hash \in [Keys -> Nat]
    BY <1>1 DEF Sound, Table
  <2>2. NumBuckets \in Nat \ {0} /\ NumBuckets = Len(buckets)
    BY <2>1, LenProperties DEF NumBuckets
  <2>3. i \in 1..Len(buckets)
    BY <2>1, <2>2, IndexType
  <2>4. buckets[i] \in Nat /\ last \in Nat
    BY <1>2, <2>1, <2>3, ElementOfSeq
  <2> HIDE DEF i
  <2>5. NewEntry(k, v) = [key |-> k, val |-> v, next |-> buckets[i], before |-> last, after |-> 0]
    BY DEF NewEntry, i
  <2> QED
    BY <2>4, <2>5 DEF Entries
<1>4. /\ t \in Seq(Entries) /\ Len(t) = n
      /\ \A d \in 1..n :
           /\ t[d].key = entry[d].key /\ t[d].val = entry[d].val
           /\ t[d].next = entry[d].next /\ t[d].before = entry[d].before
           /\ t[d].after = IF d = last THEN n + 1 ELSE entry[d].after
  <2>1. CASE last = 0
    <3>1. \A d \in 1..n : d # last
      BY <2>1
    <3> QED
      BY <1>2, <2>1, <3>1 DEF LinkedTo
  <2>2. CASE last # 0
    <3>1. t = [entry EXCEPT ![last].after = n + 1] /\ last \in 1..n
      BY <1>2, <2>2 DEF LinkedTo
    <3>2. DOMAIN t = 1..n /\ Len(t) = n /\ t = [d \in 1..n |-> t[d]]
      <4> HIDE DEF t, n
      <4>1. DOMAIN t = 1..n /\ t = [d \in 1..n |-> t[d]]
        BY <1>2, <3>1
      <4> QED
        BY <1>2, <4>1
    <3> HIDE DEF t
    <3>3. ASSUME NEW d \in 1..n
          PROVE  /\ t[d] \in Entries /\ t[d].key = entry[d].key /\ t[d].val = entry[d].val
                 /\ t[d].next = entry[d].next /\ t[d].before = entry[d].before
                 /\ t[d].after = IF d = last THEN n + 1 ELSE entry[d].after
      <4>1. entry[d] \in Entries /\ n + 1 \in Nat
        BY <1>2
      <4>2. t[d] = IF d = last THEN [entry[d] EXCEPT !.after = n + 1] ELSE entry[d]
        BY <1>2, <3>1
      <4> HIDE DEF n
      <4> QED
        BY <4>1, <4>2 DEF Entries
    <3>4. t \in Seq(Entries)
      BY <1>2, <3>2, <3>3
    <3> QED
      BY <3>2, <3>3, <3>4
  <2> QED
    BY <2>1, <2>2
<1> DEFINE w == WithNew(k, v)
<1>5. w = Append(t, NewEntry(k, v))
  BY DEF WithNew
<1> HIDE DEF t, w
<1>6. /\ w \in Seq(Entries) /\ Len(w) = n + 1 /\ w[n + 1] = NewEntry(k, v)
      /\ \A d \in 1..n : w[d] = t[d]
  BY <1>3, <1>4, <1>5, AppendProperties
<1>7. \A d \in 1..n :
        /\ w[d].key = entry[d].key /\ w[d].val = entry[d].val
        /\ w[d].next = entry[d].next /\ w[d].before = entry[d].before
        /\ w[d].after = IF d = last THEN n + 1 ELSE entry[d].after
  BY <1>4, <1>6
<1> QED
  BY <1>6, <1>7 DEF w

LEMMA NewOrder ==
  ASSUME NEW o, SoundMap(o), NEW k \in Keys, NEW v \in Vals, ~ Found(k)
  PROVE  Ordered(WithNew(k, v), IF first = 0 THEN Len(entry) + 1 ELSE first,
                 Len(entry) + 1, Append(o, Len(entry) + 1))
<1> DEFINE n == Len(entry)
           w == WithNew(k, v)
           u == Append(o, n + 1)
           m == Len(o)
<1>1. /\ Sound(entry, buckets, first, last, o) /\ n \in Nat /\ entry \in Seq(Entries)
      /\ o \in Seq(1..n) /\ o \in Seq(Links) /\ m \in Nat /\ DOMAIN o = 1..m
      /\ IsChain(afters(entry), first, o)
      /\ last = IF o = <<>> THEN 0 ELSE o[m]
      /\ \A j \in 1..m : entry[o[j]].before = IF j = 1 THEN 0 ELSE o[j - 1]
      /\ \A i, j \in 1..m : entry[o[i]].key = entry[o[j]].key => i = j
  <2>1. Sound(entry, buckets, first, last, o)
    BY DEF SoundMap
  <2>2. /\ n \in Nat /\ entry \in Seq(Entries)
        /\ o \in Seq(1..n) /\ o \in Seq(Links) /\ m \in Nat /\ DOMAIN o = 1..m
        /\ IsChain(afters(entry), first, o)
    BY <2>1, SoundOrder
  <2>3. Ordered(entry, first, last, o)
    BY <2>1 DEF Sound
  <2>4. /\ last = IF o = <<>> THEN 0 ELSE o[m]
        /\ \A j \in 1..m : entry[o[j]].before = IF j = 1 THEN 0 ELSE o[j - 1]
        /\ \A i, j \in 1..m : entry[o[i]].key = entry[o[j]].key => i = j
    BY <2>3 DEF Ordered
  <2> QED
    BY <2>1, <2>2, <2>4
<1>2. \A i \in 1..m : o[i] \in 1..n
  BY <1>1, SoundOrder
<1>3. (o = <<>> <=> m = 0) /\ (o = <<>> <=> first = 0) /\ \A i, j \in 1..m : o[i] = o[j] => i = j
  <2>1. Sound(entry, buckets, first, last, o)
    BY DEF SoundMap
  <2>2. o = <<>> <=> m = 0
    BY <2>1, SoundOrder
  <2>3. o = <<>> <=> first = 0
    BY <2>1, SoundOrder
  <2>4. \A i, j \in 1..m : o[i] = o[j] => i = j
    BY <2>1, SoundOrder
  <2> QED
    BY <2>2, <2>3, <2>4
<1>4. \A i \in 1..m : entry[o[i]].key # k
  BY FoundIs DEF HasAt
<1>5. /\ w \in Seq(Entries) /\ Len(w) = n + 1 /\ w[n + 1] = NewEntry(k, v)
      /\ \A d \in 1..n : /\ w[d].key = entry[d].key
                         /\ w[d].before = entry[d].before
                         /\ w[d].after = IF d = last THEN n + 1 ELSE entry[d].after
  BY NewEntries
<1>6. /\ w[n + 1].key = k /\ w[n + 1].before = last /\ w[n + 1].after = 0
  BY <1>5 DEF NewEntry
<1>7. /\ u \in Seq(1..(n + 1)) /\ Len(u) = m + 1 /\ u[m + 1] = n + 1
      /\ \A i \in 1..m : u[i] = o[i]
  <2>1. 1..n \subseteq 1..(n + 1) /\ n + 1 \in 1..(n + 1)
    BY <1>1
  <2>2. o \in Seq(1..(n + 1))
    BY <1>1, <2>1, SeqMonotonic
  <2> QED
    BY <2>1, <2>2, AppendProperties
<1> HIDE DEF n, w, u, m
<1>8. \A i \in 1..(m + 1) : i \in 1..m \/ i = m + 1
  BY <1>1
<1>9. IsChain(afters(w), IF first = 0 THEN n + 1 ELSE first, u)
  <2>1. n + 1 \in Links /\ n + 1 \in 1..(n + 1) /\ \A d \in 1..n : d \in 1..(n + 1)
    BY <1>1 DEF Links
  <2>2. \A d \in 1..(n + 1) : afters(w)[d] = w[d].after
    BY <1>5, TableLinks
  <2>3. \A d \in 1..n : afters(entry)[d] = entry[d].after
    BY <1>1, TableLinks DEF n
  <2>4. afters(w)[n + 1] = 0
    BY <1>6, <2>1, <2>2
  <2>5. ASSUME NEW i \in 1..m
        PROVE  afters(w)[o[i]] = IF i = m THEN n + 1 ELSE afters(entry)[o[i]]
    <3>1. o[i] \in 1..n /\ m \in 1..m /\ m # 0 /\ last = o[m]
      <4>1. m \in Nat /\ i \in 1..m
        BY <1>1
      <4>2. m \in 1..m /\ m # 0
        BY <4>1
      <4> QED
        BY <1>1, <1>2, <1>3, <4>2
    <3>2. i = m <=> o[i] = last
      BY <1>3, <3>1
    <3> QED
      BY <1>5, <2>1, <2>2, <2>3, <3>1, <3>2
  <2>6. IsChain(afters(w), IF o = <<>> THEN n + 1 ELSE first, Append(o, n + 1))
    BY <1>1, <2>1, <2>4, <2>5, ChainAppend DEF m
  <2> QED
    BY <1>3, <2>6 DEF u
<1>10. n + 1 = IF u = <<>> THEN 0 ELSE u[Len(u)]
  <2>1. Len(u) # 0
    BY <1>1, <1>7
  <2>2. u # <<>>
    BY <1>7, <2>1, EmptySeq
  <2> QED
    BY <1>7, <2>2
<1>11. ASSUME NEW i \in 1..(m + 1)
       PROVE  w[u[i]].before = IF i = 1 THEN 0 ELSE u[i - 1]
  <2>1. CASE i \in 1..m
    <3>1. i = 1 \/ i - 1 \in 1..m
      BY <1>1, <2>1
    <3>2. u[i] = o[i] /\ o[i] \in 1..n /\ (i # 1 => u[i - 1] = o[i - 1])
      BY <1>2, <1>7, <2>1, <3>1
    <3>3. w[o[i]].before = entry[o[i]].before
      BY <1>5, <3>2
    <3>4. entry[o[i]].before = IF i = 1 THEN 0 ELSE o[i - 1]
      BY <1>1, <2>1
    <3> QED
      BY <3>2, <3>3, <3>4
  <2>2. CASE i = m + 1
    <3>1. CASE m = 0
      BY <1>1, <1>3, <1>6, <1>7, <2>2, <3>1
    <3>2. CASE m # 0
      <4>1. m \in 1..m /\ i - 1 = m /\ i # 1
        BY <1>1, <2>2, <3>2
      <4> QED
        BY <1>1, <1>3, <1>6, <1>7, <2>2, <3>2, <4>1
    <3> QED
      BY <3>1, <3>2
  <2> QED
    BY <1>8, <2>1, <2>2
<1>12. ASSUME NEW i \in 1..(m + 1), NEW j \in 1..(m + 1), w[u[i]].key = w[u[j]].key
       PROVE  i = j
  <2>1. \A l \in 1..m : w[u[l]].key = entry[o[l]].key /\ w[u[l]].key # k
    BY <1>2, <1>4, <1>5, <1>7
  <2>2. w[u[m + 1]].key = k
    BY <1>6, <1>7
  <2> QED
    BY <1>1, <1>8, <1>12, <2>1, <2>2
<1>13. Ordered(w, IF first = 0 THEN n + 1 ELSE first, n + 1, u)
  BY <1>5, <1>7, <1>9, <1>10, <1>11, <1>12 DEF Ordered
<1> QED
  BY <1>13 DEF n, w, u

WithFirst(k) == [buckets EXCEPT ![indexOf(k, NumBuckets)] = Len(entry) + 1]

LEMMA NewSound ==
  ASSUME NEW o, SoundMap(o), NEW k \in Keys, NEW v \in Vals, ~ Found(k)
  PROVE  Sound(WithNew(k, v), WithFirst(k), IF first = 0 THEN Len(entry) + 1 ELSE first,
               Len(entry) + 1, Append(o, Len(entry) + 1))
<1> DEFINE n == Len(entry)
           w == WithNew(k, v)
           u == Append(o, n + 1)
           i == indexOf(k, NumBuckets)
           tb == WithFirst(k)
           q == Len(buckets)
<1>1. /\ Sound(entry, buckets, first, last, o) /\ n \in Nat /\ entry \in Seq(Entries)
      /\ o \in Seq(1..n) /\ hash \in [Keys -> Nat] /\ q # 0
      /\ buckets \in Seq(Nat) /\ q \in Nat /\ DOMAIN buckets = 1..q
  <2>1. buckets \in Seq(Nat) /\ Sound(entry, buckets, first, last, o)
    BY DEF SoundMap, Sound, Table
  <2> QED
    BY <2>1, SoundOrder, LenProperties DEF Sound, Table
<1>2. i \in 1..q /\ i = indexOf(k, q)
  <2>1. q \in Nat \ {0}
    BY <1>1
  <2> QED
    BY <1>1, <2>1, IndexType DEF NumBuckets
<1>3. /\ w \in Seq(Entries) /\ Len(w) = n + 1 /\ w[n + 1] = NewEntry(k, v)
      /\ \A d \in 1..n : w[d].key = entry[d].key /\ w[d].next = entry[d].next
  BY NewEntries
<1>4. w[n + 1].key = k /\ w[n + 1].next = buckets[i]
  BY <1>3 DEF NewEntry
<1>5. \A d : In(u, d) <=> d = n + 1 \/ In(o, d)
  <2>1. 1..n \subseteq 1..(n + 1) /\ n + 1 \in 1..(n + 1)
    BY <1>1
  <2>2. o \in Seq(1..(n + 1))
    BY <1>1, <2>1, SeqMonotonic
  <2> QED
    BY <2>1, <2>2, InAppend
<1>6. tb \in Seq(Nat) /\ Len(tb) = q /\ \A j \in 1..q : tb[j] = IF j = i THEN n + 1 ELSE buckets[j]
  <2>1. tb = [j \in 1..q |-> IF j = i THEN n + 1 ELSE buckets[j]]
    BY <1>1, <1>2 DEF WithFirst
  <2>2. \A j \in 1..q : buckets[j] \in Nat
    BY <1>1, ElementOfSeq
  <2> HIDE DEF n, i, tb, q
  <2>3. n + 1 \in Nat
    BY <1>1
  <2> QED
    BY <1>1, <2>1, <2>2, <2>3
<1>7. \A d \in 1..n : In(o, d) \in BOOLEAN
  BY DEF In
<1> HIDE DEF n, w, u, i, tb, q
<1>8. Table(w, tb)
  BY <1>1, <1>3, <1>6 DEF Table
<1>9. Ordered(w, IF first = 0 THEN n + 1 ELSE first, n + 1, u)
  BY NewOrder DEF n, w, u
<1>10. /\ n + 1 \in Links /\ n + 1 \in 1..(n + 1) /\ n + 1 \notin 1..n
       /\ \A d \in 1..(n + 1) : d \in 1..n \/ d = n + 1
  BY <1>1 DEF Links
<1>11. /\ \A d \in 1..n : nexts(w)[d] = nexts(entry)[d]
       /\ nexts(w)[n + 1] = buckets[i]
  <2>1. \A d \in 1..(n + 1) : nexts(w)[d] = w[d].next
    BY <1>3, TableLinks
  <2>2. \A d \in 1..n : nexts(entry)[d] = entry[d].next /\ d \in 1..(n + 1)
    BY <1>1, TableLinks DEF n
  <2> QED
    BY <1>3, <1>4, <1>10, <2>1, <2>2
<1>12. ASSUME NEW j \in 1..q PROVE \E s : BucketIs(w, tb, u, j, s)
  <2>1. PICK s : BucketIs(entry, buckets, o, j, s)
    BY <1>1 DEF Sound, Bucketed, q
  <2>2. /\ s \in Seq(1..n) /\ IsChain(nexts(entry), buckets[j], s)
        /\ \A d \in 1..n : In(s, d) <=> In(o, d) /\ indexOf(entry[d].key, q) = j
    BY <2>1 DEF BucketIs, n, q
  <2>3. /\ s \in Seq(Links) /\ Len(s) \in Nat /\ DOMAIN s = 1..Len(s)
        /\ \A l \in 1..Len(s) : s[l] \in 1..n
    BY <1>1, <2>2, LinksOf
  <2>4. s \in Seq(1..(n + 1))
    <3>1. 1..n \subseteq 1..(n + 1)
      BY <1>1
    <3> QED
      BY <2>2, <3>1, SeqMonotonic
  <2>5. ~ In(s, n + 1) /\ ~ In(o, n + 1)
    <3>1. \A l \in 1..Len(o) : o[l] \in 1..n
      BY <1>1, LinksOf
    <3> QED
      BY <1>10, <2>3, <3>1 DEF In
  <2>6. CASE j # i
    <3>1. IsChain(nexts(w), tb[j], s)
      BY <1>6, <1>11, <2>2, <2>3, <2>6 DEF IsChain
    <3>2. ASSUME NEW d \in 1..(n + 1)
          PROVE  In(s, d) <=> In(u, d) /\ indexOf(w[d].key, q) = j
      <4>1. CASE d \in 1..n
        BY <1>3, <1>5, <1>10, <2>2, <4>1
      <4>2. CASE d = n + 1
        BY <1>2, <1>4, <2>5, <2>6, <4>2
      <4> QED
        BY <1>10, <4>1, <4>2
    <3> QED
      BY <1>3, <1>6, <2>4, <3>1, <3>2 DEF BucketIs
  <2>7. CASE j = i
    <3>1. IsChain(nexts(w), n + 1, Push(n + 1, s))
      BY <1>10, <1>11, <2>2, <2>3, <2>7, ChainPush
    <3>2. Push(n + 1, s) \in Seq(1..(n + 1)) /\ \A d : In(Push(n + 1, s), d) <=> d = n + 1 \/ In(s, d)
      <4>1. Push(n + 1, s) \in Seq(1..(n + 1))
        BY <1>10, <2>4, PushProperties
      <4>2. \A d : In(Push(n + 1, s), d) <=> d = n + 1 \/ In(s, d)
        BY <1>10, <2>4, InPush
      <4> QED
        BY <4>1, <4>2
    <3>3. ASSUME NEW d \in 1..(n + 1)
          PROVE  In(Push(n + 1, s), d) <=> In(u, d) /\ indexOf(w[d].key, q) = j
      <4>1. CASE d \in 1..n
        BY <1>3, <1>5, <1>10, <2>2, <3>2, <4>1
      <4>2. CASE d = n + 1
        BY <1>2, <1>4, <1>5, <2>7, <3>2, <4>2
      <4> QED
        BY <1>10, <4>1, <4>2
    <3> QED
      BY <1>3, <1>6, <2>7, <3>1, <3>2, <3>3 DEF BucketIs
  <2> QED
    BY <2>6, <2>7
<1>13. Sound(w, tb, IF first = 0 THEN n + 1 ELSE first, n + 1, u)
  BY <1>6, <1>8, <1>9, <1>12 DEF Sound, Bucketed
<1> QED
  BY <1>13 DEF n, w, u, tb

\* Key k is taken out of its bucket and of the order.
WithoutEntry(k) ==
  [q \in DOMAIN entry |->
     [Unlinked(k).entry[q] EXCEPT
        !.after = IF q = entry[EntryOf(k)].before THEN entry[EntryOf(k)].after ELSE @,
        !.before = IF q = entry[EntryOf(k)].after THEN entry[EntryOf(k)].before ELSE @]]

\* The place in the bucket is the first, or another's link leads to it.
LeadsTo(k, d) == Place(k) # 1 /\ d = Bucket(k)[Place(k) - 1]

LEMMA RemovedEntries ==
  ASSUME NEW o, SoundMap(o), NEW k \in Keys, NEW p, HasAt(o, k, p)
  PROVE  /\ WithoutEntry(k) \in Seq(Entries) /\ Len(WithoutEntry(k)) = Len(entry)
         /\ \A d \in 1..Len(entry) :
              /\ WithoutEntry(k)[d].key = entry[d].key /\ WithoutEntry(k)[d].val = entry[d].val
              /\ WithoutEntry(k)[d].next =
                   IF LeadsTo(k, d) THEN entry[o[p]].next ELSE entry[d].next
              /\ WithoutEntry(k)[d].after =
                   IF d = entry[o[p]].before THEN entry[o[p]].after ELSE entry[d].after
              /\ WithoutEntry(k)[d].before =
                   IF d = entry[o[p]].after THEN entry[o[p]].before ELSE entry[d].before
<1> DEFINE n == Len(entry)
           e == o[p]
           t == Unlinked(k).entry
           w == WithoutEntry(k)
           b == entry[e].before
           a == entry[e].after
           x == entry[e].next
<1>1. /\ entry \in Seq(Entries) /\ n \in Nat /\ DOMAIN entry = 1..n
      /\ \A d \in 1..n : entry[d] \in Entries
      /\ e \in 1..n
  <2>1. Sound(entry, buckets, first, last, o) /\ p \in 1..Len(o)
    BY DEF SoundMap, HasAt
  <2>2. entry \in Seq(Entries) /\ e \in 1..n
    BY <2>1, SoundOrder
  <2> QED
    BY <2>2, LenProperties, ElementOfSeq
<1>2. /\ EntryOf(k) = e /\ Place(k) \in 1..Len(Bucket(k)) /\ Len(Bucket(k)) \in Nat
      /\ \A l \in 1..Len(Bucket(k)) : Bucket(k)[l] \in 1..n
  <2>1. EntryOf(k) = e /\ Place(k) \in 1..Len(Bucket(k))
    BY FoundIs
  <2>2. BucketIs(entry, buckets, o, indexOf(k, NumBuckets), Bucket(k))
    BY FoundIs
  <2>3. Bucket(k) \in Seq(1..n)
    BY <2>2 DEF BucketIs
  <2> QED
    BY <1>1, <2>1, <2>3, LinksOf
<1>3. b \in Nat /\ a \in Nat /\ x \in Nat
  BY <1>1 DEF Entries
<1> HIDE DEF n, e
<1>4. ASSUME NEW d \in 1..n
      PROVE  t[d] = IF LeadsTo(k, d) THEN [entry[d] EXCEPT !.next = x] ELSE entry[d]
  <2>1. CASE Place(k) = 1
    BY <1>2, <2>1 DEF Unlinked, LeadsTo
  <2>2. CASE Place(k) # 1
    <3>1. Place(k) - 1 \in 1..Len(Bucket(k))
      BY <1>2, <2>2
    <3>2. t = [entry EXCEPT ![Bucket(k)[Place(k) - 1]].next = x]
      BY <1>2, <2>2 DEF Unlinked
    <3> QED
      BY <1>1, <1>2, <2>2, <3>1, <3>2 DEF LeadsTo
  <2> QED
    BY <2>1, <2>2
<1> HIDE DEF t
<1>5. w = [d \in 1..n |-> [t[d] EXCEPT !.after = IF d = b THEN a ELSE @,
                                       !.before = IF d = a THEN b ELSE @]]
  BY <1>1, <1>2 DEF WithoutEntry, t
<1> HIDE DEF a, b, x, w
<1>6. ASSUME NEW d \in 1..n
      PROVE  /\ w[d] \in Entries /\ w[d].key = entry[d].key /\ w[d].val = entry[d].val
             /\ w[d].next = IF LeadsTo(k, d) THEN x ELSE entry[d].next
             /\ w[d].after = IF d = b THEN a ELSE entry[d].after
             /\ w[d].before = IF d = a THEN b ELSE entry[d].before
  <2>1. entry[d] \in Entries
    BY <1>1
  <2>2. /\ t[d] \in Entries /\ t[d].key = entry[d].key /\ t[d].val = entry[d].val
        /\ t[d].next = IF LeadsTo(k, d) THEN x ELSE entry[d].next
        /\ t[d].after = entry[d].after /\ t[d].before = entry[d].before
    BY <1>3, <1>4, <2>1 DEF Entries
  <2>3. w[d] = [t[d] EXCEPT !.after = IF d = b THEN a ELSE t[d].after,
                            !.before = IF d = a THEN b ELSE t[d].before]
    BY <1>5, <2>2 DEF Entries
  <2> QED
    BY <1>3, <2>2, <2>3 DEF Entries
<1>7. w \in Seq(Entries) /\ Len(w) = n
  <2>1. DOMAIN w = 1..n /\ w = [d \in 1..n |-> w[d]]
    BY <1>5
  <2>2. Len(w) = n
    BY <1>1, <2>1
  <2> QED
    BY <1>1, <1>6, <2>1, <2>2
<1> QED
  BY <1>6, <1>7 DEF a, b, e, n, w, x

\* The links of the entry at place p of the order.
LEMMA EntryLinks ==
  ASSUME NEW o, SoundMap(o), NEW p \in 1..Len(o)
  PROVE  /\ entry[o[p]].before = IF p = 1 THEN 0 ELSE o[p - 1]
         /\ entry[o[p]].after = IF p = Len(o) THEN 0 ELSE o[p + 1]
         /\ p = 1 => entry[o[p]].after = afters(entry)[o[1]]
<1>1. Sound(entry, buckets, first, last, o)
  BY DEF SoundMap
<1>2. /\ entry \in Seq(Entries) /\ DOMAIN o = 1..Len(o) /\ o[p] \in 1..Len(entry)
      /\ IsChain(afters(entry), first, o)
  BY <1>1, SoundOrder
<1>3. afters(entry)[o[p]] = entry[o[p]].after
  BY <1>2, TableLinks
<1>4. entry[o[p]].after = IF p = Len(o) THEN 0 ELSE o[p + 1]
  BY <1>2, <1>3 DEF IsChain
<1>5. entry[o[p]].before = IF p = 1 THEN 0 ELSE o[p - 1]
  BY <1>1 DEF Sound, Ordered
<1> QED
  BY <1>3, <1>4, <1>5

FirstWithout(o, p) ==
  IF entry[o[p]].before = 0 THEN entry[o[p]].after ELSE first
LastWithout(o, p) ==
  IF entry[o[p]].after = 0 THEN entry[o[p]].before ELSE last

LEMMA RemovedOrder ==
  ASSUME NEW o, SoundMap(o), NEW k \in Keys, NEW p, HasAt(o, k, p)
  PROVE  Ordered(WithoutEntry(k), FirstWithout(o, p), LastWithout(o, p), RemoveAt(o, p))
<1> DEFINE n == Len(entry)
           w == WithoutEntry(k)
           u == RemoveAt(o, p)
           m == Len(o)
           b == entry[o[p]].before
           a == entry[o[p]].after
<1>1. Sound(entry, buckets, first, last, o) /\ p \in 1..m
  BY DEF SoundMap, HasAt
<1>2. /\ n \in Nat /\ entry \in Seq(Entries)
      /\ o \in Seq(1..n) /\ o \in Seq(Links) /\ m \in Nat /\ DOMAIN o = 1..m
      /\ \A i \in 1..m : o[i] \in 1..n
      /\ IsChain(afters(entry), first, o)
      /\ \A i, j \in 1..m : o[i] = o[j] => i = j
  BY <1>1, SoundOrder
<1>3. o # <<>>
  <2>1. m # 0
    BY <1>1
  <2> QED
    BY <1>2, <2>1, EmptySeq
<1>4. /\ last = o[m]
      /\ \A j \in 1..m : entry[o[j]].before = IF j = 1 THEN 0 ELSE o[j - 1]
      /\ \A i, j \in 1..m : entry[o[i]].key = entry[o[j]].key => i = j
  BY <1>1, <1>3 DEF Sound, Ordered
<1>5. /\ b = IF p = 1 THEN 0 ELSE o[p - 1]
      /\ a = IF p = m THEN 0 ELSE o[p + 1]
      /\ p = 1 => a = afters(entry)[o[1]]
  <2>1. p \in 1..Len(o)
    BY <1>1
  <2> QED
    BY <2>1, EntryLinks
<1>6. /\ w \in Seq(Entries) /\ Len(w) = n
      /\ \A d \in 1..n : /\ w[d].key = entry[d].key
                         /\ w[d].before = IF d = a THEN b ELSE entry[d].before
                         /\ w[d].after = IF d = b THEN a ELSE entry[d].after
  <2> HIDE DEF w, n, a, b
  <2>1. w \in Seq(Entries) /\ Len(w) = n
    BY RemovedEntries DEF w, n
  <2>2. ASSUME NEW d \in 1..n
        PROVE  /\ w[d].key = entry[d].key
               /\ w[d].before = IF d = a THEN b ELSE entry[d].before
               /\ w[d].after = IF d = b THEN a ELSE entry[d].after
    BY RemovedEntries DEF w, n, a, b
  <2> QED
    BY <2>1, <2>2
<1>7. /\ u \in Seq(1..n) /\ Len(u) = m - 1
      /\ \A i \in 1..(m - 1) : u[i] = IF i < p THEN o[i] ELSE o[i + 1]
  <2>1. o \in Seq(1..n) /\ p \in 1..Len(o)
    BY <1>1, <1>2
  <2> QED
    BY <2>1, RemoveAtProperties
<1>8. /\ p - 1 \in 1..m \/ p = 1
      /\ p + 1 \in 1..m \/ p = m
      /\ p \in Nat /\ m # 0
  <2>1. p \in 1..m /\ m \in Nat
    BY <1>1, <1>2
  <2> HIDE DEF m
  <2> QED
    BY <2>1
<1>9. FirstWithout(o, p) = IF b = 0 THEN a ELSE first
  BY DEF FirstWithout
<1>10. LastWithout(o, p) = IF a = 0 THEN b ELSE last
  BY DEF LastWithout
<1> HIDE DEF n, w, u, m, a, b
<1>11. ASSUME NEW i \in 1..m
       PROVE  /\ o[i] = b <=> p # 1 /\ i = p - 1
              /\ o[i] = a <=> p # m /\ i = p + 1
              /\ o[i] # 0
  <2>1. o[i] # 0
    BY <1>2
  <2> QED
    BY <1>2, <1>5, <1>8, <2>1
<1>12. (b = 0 <=> p = 1) /\ (a = 0 <=> p = m)
  BY <1>2, <1>5, <1>8
<1>13. IsChain(afters(w), FirstWithout(o, p), u)
  <2>1. \A d \in 1..n : afters(w)[d] = w[d].after
    BY <1>6, TableLinks
  <2>2. \A d \in 1..n : afters(entry)[d] = entry[d].after
    BY <1>2, TableLinks DEF n
  <2>3. a = afters(entry)[o[p]]
    BY <1>1, <1>2, <2>2 DEF a
  <2>4. ASSUME NEW i \in 1..m, i # p
        PROVE  afters(w)[o[i]] =
                 IF i = p - 1 THEN afters(entry)[o[p]] ELSE afters(entry)[o[i]]
    <3>1. o[i] \in 1..n
      BY <1>2
    <3>2. afters(w)[o[i]] = IF o[i] = b THEN a ELSE afters(entry)[o[i]]
      BY <1>6, <2>1, <2>2, <3>1
    <3>3. o[i] = b <=> i = p - 1
      <4>1. i = p - 1 => p # 1
        BY <1>8
      <4> QED
        BY <1>11, <4>1
    <3> QED
      BY <2>3, <3>2, <3>3
  <2>5. IsChain(afters(w), IF p = 1 THEN afters(entry)[o[1]] ELSE first, RemoveAt(o, p))
    BY <1>1, <1>2, <2>4, ChainRemove DEF m
  <2> QED
    BY <1>5, <1>9, <1>12, <2>5 DEF u
<1>14. LastWithout(o, p) = IF u = <<>> THEN 0 ELSE u[Len(u)]
  <2>1. u = <<>> <=> m = 1
    <3>1. u = <<>> <=> Len(u) = 0
      BY <1>7, EmptySeq
    <3> QED
      BY <1>2, <1>7, <3>1
  <2>2. CASE m = 1
    <3>1. p = 1 /\ p = m
      BY <1>1, <2>2
    <3> QED
      BY <1>10, <1>12, <2>1, <2>2, <3>1
  <2>3. CASE m # 1
    <3>1. m - 1 \in 1..(m - 1) /\ (m - 1) + 1 = m /\ (m - 1 < p <=> p = m)
      BY <1>1, <1>2, <1>8, <2>3
    <3>2. u[Len(u)] = IF p = m THEN o[m - 1] ELSE o[m]
      BY <1>7, <3>1
    <3> QED
      BY <1>4, <1>5, <1>10, <1>12, <2>1, <2>3, <3>2
  <2> QED
    BY <2>2, <2>3
<1>15. ASSUME NEW i \in 1..(m - 1)
       PROVE  w[u[i]].before = IF i = 1 THEN 0 ELSE u[i - 1]
  <2>1. i \in 1..m /\ i + 1 \in 1..m /\ i \in Nat /\ (i # 1 => i - 1 \in 1..(m - 1))
    BY <1>2
  <2>2. CASE i < p
    <3>1. u[i] = o[i] /\ i # p + 1 /\ (i # 1 => i - 1 < p)
      BY <1>7, <1>8, <2>1, <2>2
    <3>2. w[o[i]].before = entry[o[i]].before
      BY <1>2, <1>6, <1>11, <2>1, <3>1
    <3>3. i # 1 => u[i - 1] = o[i - 1]
      BY <1>7, <2>1, <3>1
    <3> QED
      BY <1>4, <2>1, <3>1, <3>2, <3>3
  <2>3. CASE i = p
    <3>1. ~ i < p /\ p # m /\ (i # 1 => i - 1 < p)
      BY <1>2, <1>8, <2>3
    <3>2. u[i] = o[p + 1] /\ o[p + 1] = a
      BY <1>5, <1>7, <2>3, <3>1
    <3>3. a \in 1..n
      BY <1>2, <2>1, <2>3, <3>2
    <3>4. w[a].before = b
      BY <1>6, <3>3
    <3>5. i # 1 => u[i - 1] = o[p - 1]
      BY <1>7, <2>1, <2>3, <3>1
    <3> QED
      BY <1>5, <2>3, <3>2, <3>4, <3>5
  <2>4. CASE i > p
    <3>1. ~ i < p /\ i + 1 # p + 1 /\ i # 1 /\ ~ (i - 1 < p) /\ (i - 1) + 1 = i /\ i + 1 # 1
          /\ (i + 1) - 1 = i
      BY <1>8, <2>1, <2>4
    <3>2. u[i] = o[i + 1] /\ u[i - 1] = o[i]
      BY <1>7, <2>1, <3>1
    <3>3. w[o[i + 1]].before = entry[o[i + 1]].before
      BY <1>2, <1>6, <1>11, <2>1, <3>1
    <3>4. entry[o[i + 1]].before = o[i]
      BY <1>4, <2>1, <3>1
    <3> QED
      BY <3>1, <3>2, <3>3, <3>4
  <2> QED
    BY <1>8, <2>1, <2>2, <2>3, <2>4
<1>16. ASSUME NEW i \in 1..(m - 1), NEW j \in 1..(m - 1), w[u[i]].key = w[u[j]].key
       PROVE  i = j
  <2>1. \A l \in 1..(m - 1) : l \in 1..m /\ l + 1 \in 1..m /\ l \in Nat
    BY <1>2
  <2>2. \A l \in 1..(m - 1) : w[u[l]].key = entry[IF l < p THEN o[l] ELSE o[l + 1]].key
    BY <1>2, <1>6, <1>7, <2>1
  <2>3. (IF i < p THEN i ELSE i + 1) = (IF j < p THEN j ELSE j + 1)
    BY <1>4, <1>16, <2>1, <2>2
  <2> QED
    BY <1>8, <2>1, <2>3
<1>17. Ordered(w, FirstWithout(o, p), LastWithout(o, p), u)
  BY <1>6, <1>7, <1>13, <1>14, <1>15, <1>16 DEF Ordered
<1> QED
  BY <1>17 DEF w, u

LEMMA RemovedSound ==
  ASSUME NEW o, SoundMap(o), NEW k \in Keys, NEW p, HasAt(o, k, p)
  PROVE  Sound(WithoutEntry(k), Unlinked(k).buckets,
               FirstWithout(o, p), LastWithout(o, p), RemoveAt(o, p))
<1> DEFINE n == Len(entry)
           e == o[p]
           w == WithoutEntry(k)
           u == RemoveAt(o, p)
           i == indexOf(k, NumBuckets)
           tb == Unlinked(k).buckets
           q == Len(buckets)
           s0 == Bucket(k)
           r == Place(k)
           x == entry[e].next
<1>1. /\ Sound(entry, buckets, first, last, o) /\ n \in Nat /\ entry \in Seq(Entries)
      /\ o \in Seq(1..n) /\ o \in Seq(Links) /\ hash \in [Keys -> Nat] /\ q # 0
      /\ IsChain(afters(entry), first, o)
      /\ buckets \in Seq(Nat) /\ q \in Nat /\ DOMAIN buckets = 1..q
      /\ p \in 1..Len(o) /\ e \in 1..n /\ entry[e].key = k
  <2>1. /\ buckets \in Seq(Nat) /\ Sound(entry, buckets, first, last, o)
        /\ p \in 1..Len(o) /\ entry[e].key = k
    BY DEF SoundMap, Sound, Table, HasAt
  <2>2. /\ n \in Nat /\ entry \in Seq(Entries) /\ e \in 1..n
        /\ o \in Seq(1..n) /\ o \in Seq(Links) /\ IsChain(afters(entry), first, o)
    BY <2>1, SoundOrder
  <2> QED
    BY <2>1, <2>2, LenProperties DEF Sound, Table
<1>2. /\ i \in 1..q /\ i = indexOf(k, q) /\ EntryOf(k) = e /\ r \in 1..Len(s0) /\ s0[r] = e
      /\ BucketIs(entry, buckets, o, i, s0)
  BY FoundIs DEF NumBuckets
<1>3. /\ w \in Seq(Entries) /\ Len(w) = n
      /\ \A d \in 1..n : /\ w[d].key = entry[d].key
                         /\ w[d].next = IF LeadsTo(k, d) THEN x ELSE entry[d].next
  BY RemovedEntries
<1>4. \A d : LeadsTo(k, d) <=> r # 1 /\ d = s0[r - 1]
  BY DEF LeadsTo
<1>5. \A d : In(u, d) <=> In(o, d) /\ d # e
  BY <1>1, InRemoveAt
<1>6. x \in Nat
  BY <1>1, TableLinks DEF Entries
<1>7. tb = IF r = 1 THEN [buckets EXCEPT ![i] = x] ELSE buckets
  BY <1>2 DEF Unlinked
<1> HIDE DEF n, e, w, u, i, tb, q, s0, r, x
<1>8. /\ tb \in Seq(Nat) /\ Len(tb) = q
      /\ \A j \in 1..q : tb[j] = IF r = 1 /\ j = i THEN x ELSE buckets[j]
  <2>1. \A j \in 1..q : buckets[j] \in Nat
    BY <1>1, ElementOfSeq DEF q
  <2>2. CASE r = 1
    <3>1. tb = [j \in 1..q |-> IF j = i THEN x ELSE buckets[j]]
      BY <1>1, <1>2, <1>7, <2>2
    <3> QED
      BY <1>1, <1>6, <2>1, <2>2, <3>1
  <2>3. CASE r # 1
    BY <1>1, <1>7, <2>3 DEF q
  <2> QED
    BY <2>2, <2>3
<1>9. Table(w, tb)
  BY <1>1, <1>3, <1>8 DEF Table
<1>10. Ordered(w, FirstWithout(o, p), LastWithout(o, p), u)
  BY RemovedOrder DEF w, u
<1>11. \A d \in 1..n : /\ nexts(w)[d] = IF LeadsTo(k, d) THEN x ELSE nexts(entry)[d]
                       /\ nexts(entry)[d] = entry[d].next
  <2>1. \A d \in 1..n : nexts(w)[d] = w[d].next
    BY <1>3, TableLinks
  <2>2. \A d \in 1..n : nexts(entry)[d] = entry[d].next
    BY <1>1, TableLinks DEF n
  <2> QED
    BY <1>3, <2>1, <2>2
<1>12. /\ s0 \in Seq(1..n) /\ IsChain(nexts(entry), buckets[i], s0)
       /\ \A d \in 1..n : In(s0, d) <=> In(o, d) /\ indexOf(entry[d].key, q) = i
  BY <1>2 DEF BucketIs, n, q
<1>13. /\ s0 \in Seq(Links) /\ Len(s0) \in Nat /\ DOMAIN s0 = 1..Len(s0)
       /\ \A l \in 1..Len(s0) : s0[l] \in 1..n
  BY <1>1, <1>12, LinksOf
<1>14. r # 1 => r - 1 \in 1..Len(s0)
  BY <1>2, <1>13
<1>15. ASSUME NEW j \in 1..q PROVE \E s : BucketIs(w, tb, u, j, s)
  <2>1. CASE j # i
    <3>1. PICK s : BucketIs(entry, buckets, o, j, s)
      BY <1>1 DEF Sound, Bucketed, q
    <3>2. /\ s \in Seq(1..n) /\ IsChain(nexts(entry), buckets[j], s)
          /\ \A d \in 1..n : In(s, d) <=> In(o, d) /\ indexOf(entry[d].key, q) = j
      BY <3>1 DEF BucketIs, n, q
    <3>3. DOMAIN s = 1..Len(s) /\ \A l \in 1..Len(s) : s[l] \in 1..n
      BY <1>1, <3>2, LinksOf
    <3>4. ASSUME NEW l \in 1..Len(s) PROVE ~ LeadsTo(k, s[l])
      <4> SUFFICES ASSUME LeadsTo(k, s[l]) PROVE FALSE
        OBVIOUS
      <4>1. r - 1 \in 1..Len(s0) /\ s[l] = s0[r - 1] /\ s[l] \in 1..n
        BY <1>4, <1>14, <3>3
      <4>2. In(s0, s[l]) /\ In(s, s[l])
        BY <4>1 DEF In
      <4> QED
        BY <1>12, <2>1, <3>2, <4>1, <4>2
    <3>5. IsChain(nexts(w), tb[j], s)
      <4>1. \A l \in 1..Len(s) : nexts(w)[s[l]] = nexts(entry)[s[l]]
        BY <1>11, <3>3, <3>4
      <4>2. tb[j] = buckets[j]
        BY <1>8, <2>1
      <4> QED
        BY <3>2, <3>3, <4>1, <4>2 DEF IsChain
    <3>6. ASSUME NEW d \in 1..n
          PROVE  In(s, d) <=> In(u, d) /\ indexOf(w[d].key, q) = j
      <4>1. d = e => indexOf(entry[d].key, q) # j
        BY <1>1, <1>2, <2>1
      <4> QED
        BY <1>3, <1>5, <3>2, <4>1
    <3> QED
      BY <1>3, <1>8, <3>2, <3>5, <3>6 DEF BucketIs
  <2>2. CASE j = i
    <3>1. nexts(entry)[s0[r]] = x
      BY <1>1, <1>2, <1>11 DEF x
    <3>2. ASSUME NEW l \in 1..Len(s0), l # r
          PROVE  nexts(w)[s0[l]] = IF l = r - 1 THEN nexts(entry)[s0[r]] ELSE nexts(entry)[s0[l]]
      <4>1. LeadsTo(k, s0[l]) <=> l = r - 1
        <5>1. l = r - 1 => r # 1
          BY <1>13
        <5>2. ASSUME r # 1, s0[l] = s0[r - 1] PROVE l = r - 1
          BY <1>12, <1>13, <1>14, <5>2, ChainDistinct
        <5> QED
          BY <1>4, <5>1, <5>2
      <4>2. s0[l] \in 1..n
        BY <1>13
      <4> QED
        BY <1>11, <3>1, <4>1, <4>2
    <3>3. IsChain(nexts(w), IF r = 1 THEN nexts(entry)[s0[1]] ELSE buckets[i], RemoveAt(s0, r))
      BY <1>2, <1>12, <1>13, <3>2, ChainRemove
    <3>4. tb[j] = IF r = 1 THEN nexts(entry)[s0[1]] ELSE buckets[i]
      BY <1>8, <2>2, <3>1
    <3>5. RemoveAt(s0, r) \in Seq(1..n)
      BY <1>2, <1>12, RemoveAtProperties
    <3>6. ASSUME NEW d \in 1..n
          PROVE  In(RemoveAt(s0, r), d) <=> In(u, d) /\ indexOf(w[d].key, q) = j
      <4>1. In(RemoveAt(s0, r), d) <=> In(s0, d) /\ d # e
        BY <1>2, <1>12, <1>13, InRemoveAt
      <4> QED
        BY <1>3, <1>5, <1>12, <2>2, <4>1
    <3> QED
      BY <1>3, <1>8, <2>2, <3>3, <3>4, <3>5, <3>6 DEF BucketIs
  <2> QED
    BY <2>1, <2>2
<1>16. Sound(w, tb, FirstWithout(o, p), LastWithout(o, p), u)
  BY <1>8, <1>9, <1>10, <1>15 DEF Sound, Bucketed
<1> QED
  BY <1>16 DEF w, u, tb

\* A table with other values is as sound.
LEMMA ValueSound ==
  ASSUME NEW o, SoundMap(o), NEW to, SameBut(entry, to),
         \A d \in 1..Len(entry) : to[d].next = entry[d].next
  PROVE  Sound(to, buckets, first, last, o)
<1>1. /\ Sound(entry, buckets, first, last, o) /\ entry \in Seq(Entries)
      /\ Len(entry) \in Nat /\ to \in Seq(Entries) /\ Len(to) = Len(entry)
      /\ \A d \in 1..Len(entry) : to[d].key = entry[d].key
  <2>1. Sound(entry, buckets, first, last, o)
    BY DEF SoundMap
  <2> QED
    BY <2>1, SoundOrder DEF SameBut
<1>2. Table(to, buckets)
  BY <1>1 DEF Sound, Table
<1>3. Ordered(to, first, last, o)
  BY <1>1, OrderedSame DEF Sound
<1>4. \A d \in 1..Len(entry) : nexts(to)[d] = nexts(entry)[d]
  BY <1>1, TableLinks
<1>5. ASSUME NEW i \in 1..Len(buckets) PROVE \E s : BucketIs(to, buckets, o, i, s)
  <2>1. PICK s : BucketIs(entry, buckets, o, i, s)
    BY <1>1 DEF Sound, Bucketed
  <2>2. /\ s \in Seq(1..Len(entry)) /\ IsChain(nexts(entry), buckets[i], s)
        /\ \A d \in 1..Len(entry) :
             In(s, d) <=> In(o, d) /\ indexOf(entry[d].key, Len(buckets)) = i
    BY <2>1 DEF BucketIs
  <2>3. DOMAIN s = 1..Len(s) /\ \A l \in 1..Len(s) : s[l] \in 1..Len(entry)
    BY <1>1, <2>2, LinksOf
  <2>4. IsChain(nexts(to), buckets[i], s)
    BY <1>4, <2>2, <2>3 DEF IsChain
  <2>5. BucketIs(to, buckets, o, i, s)
    BY <1>1, <2>2, <2>4 DEF BucketIs
  <2> QED
    BY <2>5
<1> QED
  BY <1>1, <1>2, <1>3, <1>5 DEF Sound, Bucketed

\* The table after a step, in which no hash method changes.
LEMMA SoundNow ==
  ASSUME hash' = hash, NEW o, Sound(entry', buckets', first', last', o)
  PROVE  Sound(entry, buckets, first, last, o)'
<1>1. Table(entry, buckets)'
  BY DEF Sound, Table
<1>2. Ordered(entry, first, last, o)'
  BY DEF Sound
<1>3. Bucketed(entry, buckets, o)'
  BY DEF Sound, Bucketed, BucketIs, indexOf
<1> QED
  BY <1>1, <1>2, <1>3 DEF Sound

\* What each operation does to the order o, to the keys and to the values.
LEMMA ChangeStep ==
  ASSUME NEW o, SoundMap(o), NEW k \in Keys, NEW v \in Vals, Change(k, v)
  PROVE  /\ SoundMap(o)'
         /\ \E p : /\ HasAt(o, k, p) /\ result' = <<entry[o[p]].val>>
                   /\ \A d \in 1..Len(entry) :
                        /\ entry'[d].key = entry[d].key
                        /\ entry'[d].val = IF d = o[p] THEN v ELSE entry[d].val
<1> DEFINE n == Len(entry)
<1>1. /\ Sound(entry, buckets, first, last, o) /\ entry \in Seq(Entries) /\ n \in Nat
      /\ DOMAIN entry = 1..n /\ \A d \in 1..n : entry[d] \in Entries
      /\ \A i \in 1..Len(o) : o[i] \in 1..n
  <2>1. Sound(entry, buckets, first, last, o)
    BY DEF SoundMap
  <2> QED
    BY <2>1, SoundOrder, LenProperties, ElementOfSeq
<1>2. Found(k)
  BY DEF Change
<1>3. PICK p : HasAt(o, k, p)
  BY <1>2, FoundIs
<1>4. EntryOf(k) = o[p] /\ o[p] \in 1..n
  BY <1>1, <1>3, FoundIs DEF HasAt
<1>5. entry' = [entry EXCEPT ![o[p]].val = v] /\ result' = <<entry[o[p]].val>>
  BY <1>4 DEF Change, Some
<1> HIDE DEF n
<1>6. ASSUME NEW d \in 1..n
      PROVE  /\ entry'[d] \in Entries /\ entry'[d].key = entry[d].key
             /\ entry'[d].val = IF d = o[p] THEN v ELSE entry[d].val
             /\ entry'[d].next = entry[d].next /\ entry'[d].before = entry[d].before
             /\ entry'[d].after = entry[d].after
  <2>1. entry'[d] = IF d = o[p] THEN [entry[d] EXCEPT !.val = v] ELSE entry[d]
    BY <1>1, <1>5
  <2>2. entry[d] \in Entries
    BY <1>1
  <2> QED
    BY <2>1, <2>2 DEF Entries
<1>7. entry' \in Seq(Entries) /\ Len(entry') = n
  <2>1. DOMAIN entry' = 1..n /\ entry' = [d \in 1..n |-> entry'[d]]
    BY <1>1, <1>5
  <2>2. Len(entry') = n
    BY <1>1, <2>1
  <2> QED
    BY <1>1, <1>6, <2>1, <2>2
<1>8. SameBut(entry, entry')
  BY <1>6, <1>7 DEF SameBut, n
<1>9. Sound(entry', buckets, first, last, o)
  BY <1>6, <1>8, ValueSound DEF n
<1>10. /\ hash' = hash /\ buckets' = buckets /\ first' = first /\ last' = last
       /\ size' = size /\ dos' = dos
  BY DEF Change
<1>11. Sound(entry, buckets, first, last, o)'
  BY <1>9, <1>10, SoundNow
<1>12. SoundMap(o)'
  BY <1>10, <1>11 DEF SoundMap, DosInv
<1> QED
  BY <1>3, <1>5, <1>6, <1>12 DEF n

LEMMA InsertStep ==
  ASSUME NEW o, SoundMap(o), NEW k \in Keys, NEW v \in Vals, Insert(k, v)
  PROVE  /\ \E u : u = Append(o, Len(entry) + 1) /\ SoundMap(u)'
         /\ Len(entry') = Len(entry) + 1 /\ result' = <<>> /\ dos' = dos
         /\ ~ \E p : HasAt(o, k, p)
         /\ entry'[Len(entry) + 1].key = k /\ entry'[Len(entry) + 1].val = v
         /\ \A d \in 1..Len(entry) :
              entry'[d].key = entry[d].key /\ entry'[d].val = entry[d].val
<1> DEFINE e == Len(entry) + 1
           w == WithNew(k, v)
           tb == WithFirst(k)
           g == Grow(w, tb, size + 1)
           fst == IF first = 0 THEN e ELSE first
<1>1. /\ ~ Found(k) /\ first' = fst /\ last' = e
      /\ entry' = g.entry /\ buckets' = g.buckets
      /\ size' = size + 1 /\ result' = <<>> /\ hash' = hash /\ dos' = dos
  BY DEF Insert, WithNew, LinkedTo, NewEntry, WithFirst
<1>2. PICK u : u = Append(o, e)
  OBVIOUS
<1>3. Sound(w, tb, fst, e, u)
  BY <1>1, <1>2, NewSound
<1>4. /\ e \in Nat /\ w \in Seq(Entries) /\ Len(w) = e
      /\ w[e].key = k /\ w[e].val = v
      /\ \A d \in 1..Len(entry) :
           d \in 1..e /\ w[d].key = entry[d].key /\ w[d].val = entry[d].val
      /\ e \in 1..e
  <2>1. Len(entry) \in Nat
    <3>1. Sound(entry, buckets, first, last, o)
      BY DEF SoundMap
    <3> QED
      BY <3>1, SoundOrder
  <2>2. e \in Nat /\ e \in 1..e /\ \A d \in 1..Len(entry) : d \in 1..e
    BY <2>1
  <2>3. /\ w \in Seq(Entries) /\ Len(w) = e /\ w[e] = NewEntry(k, v)
        /\ \A d \in 1..Len(entry) : w[d].key = entry[d].key /\ w[d].val = entry[d].val
    BY NewEntries
  <2> QED
    BY <2>2, <2>3 DEF NewEntry
<1>5. /\ o \in Seq(Links) /\ e \in Links /\ size = Len(o)
      /\ RemovesCurrent \/ AllIn(o, dos)
  <2>1. Sound(entry, buckets, first, last, o)
    BY DEF SoundMap
  <2>2. o \in Seq(Links) /\ Len(entry) \in Nat
    BY <2>1, SoundOrder
  <2>3. e \in Links
    BY <2>2 DEF Links
  <2> QED
    BY <2>2, <2>3 DEF SoundMap, DosInv
<1> HIDE DEF w, tb, fst
<1>6. /\ Sound(g.entry, g.buckets, fst, e, u) /\ SameBut(w, g.entry)
      /\ \A d \in 1..Len(w) : g.entry[d].val = w[d].val
  BY <1>3, GrowSound
<1> HIDE DEF g, e
<1>7. Sound(entry, buckets, first, last, u)'
  <2>1. Sound(entry', buckets', first', last', u)
    BY <1>1, <1>6
  <2> QED
    BY <1>1, <2>1, SoundNow
<1>8. /\ Len(entry') = e /\ entry'[e].key = k /\ entry'[e].val = v
      /\ \A d \in 1..Len(entry) : entry'[d].key = entry[d].key /\ entry'[d].val = entry[d].val
  <2>1. /\ Len(g.entry) = e
        /\ \A d \in 1..e : g.entry[d].key = w[d].key /\ g.entry[d].val = w[d].val
    BY <1>4, <1>6 DEF SameBut
  <2> QED
    BY <1>1, <1>4, <2>1
<1>9. ~ \E p : HasAt(o, k, p)
  BY <1>1, FoundIs DEF HasAt
<1>10. (size = Len(u))'
  <2>1. Len(u) = Len(o) + 1
    BY <1>2, <1>5, AppendProperties
  <2> QED
    BY <1>1, <1>5, <2>1
<1>11. DosInv(u)'
  <2>1. \A d : In(o, d) => In(u, d)
    BY <1>2, <1>5, InAppend
  <2>2. AllIn(o, dos) => AllIn(u, dos)
    BY <2>1 DEF AllIn
  <2> QED
    BY <1>1, <1>5, <2>2 DEF DosInv
<1>12. SoundMap(u)'
  BY <1>7, <1>10, <1>11 DEF SoundMap
<1> QED
  BY <1>1, <1>2, <1>8, <1>9, <1>12 DEF e

LEMMA RemoveStep ==
  ASSUME NEW o, SoundMap(o), NEW k \in Keys, RemoveKey(k)
  PROVE  \E p, u : /\ HasAt(o, k, p) /\ u = RemoveAt(o, p) /\ SoundMap(u)'
                   /\ Len(entry') = Len(entry) /\ dos' = dos
                   /\ result' = <<entry[o[p]].val>>
                   /\ ~ RemovesCurrent => \A i \in 1..Len(dos) : dos[i] # o[p]
                   /\ \A d \in 1..Len(entry) :
                        entry'[d].key = entry[d].key /\ entry'[d].val = entry[d].val
<1>1. Found(k)
  BY DEF RemoveKey
<1>2. PICK p : HasAt(o, k, p)
  BY <1>1, FoundIs
<1>3. PICK u : u = RemoveAt(o, p)
  OBVIOUS
<1>4. EntryOf(k) = o[p]
  BY <1>2, FoundIs
<1>5. /\ entry' = WithoutEntry(k) /\ buckets' = Unlinked(k).buckets
      /\ first' = FirstWithout(o, p) /\ last' = LastWithout(o, p)
      /\ size' = size - 1 /\ result' = <<entry[o[p]].val>> /\ hash' = hash /\ dos' = dos
  BY <1>4 DEF RemoveKey, WithoutEntry, FirstWithout, LastWithout, Some
<1>6. /\ Len(entry') = Len(entry)
      /\ \A d \in 1..Len(entry) : entry'[d].key = entry[d].key /\ entry'[d].val = entry[d].val
  BY <1>2, <1>5, RemovedEntries
<1>7. Sound(entry', buckets', first', last', u)
  BY <1>2, <1>3, <1>5, RemovedSound
<1>8. Sound(entry, buckets, first, last, u)'
  BY <1>5, <1>7, SoundNow
<1>9. /\ o \in Seq(Links) /\ p \in 1..Len(o) /\ size = Len(o) /\ IsChain(afters(entry), first, o)
      /\ RemovesCurrent \/ AllIn(o, dos)
  <2>1. Sound(entry, buckets, first, last, o)
    BY DEF SoundMap
  <2>2. o \in Seq(Links) /\ IsChain(afters(entry), first, o)
    BY <2>1, SoundOrder
  <2> QED
    BY <1>2, <2>2 DEF SoundMap, DosInv, HasAt
<1>10. (size = Len(u))'
  <2>1. Len(u) = Len(o) - 1
    BY <1>3, <1>9, RemoveAtProperties
  <2> QED
    BY <1>5, <1>9, <2>1
<1>11. ~ RemovesCurrent => \A i \in 1..Len(dos) : dos[i] # o[p]
  <2>1. ~ RemovesCurrent => o[p] \notin ToSet(dos)
    BY <1>4 DEF RemoveKey
  <2>2. ~ RemovesCurrent => DOMAIN dos = 1..Len(dos)
    BY <1>9, LenProperties DEF AllIn
  <2> QED
    BY <2>1, <2>2 DEF ToSet
<1>12. DosInv(u)'
  <2>1. \A d : In(o, d) /\ d # o[p] => In(u, d)
    BY <1>3, <1>9, InRemoveAt
  <2>2. AllIn(o, dos) /\ (\A i \in 1..Len(dos) : dos[i] # o[p]) => AllIn(u, dos)
    BY <2>1 DEF AllIn
  <2> QED
    BY <1>5, <1>9, <1>11, <2>2 DEF DosInv
<1>13. SoundMap(u)'
  BY <1>8, <1>10, <1>12 DEF SoundMap
<1> QED
  BY <1>2, <1>3, <1>5, <1>6, <1>11, <1>13

LEMMA UnchangedSound ==
  ASSUME NEW o, SoundMap(o), UNCHANGED map, DosInv(o)'
  PROVE  SoundMap(o)'
<1>1. /\ hash' = hash /\ entry' = entry /\ buckets' = buckets /\ size' = size
      /\ first' = first /\ last' = last
  BY DEF map
<1>2. Sound(entry', buckets', first', last', o)
  BY <1>1 DEF SoundMap
<1>3. Sound(entry, buckets, first, last, o)'
  BY <1>1, <1>2, SoundNow
<1> QED
  BY <1>1, <1>3 DEF SoundMap

LEMMA DosSame ==
  ASSUME NEW o, SoundMap(o), dos' = dos
  PROVE  DosInv(o)'
BY DEF SoundMap, DosInv

LEMMA AllInAppend ==
  ASSUME NEW o, NEW s, AllIn(o, s), NEW e \in Nat, In(o, e)
  PROVE  AllIn(o, Append(s, e))
<1> DEFINE t == Append(s, e)
<1>1. s \in Seq(Nat) /\ Len(s) \in Nat /\ \A i \in 1..Len(s) : In(o, s[i])
  BY LenProperties DEF AllIn
<1>2. /\ t \in Seq(Nat) /\ Len(t) = Len(s) + 1 /\ t[Len(s) + 1] = e
      /\ \A i \in 1..Len(s) : t[i] = s[i]
  BY <1>1, AppendProperties
<1> HIDE DEF t
<1>3. \A i \in 1..Len(t) : i \in 1..Len(s) \/ i = Len(s) + 1
  BY <1>1, <1>2
<1>4. AllIn(o, t)
  BY <1>1, <1>2, <1>3 DEF AllIn
<1> QED
  BY <1>4 DEF t

LEMMA DoStep ==
  ASSUME NEW o, SoundMap(o), Do
  PROVE  /\ SoundMap(o)'
         /\ IF o = <<>> THEN result' = <<>> /\ dos' = dos
            ELSE /\ result' = <<entry[o[1]].key, entry[o[1]].val>>
                 /\ dos' = Append(dos, o[1])
<1>1. Sound(entry, buckets, first, last, o) /\ UNCHANGED map
  BY DEF SoundMap, Do
<1>2. /\ (o = <<>> <=> first = 0) /\ IsChain(afters(entry), first, o)
      /\ Len(o) \in Nat /\ (o = <<>> <=> Len(o) = 0)
      /\ \A i \in 1..Len(o) : o[i] \in 1..Len(entry)
  BY <1>1, SoundOrder
<1>3. RemovesCurrent \/ AllIn(o, dos)
  BY DEF SoundMap, DosInv
<1>4. CASE o = <<>>
  <2>1. result' = <<>> /\ dos' = dos
    BY <1>2, <1>4 DEF Do
  <2> QED
    BY <1>1, <1>4, <2>1, DosSame, UnchangedSound
<1>5. CASE o # <<>>
  <2>1. first # 0 /\ first = o[1]
    BY <1>2, <1>5 DEF IsChain
  <2>2. result' = <<entry[o[1]].key, entry[o[1]].val>> /\ dos' = Append(dos, o[1])
    BY <2>1 DEF Do, Evaluate
  <2>3. 1 \in 1..Len(o)
    BY <1>2, <1>5
  <2>4. In(o, o[1]) /\ o[1] \in Nat
    BY <1>2, <2>3 DEF In
  <2>5. AllIn(o, dos) => AllIn(o, dos')
    BY <2>2, <2>4, AllInAppend
  <2>6. DosInv(o)'
    BY <1>3, <2>5 DEF DosInv
  <2> QED
    BY <1>1, <1>5, <2>2, <2>6, UnchangedSound
<1> QED
  BY <1>4, <1>5

LEMMA FrontProperties ==
  ASSUME NEW S, NEW s \in Seq(S), s # <<>>
  PROVE  /\ Front(s) \in Seq(S) /\ Len(Front(s)) = Len(s) - 1 /\ Len(s) - 1 \in Nat
         /\ \A i \in 1..(Len(s) - 1) : i \in 1..Len(s) /\ Front(s)[i] = s[i]
         /\ Len(s) \in 1..Len(s) /\ Last(s) = s[Len(s)] /\ Last(s) \in S
<1> DEFINE t == SubSeq(s, 1, Len(s) - 1)
<1>1. Len(s) \in Nat /\ Len(s) # 0
  BY LenProperties, EmptySeq
<1>2. Len(s) - 1 \in Nat /\ Len(s) \in 1..Len(s) /\ \A i \in 1..(Len(s) - 1) : i \in 1..Len(s)
  BY <1>1
<1>3. \A i \in 1..(Len(s) - 1) : s[i] \in S
  BY <1>2, ElementOfSeq
<1>4. /\ t \in Seq(S)
      /\ Len(t) = IF 1 <= Len(s) - 1 THEN Len(s) - 1 - 1 + 1 ELSE 0
      /\ \A i \in 1..(Len(s) - 1 - 1 + 1) : t[i] = s[1 + i - 1]
  <2>1. \A i \in 1..(Len(s) - 1) : s[i] \in S
    BY <1>3
  <2>2. 1 \in Int /\ Len(s) - 1 \in Int
    BY <1>2
  <2> QED
    BY <2>1, <2>2, SubSeqProperties
<1> HIDE DEF t
<1>5. t \in Seq(S) /\ Len(t) = Len(s) - 1 /\ \A i \in 1..(Len(s) - 1) : t[i] = s[i]
  <2>1. /\ (IF 1 <= Len(s) - 1 THEN Len(s) - 1 - 1 + 1 ELSE 0) = Len(s) - 1
        /\ Len(s) - 1 - 1 + 1 = Len(s) - 1
    BY <1>1
  <2>2. \A i \in 1..(Len(s) - 1) : 1 + i - 1 = i
    BY <1>1
  <2> QED
    BY <1>4, <2>1, <2>2
<1>6. Last(s) = s[Len(s)] /\ Last(s) \in S
  BY <1>2, ElementOfSeq DEF Last
<1> QED
  BY <1>2, <1>5, <1>6 DEF t, Front

LEMMA AllInFront ==
  ASSUME NEW o, NEW s, AllIn(o, s), s # <<>>
  PROVE  AllIn(o, Front(s)) /\ In(o, Last(s)) /\ Last(s) = s[Len(s)]
<1>1. s \in Seq(Nat) /\ \A i \in 1..Len(s) : In(o, s[i])
  BY DEF AllIn
<1>2. /\ Front(s) \in Seq(Nat) /\ Len(Front(s)) = Len(s) - 1
      /\ \A i \in 1..(Len(s) - 1) : i \in 1..Len(s) /\ Front(s)[i] = s[i]
      /\ Len(s) \in 1..Len(s) /\ Last(s) = s[Len(s)]
  BY <1>1, FrontProperties
<1> QED
  BY <1>1, <1>2 DEF AllIn

\* The function of the innermost do:, which is at place p, returns.
LEMMA doOrderStep ==
  ASSUME NEW o, SoundMap(o), doOrder
  PROVE  /\ SoundMap(o)'
         /\ ~ RemovesCurrent =>
              \E p \in 1..Len(o) :
                /\ Last(dos) = o[p] /\ dos[Len(dos)] = o[p]
                /\ IF p = Len(o) THEN result' = <<>> /\ dos' = Front(dos)
                   ELSE /\ result' = <<entry[o[p + 1]].key, entry[o[p + 1]].val>>
                        /\ dos' = Append(Front(dos), o[p + 1])
<1> DEFINE a == entry[Last(dos)].after
<1>1. /\ Sound(entry, buckets, first, last, o) /\ UNCHANGED map /\ dos # <<>>
      /\ IF a = 0 THEN result' = <<>> /\ dos' = Front(dos)
         ELSE result' = <<entry[a].key, entry[a].val>> /\ dos' = Append(Front(dos), a)
  BY DEF SoundMap, doOrder, Evaluate
<1>2. Len(o) \in Nat /\ \A i \in 1..Len(o) : o[i] \in Links
  BY <1>1, SoundOrder, ElementOfSeq
<1>3. CASE RemovesCurrent
  BY <1>1, <1>3, UnchangedSound DEF DosInv
<1>4. CASE ~ RemovesCurrent
  <2>1. AllIn(o, dos)
    BY <1>4 DEF SoundMap, DosInv
  <2>2. AllIn(o, Front(dos)) /\ In(o, Last(dos)) /\ Last(dos) = dos[Len(dos)]
    BY <1>1, <2>1, AllInFront
  <2>3. PICK p \in 1..Len(o) : o[p] = Last(dos)
    BY <2>2 DEF In
  <2>4. a = IF p = Len(o) THEN 0 ELSE o[p + 1]
    BY <2>3, EntryLinks
  <2> HIDE DEF a
  <2>5. CASE p = Len(o)
    <3>1. result' = <<>> /\ dos' = Front(dos)
      BY <1>1, <2>4, <2>5
    <3>2. DosInv(o)'
      BY <2>2, <3>1 DEF DosInv
    <3> QED
      BY <1>1, <2>2, <2>3, <2>5, <3>1, <3>2, UnchangedSound
  <2>6. CASE p # Len(o)
    <3>1. p + 1 \in 1..Len(o)
      BY <1>2, <2>6
    <3>2. o[p + 1] # 0 /\ o[p + 1] \in Nat /\ In(o, o[p + 1])
      BY <1>2, <3>1 DEF Links, In
    <3>3. /\ result' = <<entry[o[p + 1]].key, entry[o[p + 1]].val>>
          /\ dos' = Append(Front(dos), o[p + 1])
      BY <1>1, <2>4, <2>6, <3>2
    <3>4. AllIn(o, dos')
      BY <2>2, <3>2, <3>3, AllInAppend
    <3>5. DosInv(o)'
      BY <3>4 DEF DosInv
    <3> QED
      BY <1>1, <2>2, <2>3, <2>6, <3>3, <3>5, UnchangedSound
  <2> QED
    BY <2>5, <2>6
<1> QED
  BY <1>3, <1>4

LEMMA InitSound == Init => SoundMap(<<>>)
<1> SUFFICES ASSUME Init PROVE SoundMap(<<>>)
  OBVIOUS
<1>1. /\ hash \in [Keys -> Nat] /\ InitBuckets \in Nat \ {0}
      /\ entry = <<>> /\ buckets = [i \in 1..InitBuckets |-> 0]
      /\ size = 0 /\ first = 0 /\ last = 0 /\ dos = <<>>
  BY BoundAssumption DEF Init
<1>2. buckets \in Seq(Nat) /\ Len(buckets) = InitBuckets /\ \A i \in 1..Len(buckets) : buckets[i] = 0
  BY <1>1
<1>3. Len(entry) = 0 /\ entry \in Seq(Entries)
  BY <1>1
<1>4. <<>> \in Seq(1..Len(entry)) /\ Len(<<>>) = 0 /\ DOMAIN <<>> = {} /\ \A d : ~ In(<<>>, d)
  BY DEF In
<1>5. Table(entry, buckets)
  BY <1>1, <1>2, <1>3 DEF Table
<1>6. Ordered(entry, first, last, <<>>)
  BY <1>1, <1>4 DEF Ordered, IsChain
<1>7. ASSUME NEW i \in 1..Len(buckets) PROVE BucketIs(entry, buckets, <<>>, i, <<>>)
  BY <1>2, <1>3, <1>4 DEF BucketIs, IsChain
<1>8. Bucketed(entry, buckets, <<>>)
  BY <1>7 DEF Bucketed
<1>9. DosInv(<<>>)
  BY <1>1 DEF DosInv, AllIn
<1> QED
  BY <1>1, <1>4, <1>5, <1>6, <1>8, <1>9 DEF SoundMap, Sound

LEMMA NextSound == IInv /\ [Next]_vars => IInv'
<1> SUFFICES ASSUME IInv, [Next]_vars PROVE IInv'
  OBVIOUS
<1>1. PICK o : SoundMap(o)
  BY DEF IInv
<1> SUFFICES \E u : SoundMap(u)'
  BY DEF IInv
<1>2. ASSUME NEW k \in Keys, At(k) PROVE SoundMap(o)'
  <2>1. UNCHANGED map /\ dos' = dos
    BY <1>2 DEF At
  <2> QED
    BY <1>1, <2>1, DosSame, UnchangedSound
<1>3. ASSUME NEW k \in Keys, RemoveAbsent(k) PROVE SoundMap(o)'
  <2>1. UNCHANGED map /\ dos' = dos
    BY <1>3 DEF RemoveAbsent
  <2> QED
    BY <1>1, <2>1, DosSame, UnchangedSound
<1>4. ASSUME NEW k \in Keys, RemoveKey(k) PROVE \E u : SoundMap(u)'
  BY <1>1, <1>4, RemoveStep
<1>5. ASSUME NEW k \in Keys, NEW v \in Vals, Change(k, v) PROVE SoundMap(o)'
  BY <1>1, <1>5, ChangeStep
<1>6. ASSUME NEW k \in Keys, NEW v \in Vals, Insert(k, v) PROVE \E u : SoundMap(u)'
  BY <1>1, <1>6, InsertStep
<1>7. ASSUME Size PROVE SoundMap(o)'
  <2>1. UNCHANGED map /\ dos' = dos
    BY <1>7 DEF Size
  <2> QED
    BY <1>1, <2>1, DosSame, UnchangedSound
<1>8. ASSUME Do PROVE SoundMap(o)'
  BY <1>1, <1>8, DoStep
<1>9. ASSUME doOrder PROVE SoundMap(o)'
  BY <1>1, <1>9, doOrderStep
<1>10. ASSUME UNCHANGED vars PROVE SoundMap(o)'
  <2>1. UNCHANGED map /\ dos' = dos
    BY <1>10 DEF vars, map
  <2> QED
    BY <1>1, <2>1, DosSame, UnchangedSound
<1> QED
  BY <1>2, <1>3, <1>4, <1>5, <1>6, <1>7, <1>8, <1>9, <1>10 DEF Next

\* The invariant holds.
LEMMA Invariant == Spec => []IInv
<1>1. Init => IInv
  BY InitSound DEF IInv
<1> QED
  BY <1>1, NextSound, PTL DEF Spec

\* A bucket has the entries that do: visits and that belong to it, after any
\* insertions, removals, changes and grows, whatever the functions of the do:s under
\* way remove, for all keys, hash methods and numbers of buckets.
THEOREM SameEntriesCorrect == Spec => []SameEntries
BY Invariant, SoundSame, PTL

-----------------------------------------------------------------------------
(* The map as an ordered map *)

\* The keys that are left for a do: that is at place p of the order.
ItemsOf(entries, o) ==
  [i \in 1..Len(o) |-> [key |-> entries[o[i]].key, val |-> entries[o[i]].val]]
KeysAfter(entries, o, p) == [i \in 1..(Len(o) - p) |-> entries[o[p + i]].key]
PlaceIn(o, e) == CHOOSE p \in 1..Len(o) : o[p] = e
TodoOf(entries, s, o) == [i \in 1..Len(s) |-> KeysAfter(entries, o, PlaceIn(o, s[i]))]

MapInv(o) == Items = ItemsOf(entry, o) /\ Todo = TodoOf(entry, dos, o)

\* An order that can be one: no entry and no key comes twice.
Plain(entries, o) ==
  /\ entries \in Seq(Entries) /\ o \in Seq(1..Len(entries))
  /\ \A i, j \in 1..Len(o) : o[i] = o[j] => i = j
  /\ \A i, j \in 1..Len(o) : entries[o[i]].key = entries[o[j]].key => i = j

LEMMA SoundPlain ==
  ASSUME NEW o, SoundMap(o)
  PROVE  Plain(entry, o)
<1>1. Sound(entry, buckets, first, last, o)
  BY DEF SoundMap
<1> QED
  BY <1>1, SoundOrder DEF Plain, Sound, Ordered

LEMMA PlainTypes ==
  ASSUME NEW entries, NEW o, Plain(entries, o)
  PROVE  /\ Len(entries) \in Nat /\ Len(o) \in Nat
         /\ \A i \in 1..Len(o) : /\ o[i] \in 1..Len(entries) /\ o[i] \in Nat
                                 /\ entries[o[i]].key \in Keys /\ entries[o[i]].val \in Vals
<1>1. entries \in Seq(Entries) /\ Len(entries) \in Nat /\ Len(o) \in Nat
  BY LenProperties DEF Plain
<1>2. \A i \in 1..Len(o) : o[i] \in 1..Len(entries)
  BY <1>1, LinksOf DEF Plain
<1>3. \A d \in 1..Len(entries) : entries[d].key \in Keys /\ entries[d].val \in Vals /\ d \in Nat
  <2>1. \A d \in 1..Len(entries) : entries[d] \in Entries
    BY <1>1, TableLinks
  <2>2. \A d \in 1..Len(entries) : d \in Nat
    BY <1>1
  <2> QED
    BY <2>1, <2>2 DEF Entries
<1> QED
  BY <1>1, <1>2, <1>3

LEMMA PlaceInIs ==
  ASSUME NEW entries, NEW o, Plain(entries, o), NEW p \in 1..Len(o)
  PROVE  PlaceIn(o, o[p]) = p
BY DEF PlaceIn, Plain

ItemsAre(s, entries, o) ==
  /\ s \in Seq([key : Keys, val : Vals]) /\ Len(s) = Len(o) /\ DOMAIN s = 1..Len(o)
  /\ \A i \in 1..Len(o) :
       /\ s[i] = [key |-> entries[o[i]].key, val |-> entries[o[i]].val]
       /\ s[i].key = entries[o[i]].key /\ s[i].val = entries[o[i]].val

KeysAre(s, entries, o, p) ==
  /\ s \in Seq(Keys) /\ Len(s) = Len(o) - p /\ Len(o) - p \in Nat
  /\ DOMAIN s = 1..(Len(o) - p)
  /\ \A i \in 1..(Len(o) - p) : p + i \in 1..Len(o) /\ s[i] = entries[o[p + i]].key

LEMMA ItemsProperties ==
  ASSUME NEW entries, NEW o, Plain(entries, o)
  PROVE  ItemsAre(ItemsOf(entries, o), entries, o)
<1> SUFFICES ASSUME NEW s, s = ItemsOf(entries, o) PROVE ItemsAre(s, entries, o)
  OBVIOUS
<1> DEFINE e(i) == [key |-> entries[o[i]].key, val |-> entries[o[i]].val]
           n == Len(o)
<1>1. n \in Nat /\ \A i \in 1..n : e(i) \in [key : Keys, val : Vals]
  BY PlainTypes
<1>2. s = [i \in 1..n |-> e(i)]
  BY DEF ItemsOf
<1>3. \A i \in 1..n : e(i).key = entries[o[i]].key /\ e(i).val = entries[o[i]].val
  OBVIOUS
<1> HIDE DEF e, n
<1>4. /\ [i \in 1..n |-> e(i)] \in Seq([key : Keys, val : Vals])
      /\ Len([i \in 1..n |-> e(i)]) = n
  BY <1>1, IsASeq
<1>5. \A i \in 1..n : s[i] = e(i)
  BY <1>2
<1>6. DOMAIN s = 1..n
  BY <1>2
<1> QED
  BY <1>2, <1>3, <1>4, <1>5, <1>6 DEF e, n, ItemsAre

LEMMA KeysProperties ==
  ASSUME NEW entries, NEW o, Plain(entries, o), NEW p \in 0..Len(o)
  PROVE  KeysAre(KeysAfter(entries, o, p), entries, o, p)
<1> SUFFICES ASSUME NEW s, s = KeysAfter(entries, o, p) PROVE KeysAre(s, entries, o, p)
  OBVIOUS
<1> DEFINE e(i) == entries[o[p + i]].key
           n == Len(o) - p
<1>1. n \in Nat /\ \A i \in 1..n : p + i \in 1..Len(o)
  <2>1. Len(o) \in Nat
    BY PlainTypes
  <2> QED
    BY <2>1
<1>2. \A i \in 1..n : e(i) \in Keys
  BY <1>1, PlainTypes
<1>3. s = [i \in 1..n |-> e(i)]
  BY DEF KeysAfter
<1> HIDE DEF e, n
<1>4. [i \in 1..n |-> e(i)] \in Seq(Keys) /\ Len([i \in 1..n |-> e(i)]) = n
  BY <1>1, <1>2, IsASeq
<1>5. DOMAIN s = 1..n /\ \A i \in 1..n : s[i] = e(i)
  BY <1>3
<1> QED
  BY <1>1, <1>3, <1>4, <1>5 DEF e, n, KeysAre

\* Where the do:s are.
LEMMA DosPlaces ==
  ASSUME NEW o, SoundMap(o), ~ RemovesCurrent
  PROVE  /\ dos \in Seq(Nat) /\ Len(dos) \in Nat /\ DOMAIN dos = 1..Len(dos)
         /\ \A i \in 1..Len(dos) : /\ PlaceIn(o, dos[i]) \in 1..Len(o)
                                   /\ o[PlaceIn(o, dos[i])] = dos[i]
<1>1. AllIn(o, dos)
  BY DEF SoundMap, DosInv
<1>2. \A i \in 1..Len(dos) : In(o, dos[i])
  BY <1>1 DEF AllIn
<1>3. ASSUME NEW i \in 1..Len(dos)
      PROVE  PlaceIn(o, dos[i]) \in 1..Len(o) /\ o[PlaceIn(o, dos[i])] = dos[i]
  <2>1. \E p \in 1..Len(o) : o[p] = dos[i]
    BY <1>2 DEF In
  <2> QED
    BY <2>1 DEF PlaceIn
<1> QED
  BY <1>1, <1>3, LenProperties DEF AllIn

LEMMA SoundMaps ==
  ASSUME NEW o, SoundMap(o), ~ RemovesCurrent
  PROVE  MapInv(o)
<1>1. /\ Sound(entry, buckets, first, last, o) /\ entry \in Seq(Entries)
      /\ o \in Seq(Links) /\ o \in Seq(1..Len(entry)) /\ DOMAIN o = 1..Len(o)
      /\ IsChain(afters(entry), first, o) /\ Len(o) \in Nat
  <2>1. Sound(entry, buckets, first, last, o)
    BY DEF SoundMap
  <2> QED
    BY <2>1, SoundOrder
<1>2. Order(first) = o
  BY <1>1, BucketChain DEF Order
<1>3. Items = ItemsOf(entry, o)
  BY <1>1, <1>2 DEF Items, ItemsOf
<1>4. ASSUME NEW p \in 1..Len(o)
      PROVE  KeysFrom(entry[o[p]].after) = KeysAfter(entry, o, p)
  <2>1. entry[o[p]].after = LinkAfter(o, p)
    BY EntryLinks DEF LinkAfter
  <2>2. p \in 0..Len(o)
    BY <1>1
  <2>3. IsChain(afters(entry), LinkAfter(o, p), After(o, p))
    BY <1>1, <2>2, AfterIsChain
  <2>4. /\ After(o, p) \in Seq(1..Len(entry)) /\ Len(After(o, p)) = Len(o) - p
        /\ \A i \in 1..(Len(o) - p) : After(o, p)[i] = o[p + i]
    <3>1. o \in Seq(1..Len(entry))
      BY <1>1
    <3> QED
      BY <2>2, <3>1, AfterProperties
  <2>5. Chain(afters(entry), LinkAfter(o, p)) = After(o, p)
    BY <1>1, <2>3, <2>4, TableLinks, ChainIs
  <2>6. DOMAIN After(o, p) = 1..(Len(o) - p)
    BY <2>4, LenProperties
  <2>7. KeysFrom(entry[o[p]].after) = [i \in DOMAIN After(o, p) |-> entry[After(o, p)[i]].key]
    BY <2>1, <2>5 DEF KeysFrom, Order
  <2> QED
    BY <2>4, <2>6, <2>7 DEF KeysAfter
<1>5. Todo = TodoOf(entry, dos, o)
  <2>1. /\ DOMAIN dos = 1..Len(dos)
        /\ \A i \in 1..Len(dos) : /\ PlaceIn(o, dos[i]) \in 1..Len(o)
                                  /\ o[PlaceIn(o, dos[i])] = dos[i]
    BY DosPlaces
  <2>2. \A i \in 1..Len(dos) :
          KeysFrom(entry[dos[i]].after) = KeysAfter(entry, o, PlaceIn(o, dos[i]))
    BY <1>4, <2>1
  <2> QED
    BY <2>1, <2>2 DEF Todo, TodoOf
<1> QED
  BY <1>3, <1>5 DEF MapInv

LEMMA SoundNext ==
  ASSUME NEW o, SoundMap(o)', ~ RemovesCurrent
  PROVE  MapInv(o)' /\ Plain(entry, o)'
BY SoundMaps, SoundPlain, PTL

\* What the abstract map has of key k.
LEMMA AbstractPlace ==
  ASSUME NEW o, SoundMap(o), ~ RemovesCurrent, NEW k
  PROVE  /\ Abstract!Has(k) <=> \E p : HasAt(o, k, p)
         /\ \A p : HasAt(o, k, p) =>
              Abstract!Place(k) = p /\ Abstract!Get(k) = entry[o[p]].val
<1>1. Plain(entry, o) /\ Items = ItemsOf(entry, o)
  BY SoundPlain, SoundMaps DEF MapInv
<1>2. /\ DOMAIN Items = 1..Len(o)
      /\ \A i \in 1..Len(o) : Items[i].key = entry[o[i]].key /\ Items[i].val = entry[o[i]].val
  <2>1. PICK s : s = ItemsOf(entry, o)
    OBVIOUS
  <2>2. /\ DOMAIN s = 1..Len(o)
        /\ \A i \in 1..Len(o) : s[i].key = entry[o[i]].key /\ s[i].val = entry[o[i]].val
    <3>1. ItemsAre(s, entry, o)
      BY <1>1, <2>1, ItemsProperties
    <3> QED
      BY <3>1 DEF ItemsAre
  <2> QED
    BY <1>1, <2>1, <2>2
<1>3. Abstract!Has(k) <=> \E p : HasAt(o, k, p)
  BY <1>2 DEF Abstract!Has, HasAt
<1>4. ASSUME NEW p, HasAt(o, k, p)
      PROVE  Abstract!Place(k) = p /\ Abstract!Get(k) = entry[o[p]].val
  <2>1. p \in 1..Len(o) /\ entry[o[p]].key = k
    BY <1>4 DEF HasAt
  <2>2. \A i \in DOMAIN Items : Items[i].key = k <=> i = p
    BY <1>1, <1>2, <2>1 DEF Plain
  <2>3. Abstract!Place(k) = p
    BY <1>2, <2>1, <2>2 DEF Abstract!Place
  <2> QED
    BY <1>2, <2>1, <2>3 DEF Abstract!Get
<1> QED
  BY <1>3, <1>4

LEMMA AtImplements ==
  ASSUME NEW o, SoundMap(o), ~ RemovesCurrent, NEW k \in Keys, At(k)
  PROVE  Abstract!At(k)
<1>1. UNCHANGED <<Items, Todo>>
  BY DEF At, map, Items, Todo, KeysFrom, Order, afters
<1>2. CASE Found(k)
  <2>1. PICK p : HasAt(o, k, p)
    BY <1>2, FoundIs
  <2>2. EntryOf(k) = o[p]
    BY <2>1, FoundIs
  <2>3. Abstract!Has(k) /\ Abstract!Get(k) = entry[o[p]].val
    BY <2>1, AbstractPlace
  <2>4. result' = <<entry[o[p]].val>>
    BY <1>2, <2>2 DEF At, Some
  <2> QED
    BY <1>1, <2>3, <2>4 DEF Abstract!At
<1>3. CASE ~ Found(k)
  <2>1. ~ \E p : HasAt(o, k, p)
    BY <1>3, FoundIs DEF HasAt
  <2>2. ~ Abstract!Has(k)
    BY <2>1, AbstractPlace
  <2>3. result' = <<>>
    BY <1>3 DEF At
  <2> QED
    BY <1>1, <2>2, <2>3 DEF Abstract!At
<1> QED
  BY <1>2, <1>3

LEMMA SizeImplements ==
  ASSUME NEW o, SoundMap(o), ~ RemovesCurrent, Size
  PROVE  Abstract!Size
<1>1. UNCHANGED <<Items, Todo>>
  BY DEF Size, map, Items, Todo, KeysFrom, Order, afters
<1>2. Len(Items) = Len(o)
  BY SoundPlain, SoundMaps, ItemsProperties DEF MapInv, ItemsAre
<1>3. result' = <<Len(Items)>>
  BY <1>2 DEF Size, SoundMap
<1> QED
  BY <1>1, <1>3 DEF Abstract!Size

LEMMA ChangeImplements ==
  ASSUME NEW o, SoundMap(o), ~ RemovesCurrent, NEW k \in Keys, NEW v \in Vals, Change(k, v)
  PROVE  Abstract!AtPut(k, v)
<1>1. PICK p : /\ SoundMap(o)' /\ HasAt(o, k, p) /\ result' = <<entry[o[p]].val>>
               /\ \A d \in 1..Len(entry) :
                    /\ entry'[d].key = entry[d].key
                    /\ entry'[d].val = IF d = o[p] THEN v ELSE entry[d].val
  BY ChangeStep
<1>2. MapInv(o) /\ MapInv(o)' /\ Plain(entry, o)
  BY <1>1, SoundMaps, SoundPlain, SoundNext
<1>3. /\ Items = ItemsOf(entry, o) /\ Items' = ItemsOf(entry', o)
      /\ Todo = TodoOf(entry, dos, o) /\ Todo' = TodoOf(entry', dos, o) /\ dos' = dos
  BY <1>2 DEF MapInv, Change
<1>4. Abstract!Has(k) /\ Abstract!Place(k) = p /\ Abstract!Get(k) = entry[o[p]].val
  BY <1>1, AbstractPlace
<1>5. /\ p \in 1..Len(o) /\ entry[o[p]].key = k
      /\ \A i \in 1..Len(o) : o[i] \in 1..Len(entry) /\ (o[i] = o[p] <=> i = p)
  BY <1>1, <1>2, PlainTypes DEF HasAt, Plain
<1>6. \A i \in 1..Len(o) : /\ entry'[o[i]].key = entry[o[i]].key
                           /\ entry'[o[i]].val = IF i = p THEN v ELSE entry[o[i]].val
  BY <1>1, <1>5
<1>7. /\ DOMAIN Items = 1..Len(o)
      /\ \A i \in 1..Len(o) : Items[i] = [key |-> entry[o[i]].key, val |-> entry[o[i]].val]
  BY <1>3 DEF ItemsOf
<1>8. Items' = [i \in DOMAIN Items |-> IF i = p THEN [key |-> k, val |-> v] ELSE Items[i]]
  <2>1. \A i \in 1..Len(o) :
          [key |-> entry'[o[i]].key, val |-> entry'[o[i]].val] =
            IF i = p THEN [key |-> k, val |-> v] ELSE Items[i]
    BY <1>5, <1>6, <1>7
  <2>2. Items' = [i \in 1..Len(o) |-> [key |-> entry'[o[i]].key, val |-> entry'[o[i]].val]]
    BY <1>3 DEF ItemsOf
  <2> QED
    BY <1>7, <2>1, <2>2
<1>9. Todo' = Todo
  <2>1. ASSUME NEW i \in 1..Len(dos)
        PROVE  KeysAfter(entry', o, PlaceIn(o, dos[i])) = KeysAfter(entry, o, PlaceIn(o, dos[i]))
    <3>1. PICK q : q = PlaceIn(o, dos[i])
      OBVIOUS
    <3>2. q \in 1..Len(o) /\ Len(o) \in Nat
      BY <1>2, <3>1, DosPlaces, PlainTypes
    <3>3. \A j \in 1..(Len(o) - q) : q + j \in 1..Len(o)
      BY <3>2
    <3>4. KeysAfter(entry', o, q) = KeysAfter(entry, o, q)
      BY <1>6, <3>3 DEF KeysAfter
    <3> QED
      BY <3>1, <3>4
  <2> QED
    BY <1>3, <2>1 DEF TodoOf
<1> QED
  BY <1>1, <1>4, <1>8, <1>9 DEF Abstract!AtPut

LEMMA InsertImplements ==
  ASSUME NEW o, SoundMap(o), ~ RemovesCurrent, NEW k \in Keys, NEW v \in Vals, Insert(k, v)
  PROVE  Abstract!AtPut(k, v)
<1>1. PICK u : /\ u = Append(o, Len(entry) + 1) /\ SoundMap(u)'
               /\ Len(entry') = Len(entry) + 1 /\ result' = <<>> /\ dos' = dos
               /\ ~ \E p : HasAt(o, k, p)
               /\ entry'[Len(entry) + 1].key = k /\ entry'[Len(entry) + 1].val = v
               /\ \A d \in 1..Len(entry) :
                    entry'[d].key = entry[d].key /\ entry'[d].val = entry[d].val
  BY InsertStep
<1>2. MapInv(o) /\ MapInv(u)' /\ Plain(entry, o) /\ Plain(entry, u)'
  BY <1>1, SoundMaps, SoundPlain, SoundNext
<1>3. /\ Items = ItemsOf(entry, o) /\ Items' = ItemsOf(entry', u)
      /\ Todo = TodoOf(entry, dos, o) /\ Todo' = TodoOf(entry', dos, u)
      /\ Plain(entry', u)
  BY <1>1, <1>2 DEF MapInv, Plain
<1>4. ~ Abstract!Has(k)
  BY <1>1, AbstractPlace
<1>5. PICK n : n = Len(o)
  OBVIOUS
<1>6. /\ n \in Nat /\ Len(u) = n + 1 /\ u[n + 1] = Len(entry) + 1 /\ \A i \in 1..n : u[i] = o[i]
      /\ \A i \in 1..n : o[i] \in 1..Len(entry)
  <2>1. /\ n \in Nat /\ Len(entry) \in Nat
        /\ \A i \in 1..n : o[i] \in 1..Len(entry)
    BY <1>2, <1>5, PlainTypes
  <2>2. o \in Seq(Nat) /\ Len(entry) + 1 \in Nat
    <3>1. 1..Len(entry) \subseteq Nat
      BY <2>1
    <3> QED
      BY <1>2, <2>1, <3>1, SeqMonotonic DEF Plain
  <2> QED
    BY <1>1, <1>5, <2>1, <2>2, AppendProperties
<1>7. /\ \A i \in 1..n : entry'[u[i]].key = entry[o[i]].key /\ entry'[u[i]].val = entry[o[i]].val
      /\ entry'[u[n + 1]].key = k /\ entry'[u[n + 1]].val = v
  BY <1>1, <1>6
<1>8. \A i \in 1..(n + 1) : i \in 1..n \/ i = n + 1
  BY <1>6
<1>9. Items' = Append(Items, [key |-> k, val |-> v])
  <2> DEFINE S == [key : Keys, val : Vals]
             x == [key |-> k, val |-> v]
  <2>s. PICK s : s = ItemsOf(entry, o)
    OBVIOUS
  <2>t. PICK t : t = ItemsOf(entry', u)
    OBVIOUS
  <2>1. s \in Seq(S) /\ Len(s) = n /\ x \in S
        /\ \A i \in 1..n : s[i] = [key |-> entry[o[i]].key, val |-> entry[o[i]].val]
    <3>1. ItemsAre(s, entry, o)
      BY <1>2, <2>s, ItemsProperties
    <3> QED
      BY <1>2, <1>5, <3>1 DEF ItemsAre
  <2>2. /\ t \in Seq(S) /\ Len(t) = n + 1
        /\ \A i \in 1..(n + 1) : t[i] = [key |-> entry'[u[i]].key, val |-> entry'[u[i]].val]
    <3>1. ItemsAre(t, entry', u)
      BY <1>3, <2>t, ItemsProperties
    <3> QED
      BY <1>6, <3>1 DEF ItemsAre
  <2>3. \A i \in 1..n : t[i] = s[i]
    <3>1. \A i \in 1..n : i \in 1..(n + 1)
      BY <1>6
    <3> QED
      BY <1>7, <2>1, <2>2, <3>1
  <2>4. t[n + 1] = x
    <3>1. n + 1 \in 1..(n + 1)
      BY <1>6
    <3> QED
      BY <1>7, <2>2, <3>1
  <2> HIDE DEF S, x
  <2>5. /\ Append(s, x) \in Seq(S) /\ Len(Append(s, x)) = n + 1
        /\ Append(s, x)[n + 1] = x /\ \A i \in 1..n : Append(s, x)[i] = s[i]
    BY <2>1, AppendProperties
  <2>6. \A i \in 1..Len(t) : t[i] = Append(s, x)[i]
    BY <1>8, <2>2, <2>3, <2>4, <2>5
  <2>7. t = Append(s, x)
    BY <2>2, <2>5, <2>6, SeqEqual
  <2> QED
    BY <1>3, <2>s, <2>t, <2>7 DEF x
<1>10. ASSUME NEW p \in 1..n
       PROVE  KeysAfter(entry', u, p) = Append(KeysAfter(entry, o, p), k)
  <2>s. PICK s : s = KeysAfter(entry, o, p)
    OBVIOUS
  <2>t. PICK t : t = KeysAfter(entry', u, p)
    OBVIOUS
  <2>m. PICK m : m = n - p
    OBVIOUS
  <2>1. p \in 0..n /\ p \in 0..(n + 1) /\ (n + 1) - p = m + 1 /\ m \in Nat /\ p + (m + 1) = n + 1
    BY <1>6, <2>m
  <2>2. /\ s \in Seq(Keys) /\ Len(s) = m
        /\ \A i \in 1..m : p + i \in 1..n /\ s[i] = entry[o[p + i]].key
    <3>1. KeysAre(s, entry, o, p)
      BY <1>2, <1>5, <2>1, <2>s, KeysProperties
    <3> QED
      BY <1>5, <2>m, <3>1 DEF KeysAre
  <2>3. /\ t \in Seq(Keys) /\ Len(t) = m + 1
        /\ \A i \in 1..(m + 1) : t[i] = entry'[u[p + i]].key
    <3>1. KeysAre(t, entry', u, p)
      BY <1>3, <1>6, <2>1, <2>t, KeysProperties
    <3> QED
      BY <1>6, <2>1, <3>1 DEF KeysAre
  <2>4. /\ Append(s, k) \in Seq(Keys) /\ Len(Append(s, k)) = m + 1
        /\ Append(s, k)[m + 1] = k /\ \A i \in 1..m : Append(s, k)[i] = s[i]
    BY <2>2, AppendProperties
  <2>5. \A i \in 1..(m + 1) : i \in 1..m \/ i = m + 1
    BY <2>1
  <2>6. ASSUME NEW i \in 1..Len(t) PROVE t[i] = Append(s, k)[i]
    <3>1. CASE i \in 1..m
      <4>1. t[i] = entry'[u[p + i]].key /\ p + i \in 1..n
        BY <2>2, <2>3, <3>1
      <4>2. entry'[u[p + i]].key = s[i]
        BY <1>7, <2>2, <3>1, <4>1
      <4> QED
        BY <2>4, <3>1, <4>1, <4>2
    <3>2. CASE i = m + 1
      <4>1. t[m + 1] = entry'[u[p + (m + 1)]].key
        BY <2>3, <3>2
      <4> QED
        BY <1>7, <2>1, <2>4, <3>2, <4>1
    <3> QED
      BY <2>3, <2>5, <3>1, <3>2
  <2>7. t = Append(s, k)
    BY <2>3, <2>4, <2>6, SeqEqual
  <2> QED
    BY <2>7, <2>s, <2>t
<1>11. Todo' = [i \in DOMAIN Todo |-> Append(Todo[i], k)]
  <2>1. ASSUME NEW i \in 1..Len(dos)
        PROVE  KeysAfter(entry', u, PlaceIn(u, dos[i])) =
                 Append(KeysAfter(entry, o, PlaceIn(o, dos[i])), k)
    <3>1. PICK p : p = PlaceIn(o, dos[i])
      OBVIOUS
    <3>2. p \in 1..n /\ o[p] = dos[i]
      BY <1>5, <3>1, DosPlaces
    <3>3. p \in 1..Len(u) /\ u[p] = dos[i]
      <4>1. p \in 1..(n + 1)
        BY <1>6, <3>2
      <4> QED
        BY <1>6, <3>2, <4>1
    <3>4. PlaceIn(u, dos[i]) = p
      BY <1>3, <3>3, PlaceInIs
    <3> QED
      BY <1>10, <3>1, <3>2, <3>4
  <2> QED
    BY <1>3, <2>1 DEF TodoOf
<1> QED
  BY <1>1, <1>4, <1>9, <1>11 DEF Abstract!AtPut

\* The keys that are left do not have k.
LEMMA NotAhead ==
  ASSUME NEW entries, NEW o, Plain(entries, o), NEW p \in 0..Len(o), NEW k,
         \A i \in 1..Len(o) : i > p => entries[o[i]].key # k
  PROVE  Abstract!Without(k, KeysAfter(entries, o, p)) = KeysAfter(entries, o, p)
<1>1. PICK s : s = KeysAfter(entries, o, p)
  OBVIOUS
<1>2. KeysAre(s, entries, o, p)
  BY <1>1, KeysProperties
<1>3. ASSUME NEW i \in DOMAIN s PROVE s[i] # k
  <2>1. i \in 1..(Len(o) - p) /\ p + i \in 1..Len(o) /\ s[i] = entries[o[p + i]].key
    BY <1>2, <1>3 DEF KeysAre
  <2>2. p + i > p
    <3>1. Len(o) \in Nat /\ i \in 1..(Len(o) - p)
      BY <2>1, PlainTypes
    <3> QED
      BY <3>1
  <2> QED
    BY <2>1, <2>2
<1> QED
  BY <1>1, <1>3 DEF Abstract!Without

\* And if they have it, they have it once.
LEMMA AheadOnce ==
  ASSUME NEW entries, NEW o, Plain(entries, o), NEW q \in 0..Len(o), NEW p \in 1..Len(o), q < p,
         NEW k, k = entries[o[p]].key, NEW s, s = KeysAfter(entries, o, q)
  PROVE  p - q \in 1..Len(s) /\ Abstract!Without(k, s) = RemoveAt(s, p - q)
<1>1. KeysAre(s, entries, o, q)
  BY KeysProperties
<1>2. /\ DOMAIN s = 1..Len(s) /\ Len(s) = Len(o) - q /\ Len(o) \in Nat /\ q \in Nat /\ p \in Nat
      /\ \A i \in 1..(Len(o) - q) : q + i \in 1..Len(o) /\ s[i] = entries[o[q + i]].key
  <2>1. Len(o) \in Nat
    BY PlainTypes
  <2> QED
    BY <1>1, <2>1 DEF KeysAre
<1>3. p - q \in 1..(Len(o) - q) /\ q + (p - q) = p
  <2>1. Len(o) \in Nat /\ q \in Nat /\ p \in Nat
    BY <1>2
  <2> QED
    BY <2>1
<1>4. s[p - q] = k
  BY <1>2, <1>3
<1>5. ASSUME NEW i \in DOMAIN s, s[i] = k PROVE i = p - q
  <2>1. i \in 1..(Len(o) - q) /\ q + i \in 1..Len(o) /\ entries[o[q + i]].key = entries[o[p]].key
    BY <1>2, <1>5
  <2>2. q + i = p
    BY <2>1 DEF Plain
  <2>3. q \in Nat /\ p \in Nat /\ i \in Nat
    <3>1. Len(o) - q \in Nat /\ q \in Nat /\ p \in Nat
      BY <1>1, <1>2 DEF KeysAre
    <3> QED
      BY <2>1, <3>1
  <2> QED
    BY <2>2, <2>3
<1>6. (CHOOSE i \in DOMAIN s : s[i] = k) = p - q
  BY <1>2, <1>3, <1>4, <1>5
<1>7. Abstract!Without(k, s) = RemoveAt(s, p - q)
  <2>1. \E i \in DOMAIN s : s[i] = k
    BY <1>2, <1>3, <1>4
  <2> QED
    BY <1>6, <2>1 DEF Abstract!Without, Abstract!RemoveAt, RemoveAt
<1> QED
  BY <1>2, <1>3, <1>7

\* What a removal does to the items and to the keys that are left for a do:.
SameData(entries, to) ==
  /\ Len(to) = Len(entries)
  /\ \A d \in 1..Len(entries) : to[d].key = entries[d].key /\ to[d].val = entries[d].val

Shorter(entries, o, p, to, u) ==
  /\ Plain(entries, o) /\ Plain(to, u) /\ SameData(entries, to)
  /\ p \in 1..Len(o) /\ u = RemoveAt(o, p)

LEMMA ShorterPlaces ==
  ASSUME NEW entries, NEW o, NEW p, NEW to, NEW u, Shorter(entries, o, p, to, u)
  PROVE  /\ Len(o) \in Nat /\ p \in Nat /\ p \in 1..Len(o) /\ Len(u) = Len(o) - 1
         /\ Len(o) - 1 \in Nat
         /\ \A i \in 1..(Len(o) - 1) :
              /\ i < p => /\ u[i] = o[i] /\ to[u[i]].key = entries[o[i]].key
                          /\ to[u[i]].val = entries[o[i]].val
              /\ ~ i < p => /\ u[i] = o[i + 1] /\ to[u[i]].key = entries[o[i + 1]].key
                            /\ to[u[i]].val = entries[o[i + 1]].val
<1>1. Plain(entries, o) /\ p \in 1..Len(o) /\ u = RemoveAt(o, p)
  BY DEF Shorter
<1>2. /\ Len(u) = Len(o) - 1 /\ Len(o) - 1 \in Nat /\ Len(o) \in Nat
      /\ \A i \in 1..(Len(o) - 1) : u[i] = IF i < p THEN o[i] ELSE o[i + 1]
  <2>1. o \in Seq(1..Len(entries))
    BY <1>1 DEF Plain
  <2> QED
    BY <1>1, <2>1, RemoveAtProperties
<1>3. \A i \in 1..Len(o) : o[i] \in 1..Len(entries)
  BY <1>1, PlainTypes
<1>4. \A i \in 1..Len(o) : /\ to[o[i]].key = entries[o[i]].key
                           /\ to[o[i]].val = entries[o[i]].val
  BY <1>3 DEF Shorter, SameData
<1>5. \A i \in 1..(Len(o) - 1) : i \in 1..Len(o) /\ i + 1 \in 1..Len(o)
  BY <1>2
<1>6. p \in Nat
  BY <1>1, <1>2
<1> QED
  BY <1>1, <1>2, <1>4, <1>5, <1>6

LEMMA ItemsShorter ==
  ASSUME NEW entries, NEW o, NEW p, NEW to, NEW u, Shorter(entries, o, p, to, u)
  PROVE  ItemsOf(to, u) = RemoveAt(ItemsOf(entries, o), p)
<1>s. PICK s : s = ItemsOf(entries, o)
  OBVIOUS
<1>t. PICK t : t = ItemsOf(to, u)
  OBVIOUS
<1>r. PICK r : r = RemoveAt(s, p)
  OBVIOUS
<1> DEFINE S == [key : Keys, val : Vals]
<1>1. Plain(entries, o) /\ Plain(to, u)
  BY DEF Shorter
<1>2. ItemsAre(s, entries, o) /\ ItemsAre(t, to, u)
  BY <1>1, <1>s, <1>t, ItemsProperties
<1>3. /\ Len(o) \in Nat /\ p \in Nat /\ p \in 1..Len(o) /\ Len(u) = Len(o) - 1
      /\ \A i \in 1..(Len(o) - 1) :
           /\ i < p => /\ u[i] = o[i] /\ to[u[i]].key = entries[o[i]].key
                       /\ to[u[i]].val = entries[o[i]].val
           /\ ~ i < p => /\ u[i] = o[i + 1] /\ to[u[i]].key = entries[o[i + 1]].key
                         /\ to[u[i]].val = entries[o[i + 1]].val
  BY ShorterPlaces
<1>4. /\ s \in Seq(S) /\ Len(s) = Len(o) /\ t \in Seq(S) /\ Len(t) = Len(o) - 1
      /\ \A i \in 1..Len(o) : s[i] = [key |-> entries[o[i]].key, val |-> entries[o[i]].val]
      /\ \A i \in 1..(Len(o) - 1) : t[i] = [key |-> to[u[i]].key, val |-> to[u[i]].val]
  BY <1>2, <1>3 DEF ItemsAre
<1> HIDE DEF S
<1>5. /\ r \in Seq(S) /\ Len(r) = Len(o) - 1
      /\ \A i \in 1..(Len(o) - 1) : r[i] = IF i < p THEN s[i] ELSE s[i + 1]
  <2>1. s \in Seq(S) /\ p \in 1..Len(s) /\ Len(s) = Len(o)
    BY <1>3, <1>4
  <2>2. /\ r \in Seq(S) /\ Len(r) = Len(s) - 1
        /\ \A i \in 1..(Len(s) - 1) : r[i] = IF i < p THEN s[i] ELSE s[i + 1]
    BY <1>r, <2>1, RemoveAtProperties
  <2> QED
    BY <2>1, <2>2
<1>6. \A i \in 1..(Len(o) - 1) : i \in 1..Len(o) /\ i + 1 \in 1..Len(o)
  BY <1>3
<1>7. ASSUME NEW i \in 1..(Len(o) - 1) PROVE t[i] = r[i]
  <2>1. CASE i < p
    <3>1. to[u[i]].key = entries[o[i]].key /\ to[u[i]].val = entries[o[i]].val
      BY <1>3, <2>1
    <3>2. t[i] = [key |-> entries[o[i]].key, val |-> entries[o[i]].val]
      BY <1>4, <3>1
    <3>3. s[i] = [key |-> entries[o[i]].key, val |-> entries[o[i]].val]
      BY <1>4, <1>6
    <3> QED
      BY <1>5, <2>1, <3>2, <3>3
  <2>2. CASE ~ i < p
    <3>1. to[u[i]].key = entries[o[i + 1]].key /\ to[u[i]].val = entries[o[i + 1]].val
      BY <1>3, <2>2
    <3>2. t[i] = [key |-> entries[o[i + 1]].key, val |-> entries[o[i + 1]].val]
      BY <1>4, <3>1
    <3>3. s[i + 1] = [key |-> entries[o[i + 1]].key, val |-> entries[o[i + 1]].val]
      BY <1>4, <1>6
    <3> QED
      BY <1>5, <2>2, <3>2, <3>3
  <2> QED
    BY <2>1, <2>2
<1>8. t = r
  BY <1>4, <1>5, <1>7, SeqEqual
<1> QED
  BY <1>s, <1>t, <1>r, <1>8

LEMMA KeysShorter ==
  ASSUME NEW entries, NEW o, NEW p, NEW to, NEW u, Shorter(entries, o, p, to, u),
         NEW q \in 1..Len(o), q # p
  PROVE  KeysAfter(to, u, PlaceIn(u, o[q])) =
           Abstract!Without(entries[o[p]].key, KeysAfter(entries, o, q))
<1>1. Plain(entries, o) /\ Plain(to, u)
  BY DEF Shorter
<1>2. /\ Len(o) \in Nat /\ p \in Nat /\ p \in 1..Len(o) /\ Len(u) = Len(o) - 1
      /\ Len(o) - 1 \in Nat
      /\ \A i \in 1..(Len(o) - 1) :
           /\ i < p => u[i] = o[i] /\ to[u[i]].key = entries[o[i]].key
           /\ ~ i < p => u[i] = o[i + 1] /\ to[u[i]].key = entries[o[i + 1]].key
  BY ShorterPlaces
<1>n. PICK n : n = Len(o)
  OBVIOUS
<1>s. PICK s : s = KeysAfter(entries, o, q)
  OBVIOUS
<1>3. n \in Nat /\ p \in 1..n /\ q \in 1..n /\ Len(u) = n - 1 /\ p \in Nat /\ q \in Nat
  BY <1>2, <1>n
<1>4. CASE q < p
  <2>1. q \in 1..(n - 1) /\ u[q] = o[q]
    <3>1. q \in 1..(n - 1)
      BY <1>3, <1>4
    <3> QED
      BY <1>2, <1>4, <1>n, <3>1
  <2>2. PlaceIn(u, o[q]) = q
    BY <1>1, <1>3, <2>1, PlaceInIs
  <2>3. p - q \in 1..Len(s) /\ Abstract!Without(entries[o[p]].key, s) = RemoveAt(s, p - q)
    <3>1. q \in 0..Len(o) /\ p \in 1..Len(o)
      BY <1>3, <1>n
    <3>2. PICK k : k = entries[o[p]].key
      OBVIOUS
    <3>3. p - q \in 1..Len(s) /\ Abstract!Without(k, s) = RemoveAt(s, p - q)
      BY <1>1, <1>4, <1>s, <3>1, <3>2, AheadOnce
    <3> QED
      BY <3>2, <3>3
  <2>4. KeysAre(s, entries, o, q)
    <3>1. q \in 0..Len(o)
      BY <1>3, <1>n
    <3> QED
      BY <1>1, <1>s, <3>1, KeysProperties
  <2>t. PICK t : t = KeysAfter(to, u, q)
    OBVIOUS
  <2>5. KeysAre(t, to, u, q)
    <3>1. q \in 0..Len(u)
      BY <1>3, <2>1
    <3> QED
      BY <1>1, <2>t, <3>1, KeysProperties
  <2>6. /\ s \in Seq(Keys) /\ Len(s) = n - q
        /\ \A i \in 1..(n - q) : q + i \in 1..n /\ s[i] = entries[o[q + i]].key
    BY <1>n, <2>4 DEF KeysAre
  <2>7. /\ t \in Seq(Keys) /\ Len(t) = (n - 1) - q
        /\ \A i \in 1..((n - 1) - q) : q + i \in 1..(n - 1) /\ t[i] = to[u[q + i]].key
    BY <1>3, <2>5 DEF KeysAre
  <2>r. PICK r : r = RemoveAt(s, p - q)
    OBVIOUS
  <2>8. /\ r \in Seq(Keys) /\ Len(r) = (n - q) - 1
        /\ \A i \in 1..((n - q) - 1) : r[i] = IF i < p - q THEN s[i] ELSE s[i + 1]
    BY <2>3, <2>6, <2>r, RemoveAtProperties
  <2>9. (n - 1) - q = (n - q) - 1
    BY <1>3
  <2>10. ASSUME NEW i \in 1..((n - 1) - q) PROVE t[i] = r[i]
    <3>1. /\ i \in 1..(n - q) /\ i + 1 \in 1..(n - q) /\ i \in Nat
          /\ q + (i + 1) = (q + i) + 1 /\ (i < p - q <=> q + i < p)
      BY <1>3
    <3>2. q + i \in 1..(n - 1) /\ t[i] = to[u[q + i]].key
      BY <2>7
    <3>3. CASE q + i < p
      <4>1. to[u[q + i]].key = entries[o[q + i]].key
        BY <1>2, <1>n, <3>2, <3>3
      <4> QED
        BY <2>6, <2>8, <2>9, <3>1, <3>2, <3>3, <4>1
    <3>4. CASE ~ q + i < p
      <4>1. to[u[q + i]].key = entries[o[(q + i) + 1]].key
        BY <1>2, <1>n, <3>2, <3>4
      <4> QED
        BY <2>6, <2>8, <2>9, <3>1, <3>2, <3>4, <4>1
    <3> QED
      BY <3>3, <3>4
  <2>11. t = r
    BY <2>7, <2>8, <2>9, <2>10, SeqEqual
  <2> QED
    BY <1>s, <2>2, <2>3, <2>11, <2>r, <2>t
<1>5. CASE q > p
  <2>1. q - 1 \in 1..(n - 1) /\ ~ (q - 1 < p) /\ (q - 1) + 1 = q
    BY <1>3, <1>5
  <2>2. u[q - 1] = o[q]
    BY <1>2, <1>n, <2>1
  <2>3. PlaceIn(u, o[q]) = q - 1
    BY <1>1, <1>3, <2>1, <2>2, PlaceInIs
  <2>4. Abstract!Without(entries[o[p]].key, s) = s
    <3>1. \A i \in 1..Len(o) : i > q => entries[o[i]].key # entries[o[p]].key
      <4>1. \A i \in 1..n : i > q => i # p
        BY <1>3, <1>5
      <4> QED
        BY <1>1, <1>2, <1>n, <4>1 DEF Plain
    <3>2. q \in 0..Len(o)
      BY <1>3, <1>n
    <3> QED
      BY <1>1, <1>s, <3>1, <3>2, NotAhead
  <2>t. PICK t : t = KeysAfter(to, u, q - 1)
    OBVIOUS
  <2>5. KeysAre(s, entries, o, q)
    <3>1. q \in 0..Len(o)
      BY <1>3, <1>n
    <3> QED
      BY <1>1, <1>s, <3>1, KeysProperties
  <2>6. KeysAre(t, to, u, q - 1)
    <3>1. q - 1 \in 0..Len(u)
      BY <1>3, <2>1
    <3> QED
      BY <1>1, <2>t, <3>1, KeysProperties
  <2>7. /\ s \in Seq(Keys) /\ Len(s) = n - q
        /\ \A i \in 1..(n - q) : q + i \in 1..n /\ s[i] = entries[o[q + i]].key
    BY <1>n, <2>5 DEF KeysAre
  <2>8. /\ t \in Seq(Keys) /\ Len(t) = (n - 1) - (q - 1)
        /\ \A i \in 1..((n - 1) - (q - 1)) :
             (q - 1) + i \in 1..(n - 1) /\ t[i] = to[u[(q - 1) + i]].key
    BY <1>3, <2>6 DEF KeysAre
  <2>9. (n - 1) - (q - 1) = n - q
    BY <1>3
  <2>10. ASSUME NEW i \in 1..(n - q) PROVE t[i] = s[i]
    <3>1. i \in Nat /\ ~ ((q - 1) + i < p) /\ ((q - 1) + i) + 1 = q + i
      BY <1>3, <1>5
    <3>2. (q - 1) + i \in 1..(n - 1) /\ t[i] = to[u[(q - 1) + i]].key
      BY <2>8, <2>9
    <3>3. to[u[(q - 1) + i]].key = entries[o[((q - 1) + i) + 1]].key
      BY <1>2, <1>n, <3>1, <3>2
    <3> QED
      BY <2>7, <3>1, <3>2, <3>3
  <2>11. t = s
    BY <2>7, <2>8, <2>9, <2>10, SeqEqual
  <2> QED
    BY <1>s, <2>3, <2>4, <2>11, <2>t
<1> QED
  BY <1>3, <1>4, <1>5

LEMMA RemoveImplements ==
  ASSUME NEW o, SoundMap(o), ~ RemovesCurrent, NEW k \in Keys, RemoveKey(k)
  PROVE  Abstract!RemoveKey(k)
<1>1. PICK p, u : /\ HasAt(o, k, p) /\ u = RemoveAt(o, p) /\ SoundMap(u)'
                  /\ Len(entry') = Len(entry) /\ dos' = dos
                  /\ result' = <<entry[o[p]].val>>
                  /\ ~ RemovesCurrent => \A i \in 1..Len(dos) : dos[i] # o[p]
                  /\ \A d \in 1..Len(entry) :
                       entry'[d].key = entry[d].key /\ entry'[d].val = entry[d].val
  BY RemoveStep
<1>2. MapInv(o) /\ MapInv(u)' /\ Plain(entry, o) /\ Plain(entry, u)'
  BY <1>1, SoundMaps, SoundPlain, SoundNext
<1>3. /\ Items = ItemsOf(entry, o) /\ Items' = ItemsOf(entry', u)
      /\ Todo = TodoOf(entry, dos, o) /\ Todo' = TodoOf(entry', dos, u)
      /\ Plain(entry', u)
  BY <1>1, <1>2 DEF MapInv, Plain
<1>4. Abstract!Has(k) /\ Abstract!Place(k) = p /\ Abstract!Get(k) = entry[o[p]].val
  BY <1>1, AbstractPlace
<1>5. p \in 1..Len(o) /\ entry[o[p]].key = k
  BY <1>1 DEF HasAt
<1>6. Shorter(entry, o, p, entry', u)
  BY <1>1, <1>2, <1>3, <1>5 DEF Shorter, SameData
<1>7. Items' = RemoveAt(Items, p)
  BY <1>3, <1>6, ItemsShorter
<1>8. Todo' = [i \in DOMAIN Todo |-> Abstract!Without(k, Todo[i])]
  <2>1. ASSUME NEW i \in 1..Len(dos)
        PROVE  KeysAfter(entry', u, PlaceIn(u, dos[i])) =
                 Abstract!Without(k, KeysAfter(entry, o, PlaceIn(o, dos[i])))
    <3>1. PICK q : q = PlaceIn(o, dos[i])
      OBVIOUS
    <3>2. q \in 1..Len(o) /\ o[q] = dos[i]
      BY <3>1, DosPlaces
    <3>3. q # p
      BY <1>1, <3>2
    <3>4. KeysAfter(entry', u, PlaceIn(u, o[q])) =
            Abstract!Without(entry[o[p]].key, KeysAfter(entry, o, q))
      BY <1>6, <3>2, <3>3, KeysShorter
    <3> QED
      BY <1>5, <3>1, <3>2, <3>4
  <2>2. /\ DOMAIN Todo = 1..Len(dos)
        /\ \A i \in 1..Len(dos) : Todo[i] = KeysAfter(entry, o, PlaceIn(o, dos[i]))
    BY <1>3 DEF TodoOf
  <2>3. Todo' = [i \in 1..Len(dos) |-> KeysAfter(entry', u, PlaceIn(u, dos[i]))]
    BY <1>3 DEF TodoOf
  <2> QED
    BY <2>1, <2>2, <2>3
<1>9. Items' = Abstract!RemoveAt(Items, p)
  BY <1>7 DEF Abstract!RemoveAt, RemoveAt
<1> QED
  BY <1>1, <1>4, <1>8, <1>9 DEF Abstract!RemoveKey

LEMMA RemoveAbsentImplements ==
  ASSUME NEW o, SoundMap(o), ~ RemovesCurrent, NEW k \in Keys, RemoveAbsent(k)
  PROVE  Abstract!RemoveKey(k)
<1>1. UNCHANGED <<Items, Todo>>
  BY DEF RemoveAbsent, map, Items, Todo, KeysFrom, Order, afters
<1>2. ~ \E p : HasAt(o, k, p)
  BY FoundIs DEF HasAt, RemoveAbsent
<1>3. ~ Abstract!Has(k) /\ result' = <<>>
  BY <1>2, AbstractPlace DEF RemoveAbsent
<1>4. Plain(entry, o) /\ Todo = TodoOf(entry, dos, o)
  BY SoundPlain, SoundMaps DEF MapInv
<1>5. ASSUME NEW i \in 1..Len(dos)
      PROVE  Abstract!Without(k, KeysAfter(entry, o, PlaceIn(o, dos[i]))) =
               KeysAfter(entry, o, PlaceIn(o, dos[i]))
  <2>1. PICK q : q = PlaceIn(o, dos[i])
    OBVIOUS
  <2>2. q \in 0..Len(o)
    <3>1. q \in 1..Len(o) /\ Len(o) \in Nat
      BY <1>4, <2>1, DosPlaces, PlainTypes
    <3> QED
      BY <3>1
  <2>3. \A j \in 1..Len(o) : j > q => entry[o[j]].key # k
    BY <1>2 DEF HasAt
  <2>4. Abstract!Without(k, KeysAfter(entry, o, q)) = KeysAfter(entry, o, q)
    BY <1>4, <2>2, <2>3, NotAhead
  <2> QED
    BY <2>1, <2>4
<1>6. Todo = [i \in DOMAIN Todo |-> Abstract!Without(k, Todo[i])]
  <2>1. /\ DOMAIN Todo = 1..Len(dos)
        /\ \A i \in 1..Len(dos) : Todo[i] = KeysAfter(entry, o, PlaceIn(o, dos[i]))
    BY <1>4 DEF TodoOf
  <2>2. Todo = [i \in 1..Len(dos) |-> KeysAfter(entry, o, PlaceIn(o, dos[i]))]
    BY <1>4 DEF TodoOf
  <2> QED
    BY <1>5, <2>1, <2>2
<1> QED
  BY <1>1, <1>3, <1>6 DEF Abstract!RemoveKey

\* The do: that calls its function with the first of the keys has the others left.
LEMMA KeysHead ==
  ASSUME NEW entries, NEW o, Plain(entries, o), NEW p \in 0..Len(o),
         NEW s, s = KeysAfter(entries, o, p)
  PROVE  /\ s = <<>> <=> p = Len(o)
         /\ p # Len(o) => /\ p + 1 \in 1..Len(o) /\ Head(s) = entries[o[p + 1]].key
                          /\ Tail(s) = KeysAfter(entries, o, p + 1)
<1>1. KeysAre(s, entries, o, p)
  BY KeysProperties
<1>2. /\ s \in Seq(Keys) /\ Len(s) = Len(o) - p /\ Len(o) \in Nat /\ p \in Nat
      /\ \A i \in 1..(Len(o) - p) : p + i \in 1..Len(o) /\ s[i] = entries[o[p + i]].key
  <2>1. Len(o) \in Nat
    BY PlainTypes
  <2> QED
    BY <1>1, <2>1 DEF KeysAre
<1>3. s = <<>> <=> p = Len(o)
  <2>1. s = <<>> <=> Len(s) = 0
    BY <1>2, EmptySeq
  <2> QED
    BY <1>2, <2>1
<1>4. ASSUME p # Len(o)
      PROVE  /\ p + 1 \in 1..Len(o) /\ Head(s) = entries[o[p + 1]].key
             /\ Tail(s) = KeysAfter(entries, o, p + 1)
  <2>1. p + 1 \in 1..Len(o) /\ p + 1 \in 0..Len(o) /\ 1 \in 1..(Len(o) - p)
    BY <1>2, <1>4
  <2>2. s # <<>>
    BY <1>3, <1>4
  <2>3. Head(s) = s[1]
    BY <1>2, <2>2, HeadTailProperties
  <2>4. /\ Tail(s) \in Seq(Keys) /\ Len(Tail(s)) = Len(s) - 1
        /\ \A i \in 1..Len(Tail(s)) : Tail(s)[i] = s[i + 1]
    BY <1>2, <2>2, HeadTailProperties
  <2>t. PICK t : t = KeysAfter(entries, o, p + 1)
    OBVIOUS
  <2>5. KeysAre(t, entries, o, p + 1)
    BY <2>1, <2>t, KeysProperties
  <2>6. /\ t \in Seq(Keys) /\ Len(t) = Len(o) - (p + 1)
        /\ \A i \in 1..(Len(o) - (p + 1)) : t[i] = entries[o[(p + 1) + i]].key
    BY <2>5 DEF KeysAre
  <2>7. Len(Tail(s)) = Len(o) - (p + 1)
    BY <1>2, <2>4
  <2>8. ASSUME NEW i \in 1..(Len(o) - (p + 1)) PROVE t[i] = Tail(s)[i]
    <3>1. i + 1 \in 1..(Len(o) - p) /\ p + (i + 1) = (p + 1) + i
      BY <1>2
    <3> QED
      BY <1>2, <2>4, <2>6, <2>7, <3>1
  <2>9. t = Tail(s)
    BY <2>4, <2>6, <2>7, <2>8, SeqEqual
  <2>10. Head(s) = entries[o[p + 1]].key
    BY <1>2, <2>1, <2>3
  <2> QED
    BY <2>1, <2>9, <2>10, <2>t
<1> QED
  BY <1>3, <1>4

\* A do: that comes to place p of the order has the keys behind it left.
LEMMA EvaluateImplements ==
  ASSUME NEW o, SoundMap(o), ~ RemovesCurrent, NEW p \in 0..Len(o), p # Len(o),
         result' = <<entry[o[p + 1]].key, entry[o[p + 1]].val>>
  PROVE  Abstract!Evaluate(KeysAfter(entry, o, p))
<1>1. Plain(entry, o)
  BY SoundPlain
<1>s. PICK s : s = KeysAfter(entry, o, p)
  OBVIOUS
<1>2. p + 1 \in 1..Len(o) /\ Head(s) = entry[o[p + 1]].key
  BY <1>1, <1>s, KeysHead
<1>3. HasAt(o, entry[o[p + 1]].key, p + 1)
  BY <1>2 DEF HasAt
<1>4. Abstract!Get(entry[o[p + 1]].key) = entry[o[p + 1]].val
  BY <1>3, AbstractPlace
<1> QED
  BY <1>2, <1>4, <1>s DEF Abstract!Evaluate

LEMMA TodoElements ==
  ASSUME NEW entries, NEW o, NEW s \in Seq(Nat),
         NEW S, S = {KeysAfter(entries, o, PlaceIn(o, e)) : e \in Nat}
  PROVE  /\ TodoOf(entries, s, o) \in Seq(S) /\ Len(TodoOf(entries, s, o)) = Len(s)
         /\ Len(s) \in Nat
         /\ \A i \in 1..Len(s) :
              TodoOf(entries, s, o)[i] = KeysAfter(entries, o, PlaceIn(o, s[i]))
<1> DEFINE e(i) == KeysAfter(entries, o, PlaceIn(o, s[i]))
<1>1. Len(s) \in Nat /\ \A i \in 1..Len(s) : s[i] \in Nat
  BY LenProperties, ElementOfSeq
<1>2. \A i \in 1..Len(s) : e(i) \in S
  BY <1>1
<1>3. TodoOf(entries, s, o) = [i \in 1..Len(s) |-> e(i)]
  BY DEF TodoOf
<1> HIDE DEF e
<1>4. /\ [i \in 1..Len(s) |-> e(i)] \in Seq(S)
      /\ Len([i \in 1..Len(s) |-> e(i)]) = Len(s)
  BY <1>1, <1>2, IsASeq
<1>5. \A i \in 1..Len(s) : TodoOf(entries, s, o)[i] = e(i)
  BY <1>3
<1> QED
  BY <1>1, <1>3, <1>4, <1>5 DEF e

LEMMA TodoAppend ==
  ASSUME NEW entries, NEW o, Plain(entries, o), NEW s \in Seq(Nat), NEW p \in 1..Len(o)
  PROVE  TodoOf(entries, Append(s, o[p]), o) =
           Append(TodoOf(entries, s, o), KeysAfter(entries, o, p))
<1>S. PICK S : S = {KeysAfter(entries, o, PlaceIn(o, e)) : e \in Nat}
  OBVIOUS
<1>a. PICK a : a = Append(s, o[p])
  OBVIOUS
<1>x. PICK x : x = KeysAfter(entries, o, p)
  OBVIOUS
<1>s. PICK t : t = TodoOf(entries, s, o)
  OBVIOUS
<1>t. PICK w : w = TodoOf(entries, a, o)
  OBVIOUS
<1>1. o[p] \in Nat /\ PlaceIn(o, o[p]) = p
  BY PlainTypes, PlaceInIs
<1>2. x \in S
  BY <1>1, <1>S, <1>x
<1>3. /\ a \in Seq(Nat) /\ Len(a) = Len(s) + 1 /\ a[Len(s) + 1] = o[p] /\ Len(s) \in Nat
      /\ \A i \in 1..Len(s) : a[i] = s[i]
  BY <1>1, <1>a, AppendProperties, LenProperties
<1>4. /\ t \in Seq(S) /\ Len(t) = Len(s)
      /\ \A i \in 1..Len(s) : t[i] = KeysAfter(entries, o, PlaceIn(o, s[i]))
  BY <1>S, <1>s, TodoElements
<1>5. /\ w \in Seq(S) /\ Len(w) = Len(s) + 1
      /\ \A i \in 1..(Len(s) + 1) : w[i] = KeysAfter(entries, o, PlaceIn(o, a[i]))
  <2>1. /\ w \in Seq(S) /\ Len(w) = Len(a)
        /\ \A i \in 1..Len(a) : w[i] = KeysAfter(entries, o, PlaceIn(o, a[i]))
    <3>1. a \in Seq(Nat)
      BY <1>3
    <3> QED
      BY <3>1, <1>S, <1>t, TodoElements
  <2> QED
    BY <1>3, <2>1
<1>6. /\ Append(t, x) \in Seq(S) /\ Len(Append(t, x)) = Len(s) + 1
      /\ Append(t, x)[Len(s) + 1] = x /\ \A i \in 1..Len(s) : Append(t, x)[i] = t[i]
  BY <1>2, <1>4, AppendProperties
<1>7. /\ \A i \in 1..(Len(s) + 1) : i \in 1..Len(s) \/ i = Len(s) + 1
      /\ \A i \in 1..Len(s) : i \in 1..(Len(s) + 1)
      /\ Len(s) + 1 \in 1..(Len(s) + 1)
  BY <1>3
<1>8. ASSUME NEW i \in 1..(Len(s) + 1) PROVE w[i] = Append(t, x)[i]
  <2>1. CASE i \in 1..Len(s)
    BY <1>3, <1>4, <1>5, <1>6, <2>1
  <2>2. CASE i = Len(s) + 1
    <3>1. w[Len(s) + 1] = KeysAfter(entries, o, PlaceIn(o, a[Len(s) + 1]))
      BY <1>5, <1>7
    <3> QED
      BY <1>1, <1>3, <1>6, <1>x, <2>2, <3>1
  <2> QED
    BY <1>7, <2>1, <2>2
<1>9. w = Append(t, x)
  BY <1>5, <1>6, <1>8, SeqEqual
<1> QED
  BY <1>9, <1>a, <1>s, <1>t, <1>x

LEMMA TodoFront ==
  ASSUME NEW entries, NEW o, NEW s \in Seq(Nat), s # <<>>
  PROVE  /\ TodoOf(entries, s, o) # <<>>
         /\ Last(TodoOf(entries, s, o)) = KeysAfter(entries, o, PlaceIn(o, Last(s)))
         /\ TodoOf(entries, Front(s), o) = Front(TodoOf(entries, s, o))
<1>S. PICK S : S = {KeysAfter(entries, o, PlaceIn(o, e)) : e \in Nat}
  OBVIOUS
<1>f. PICK f : f = Front(s)
  OBVIOUS
<1>s. PICK t : t = TodoOf(entries, s, o)
  OBVIOUS
<1>t. PICK w : w = TodoOf(entries, f, o)
  OBVIOUS
<1>1. /\ f \in Seq(Nat) /\ Len(f) = Len(s) - 1
      /\ \A i \in 1..(Len(s) - 1) : i \in 1..Len(s) /\ f[i] = s[i]
      /\ Len(s) \in 1..Len(s) /\ Last(s) = s[Len(s)]
  BY <1>f, FrontProperties
<1>2. /\ t \in Seq(S) /\ Len(t) = Len(s) /\ Len(s) \in Nat
      /\ \A i \in 1..Len(s) : t[i] = KeysAfter(entries, o, PlaceIn(o, s[i]))
  BY <1>S, <1>s, TodoElements
<1>3. /\ w \in Seq(S) /\ Len(w) = Len(s) - 1
      /\ \A i \in 1..(Len(s) - 1) : w[i] = KeysAfter(entries, o, PlaceIn(o, f[i]))
  <2>1. /\ w \in Seq(S) /\ Len(w) = Len(f)
        /\ \A i \in 1..Len(f) : w[i] = KeysAfter(entries, o, PlaceIn(o, f[i]))
    <3>1. f \in Seq(Nat)
      BY <1>1
    <3> QED
      BY <3>1, <1>S, <1>t, TodoElements
  <2> QED
    BY <1>1, <2>1
<1>4. t # <<>>
  <2>1. Len(t) # 0
    BY <1>1, <1>2
  <2> QED
    BY <1>2, <2>1, EmptySeq
<1>5. /\ Front(t) \in Seq(S) /\ Len(Front(t)) = Len(s) - 1
      /\ \A i \in 1..(Len(s) - 1) : Front(t)[i] = t[i]
      /\ Last(t) = t[Len(s)]
  BY <1>2, <1>4, FrontProperties
<1>6. ASSUME NEW i \in 1..(Len(s) - 1) PROVE w[i] = Front(t)[i]
  BY <1>1, <1>2, <1>3, <1>5
<1>7. w = Front(t)
  BY <1>3, <1>5, <1>6, SeqEqual
<1>8. Last(t) = KeysAfter(entries, o, PlaceIn(o, Last(s)))
  BY <1>1, <1>2, <1>5
<1> QED
  BY <1>4, <1>7, <1>8, <1>f, <1>s, <1>t

LEMMA DoImplements ==
  ASSUME NEW o, SoundMap(o), ~ RemovesCurrent, Do
  PROVE  Abstract!Do
<1>1. /\ SoundMap(o)'
      /\ IF o = <<>> THEN result' = <<>> /\ dos' = dos
         ELSE /\ result' = <<entry[o[1]].key, entry[o[1]].val>>
              /\ dos' = Append(dos, o[1])
  BY DoStep
<1>2. Plain(entry, o) /\ MapInv(o) /\ MapInv(o)' /\ entry' = entry
  BY <1>1, SoundPlain, SoundMaps, SoundNext DEF Do, map
<1>3. Items' = Items
  BY <1>2 DEF MapInv
<1>s. PICK s : s = KeysAfter(entry, o, 0)
  OBVIOUS
<1>4. Len(o) \in Nat /\ (o = <<>> <=> Len(o) = 0) /\ 0 \in 0..Len(o)
  <2>1. Sound(entry, buckets, first, last, o)
    BY DEF SoundMap
  <2>2. Len(o) \in Nat /\ (o = <<>> <=> Len(o) = 0)
    BY <2>1, SoundOrder
  <2> QED
    BY <2>2
<1>5. [i \in DOMAIN Items |-> Items[i].key] = s
  <2>1. ItemsAre(Items, entry, o)
    BY <1>2, ItemsProperties DEF MapInv
  <2>2. DOMAIN Items = 1..Len(o) /\ \A i \in 1..Len(o) : Items[i].key = entry[o[i]].key
    BY <2>1 DEF ItemsAre
  <2>3. Len(o) - 0 = Len(o) /\ \A i \in 1..Len(o) : 0 + i = i
    BY <1>4
  <2>4. s = [i \in 1..Len(o) |-> entry[o[i]].key]
    BY <1>s, <2>3 DEF KeysAfter
  <2> QED
    BY <2>2, <2>4
<1>6. CASE o = <<>>
  <2>1. s = <<>>
    BY <1>2, <1>4, <1>6, <1>s, KeysHead
  <2>2. Todo' = Todo /\ result' = <<>>
    BY <1>1, <1>2, <1>6 DEF MapInv
  <2> QED
    BY <1>3, <1>5, <2>1, <2>2 DEF Abstract!Do
<1>7. CASE o # <<>>
  <2>1. 0 # Len(o) /\ 0 + 1 = 1
    BY <1>4, <1>7
  <2>2. s # <<>> /\ Tail(s) = KeysAfter(entry, o, 1) /\ 1 \in 1..Len(o)
    BY <1>2, <1>4, <1>s, <2>1, KeysHead
  <2>3. Abstract!Evaluate(s)
    BY <1>1, <1>4, <1>7, <1>s, <2>1, EvaluateImplements
  <2>4. Todo' = Append(Todo, Tail(s))
    <3>1. dos \in Seq(Nat)
      BY DosPlaces
    <3>2. TodoOf(entry, Append(dos, o[1]), o) =
            Append(TodoOf(entry, dos, o), KeysAfter(entry, o, 1))
      BY <1>2, <2>2, <3>1, TodoAppend
    <3>3. Todo' = TodoOf(entry, dos', o)
      BY <1>2 DEF MapInv
    <3> QED
      BY <1>1, <1>2, <1>7, <2>2, <3>2, <3>3 DEF MapInv
  <2> QED
    BY <1>3, <1>5, <2>2, <2>3, <2>4 DEF Abstract!Do
<1> QED
  BY <1>6, <1>7

LEMMA doOrderImplements ==
  ASSUME NEW o, SoundMap(o), ~ RemovesCurrent, doOrder
  PROVE  Abstract!NextOfDo
<1>1. PICK p \in 1..Len(o) :
        /\ Last(dos) = o[p]
        /\ IF p = Len(o) THEN result' = <<>> /\ dos' = Front(dos)
           ELSE /\ result' = <<entry[o[p + 1]].key, entry[o[p + 1]].val>>
                /\ dos' = Append(Front(dos), o[p + 1])
  BY doOrderStep
<1>2. SoundMap(o)' /\ dos # <<>> /\ entry' = entry
  BY doOrderStep DEF doOrder, map
<1>3. Plain(entry, o) /\ MapInv(o) /\ MapInv(o)'
  BY <1>2, SoundPlain, SoundMaps, SoundNext
<1>4. Items' = Items /\ Todo = TodoOf(entry, dos, o) /\ Todo' = TodoOf(entry, dos', o)
  BY <1>2, <1>3 DEF MapInv
<1>5. dos \in Seq(Nat) /\ Front(dos) \in Seq(Nat)
  BY <1>2, DosPlaces, FrontProperties
<1>s. PICK s : s = KeysAfter(entry, o, p)
  OBVIOUS
<1>6. /\ Todo # <<>> /\ Last(Todo) = s /\ TodoOf(entry, Front(dos), o) = Front(Todo)
  <2>1. PlaceIn(o, o[p]) = p
    BY <1>3, PlaceInIs
  <2>2. /\ TodoOf(entry, dos, o) # <<>>
        /\ Last(TodoOf(entry, dos, o)) = KeysAfter(entry, o, PlaceIn(o, Last(dos)))
        /\ TodoOf(entry, Front(dos), o) = Front(TodoOf(entry, dos, o))
    BY <1>2, <1>5, TodoFront
  <2> QED
    BY <1>1, <1>4, <1>s, <2>1, <2>2
<1>7. p \in 0..Len(o)
  <2>1. Len(o) \in Nat
    BY <1>3, PlainTypes
  <2> QED
    BY <2>1
<1>8. Abstract!Last(Todo) = s /\ Abstract!Front(Todo) = Front(Todo)
  BY <1>6 DEF Abstract!Last, Last, Abstract!Front, Front
<1>9. CASE p = Len(o)
  <2>1. s = <<>>
    BY <1>3, <1>7, <1>9, <1>s, KeysHead
  <2>2. result' = <<>> /\ Todo' = Front(Todo)
    BY <1>1, <1>4, <1>6, <1>9
  <2> QED
    BY <1>4, <1>6, <1>8, <2>1, <2>2 DEF Abstract!NextOfDo
<1>10. CASE p # Len(o)
  <2>1. s # <<>> /\ p + 1 \in 1..Len(o) /\ Tail(s) = KeysAfter(entry, o, p + 1)
    BY <1>3, <1>7, <1>10, <1>s, KeysHead
  <2>2. Abstract!Evaluate(s)
    BY <1>1, <1>7, <1>10, <1>s, EvaluateImplements
  <2>3. Todo' = Append(Front(Todo), Tail(s))
    <3>1. TodoOf(entry, Append(Front(dos), o[p + 1]), o) =
            Append(TodoOf(entry, Front(dos), o), KeysAfter(entry, o, p + 1))
      BY <1>3, <1>5, <2>1, TodoAppend
    <3> QED
      BY <1>1, <1>4, <1>6, <1>10, <2>1, <3>1
  <2> QED
    BY <1>4, <1>6, <1>8, <2>1, <2>2, <2>3 DEF Abstract!NextOfDo
<1> QED
  BY <1>9, <1>10

LEMMA InitImplements ==
  ASSUME ~ RemovesCurrent, Init
  PROVE  Abstract!Init
<1>1. SoundMap(<<>>) /\ dos = <<>> /\ result = <<>>
  BY InitSound DEF Init
<1>2. Items = ItemsOf(entry, <<>>) /\ Todo = TodoOf(entry, dos, <<>>)
  BY <1>1, SoundMaps DEF MapInv
<1>3. Items = <<>>
  BY <1>2 DEF ItemsOf
<1>4. Todo = <<>>
  BY <1>1, <1>2 DEF TodoOf
<1> QED
  BY <1>1, <1>3, <1>4 DEF Abstract!Init

LEMMA NextImplements ==
  ASSUME ~ RemovesCurrent, IInv, [Next]_vars
  PROVE  [Abstract!Next]_<<Items, Todo, result>>
<1>1. PICK o : SoundMap(o)
  BY DEF IInv
<1>2. ASSUME NEW k \in Keys, At(k) PROVE Abstract!Next
  BY <1>1, <1>2, AtImplements DEF Abstract!Next
<1>3. ASSUME NEW k \in Keys, RemoveAbsent(k) PROVE Abstract!Next
  BY <1>1, <1>3, RemoveAbsentImplements DEF Abstract!Next
<1>4. ASSUME NEW k \in Keys, RemoveKey(k) PROVE Abstract!Next
  BY <1>1, <1>4, RemoveImplements DEF Abstract!Next
<1>5. ASSUME NEW k \in Keys, NEW v \in Vals, Change(k, v) PROVE Abstract!Next
  BY <1>1, <1>5, ChangeImplements DEF Abstract!Next
<1>6. ASSUME NEW k \in Keys, NEW v \in Vals, Insert(k, v) PROVE Abstract!Next
  BY <1>1, <1>6, InsertImplements DEF Abstract!Next
<1>7. ASSUME Size PROVE Abstract!Next
  BY <1>1, <1>7, SizeImplements DEF Abstract!Next
<1>8. ASSUME Do PROVE Abstract!Next
  BY <1>1, <1>8, DoImplements DEF Abstract!Next
<1>9. ASSUME doOrder PROVE Abstract!Next
  BY <1>1, <1>9, doOrderImplements DEF Abstract!Next
<1>10. ASSUME UNCHANGED vars PROVE UNCHANGED <<Items, Todo, result>>
  BY <1>10 DEF vars, Items, Todo, KeysFrom, Order, afters
<1> QED
  BY <1>2, <1>3, <1>4, <1>5, <1>6, <1>7, <1>8, <1>9, <1>10 DEF Next

\* For its users the hash table is an ordered map, and a do: calls its function with
\* what the functions of do:s add while it runs and not with what they remove
\* (map.pea:142-156), for all keys, hash methods and numbers of buckets, and for any
\* number of do:s in one another, if no function of a do: removes the entry that it is
\* called with (TLC shows what happens if one does).
THEOREM ImplementsCorrect ==
  ASSUME ~ RemovesCurrent
  PROVE  Spec => Implements
<1>1. Init => Abstract!Init
  BY InitImplements
<1>2. IInv /\ [Next]_vars => [Abstract!Next]_<<Items, Todo, result>>
  BY NextImplements
<1> QED
  BY <1>1, <1>2, Invariant, PTL DEF Spec, Implements, Abstract!Spec
=============================================================================
