----------------------------- MODULE LocProofs -----------------------------
(***************************************************************************)
(* Proofs for Loc, for any number of files of any texts: a place in a file *)
(* is found again from its offset, and just the end of a file that another *)
(* one follows is not.                                                     *)
(***************************************************************************)
EXTENDS Loc, LeastElements, FunctionTheorems

\* Files that were added one after the other, with their texts.
Laid(fs, texts) ==
  /\ Len(fs) = Len(texts)
  /\ \A i \in 1..Len(fs) :
       SubSeq(fs, 1, i) = AddFile(SubSeq(fs, 1, i - 1), fs[i].path, texts[i])

\* That is what Files is at first, and after each call of Add.
LEMMA LaidFirst == Laid(<<>>, <<>>)
  BY DEF Laid

LEMMA LaidAdd ==
  ASSUME NEW T, NEW texts \in Seq(T), NEW F, NEW fs \in Seq(F), Laid(fs, texts),
         NEW path, NEW text \in T
  PROVE  Laid(AddFile(fs, path, text), Append(texts, text))
<1> DEFINE new == [path |-> path, offs |-> LocsLen(fs), len |-> Len(text),
                   lines |-> {LocsLen(fs) + k - 1 : k \in Newlines(text)}]
           all == Append(fs, new)
           n == Len(fs)
<1>1. AddFile(fs, path, text) = all /\ new.path = path
  BY DEF AddFile
<1> HIDE DEF new
<1>2. /\ Len(all) = n + 1 /\ all[n + 1] = new /\ all \in Seq(F \cup {new})
      /\ \A i \in 1..n : all[i] = fs[i]
  OBVIOUS
<1>3. /\ Len(Append(texts, text)) = n + 1 /\ Append(texts, text)[n + 1] = text
      /\ \A i \in 1..n : Append(texts, text)[i] = texts[i]
  BY DEF Laid
<1>4. ASSUME NEW i \in 0..n PROVE SubSeq(all, 1, i) = SubSeq(fs, 1, i)
  OBVIOUS
<1>5. ASSUME NEW i \in 1..n + 1
      PROVE  SubSeq(all, 1, i) =
               AddFile(SubSeq(all, 1, i - 1), all[i].path, Append(texts, text)[i])
  <2>1. CASE i \in 1..n
    <3>1. i - 1 \in 0..n /\ i \in 0..n
      BY <2>1
    <3>2. SubSeq(fs, 1, i) = AddFile(SubSeq(fs, 1, i - 1), fs[i].path, texts[i])
      BY <2>1 DEF Laid
    <3> QED
      BY <1>2, <1>3, <1>4, <2>1, <3>1, <3>2
  <2>2. CASE i = n + 1
    <3>1. SubSeq(all, 1, n + 1) = all
      BY <1>2
    <3>2. SubSeq(all, 1, n) = fs
      BY <1>4
    <3> HIDE DEF all
    <3>3. i - 1 = n /\ Append(texts, text)[i] = text /\ all[i].path = path
      BY <1>1, <1>2, <1>3, <2>2
    <3> QED
      BY <1>1, <2>2, <3>1, <3>2, <3>3
  <2>3. i \in 1..n \/ i = n + 1
    OBVIOUS
  <2> QED
    BY <2>1, <2>2, <2>3
<1> QED
  BY <1>1, <1>2, <1>3, <1>5 DEF Laid

\* The newlines among the first q characters of a text.
Before(text, q) == {k \in 1..q : text[k] = "\n"}

\* Where an editor shows the character at distance q from the start of a text.
Line(text, q) == Cardinality(Before(text, q)) + 1
Col(text, q) ==
  q + 1 - (CHOOSE k \in Before(text, q) \cup {0} : \A other \in Before(text, q) : other <= k)

-----------------------------------------------------------------------------
(* Where files start *)

\* What AddFile appends.
LEMMA LaidFile ==
  ASSUME NEW Chars, NEW texts \in Seq(Seq(Chars)), NEW F, NEW fs \in Seq(F), Laid(fs, texts),
         NEW i \in 1..Len(fs)
  PROVE  /\ fs[i].offs = IF i = 1 THEN 0 ELSE fs[i - 1].offs + fs[i - 1].len
         /\ fs[i].len = Len(texts[i])
         /\ fs[i].lines = {fs[i].offs + k - 1 : k \in Newlines(texts[i])}
<1> DEFINE prior == SubSeq(fs, 1, i - 1)
           new == [path |-> fs[i].path, offs |-> LocsLen(prior), len |-> Len(texts[i]),
                   lines |-> {LocsLen(prior) + k - 1 : k \in Newlines(texts[i])}]
<1>1. SubSeq(fs, 1, i) = Append(prior, new)
  BY DEF Laid, AddFile
<1>2. prior \in Seq(F) /\ Len(prior) = i - 1
  OBVIOUS
<1>3. \A j \in 1..i - 1 : prior[j] = fs[j]
  OBVIOUS
<1>4. SubSeq(fs, 1, i)[i] = fs[i]
  OBVIOUS
<1> HIDE DEF new, prior
<1>5. Append(prior, new)[i] = new
  BY <1>2
<1>6. fs[i] = new
  BY <1>1, <1>4, <1>5
<1>7. LocsLen(prior) = IF i = 1 THEN 0 ELSE fs[i - 1].offs + fs[i - 1].len
  <2>1. CASE i = 1
    <3>1. prior = <<>>
      BY <1>2, <2>1
    <3> QED
      BY <2>1, <3>1 DEF LocsLen
  <2>2. CASE i # 1
    <3>1. prior # <<>> /\ i - 1 \in 1..i - 1 /\ prior[Len(prior)] = fs[i - 1]
      BY <1>2, <1>3, <2>2
    <3> QED
      BY <1>2, <2>2, <3>1 DEF LocsLen
  <2> QED
    BY <2>1, <2>2
<1>8. /\ new.offs = LocsLen(prior) /\ new.len = Len(texts[i])
      /\ new.lines = {LocsLen(prior) + k - 1 : k \in Newlines(texts[i])}
  BY DEF new
<1> QED
  BY <1>6, <1>7, <1>8

LEMMA OffsNat ==
  ASSUME NEW Chars, NEW texts \in Seq(Seq(Chars)), NEW F, NEW fs \in Seq(F), Laid(fs, texts)
  PROVE  \A i \in 1..Len(fs) : fs[i].offs \in Nat /\ Len(texts[i]) \in Nat
<1>1. \A i \in 1..Len(fs) : Len(texts[i]) \in Nat
  BY DEF Laid
<1> DEFINE T == {i \in 1..Len(fs) : fs[i].offs \notin Nat}
<1>2. SUFFICES ASSUME T # {} PROVE FALSE
  BY <1>1
<1>3. PICK m \in T : \A k \in T : m <= k
  <2>1. T \in SUBSET Nat
    OBVIOUS
  <2> QED
    BY <1>2, <2>1, SmallestOf
<1>4. CASE m = 1
  BY <1>4, LaidFile
<1>5. CASE m # 1
  <2>1. m - 1 \in 1..Len(fs) /\ m - 1 \notin T
    BY <1>3, <1>5
  <2>2. fs[m].offs = fs[m - 1].offs + fs[m - 1].len /\ fs[m - 1].len = Len(texts[m - 1])
    BY <1>5, <2>1, LaidFile
  <2> QED
    BY <1>1, <2>1, <2>2
<1> QED
  BY <1>4, <1>5

LEMMA OffsAscend ==
  ASSUME NEW Chars, NEW texts \in Seq(Seq(Chars)), NEW F, NEW fs \in Seq(F), Laid(fs, texts),
         NEW i \in 1..Len(fs)
  PROVE  \A j \in i + 1..Len(fs) : fs[i].offs + Len(texts[i]) <= fs[j].offs
<1> DEFINE T == {j \in i + 1..Len(fs) : ~ (fs[i].offs + Len(texts[i]) <= fs[j].offs)}
<1>1. SUFFICES ASSUME T # {} PROVE FALSE
  OBVIOUS
<1>2. PICK m \in T : \A k \in T : m <= k
  <2>1. T \in SUBSET Nat
    OBVIOUS
  <2> QED
    BY <1>1, <2>1, SmallestOf
<1>3. /\ m - 1 \in 1..Len(fs)
      /\ fs[m].offs = fs[m - 1].offs + Len(texts[m - 1])
  <2>1. m # 1 /\ m \in 1..Len(fs) /\ m - 1 \in 1..Len(fs)
    BY <1>2
  <2>2. fs[m].offs = fs[m - 1].offs + fs[m - 1].len
    BY <2>1, LaidFile
  <2>3. fs[m - 1].len = Len(texts[m - 1])
    BY <2>1, LaidFile
  <2> QED
    BY <2>1, <2>2, <2>3
<1>4. /\ fs[i].offs \in Nat /\ Len(texts[i]) \in Nat
      /\ fs[m - 1].offs \in Nat /\ Len(texts[m - 1]) \in Nat
  BY <1>3, OffsNat
<1>5. CASE m = i + 1
  BY <1>2, <1>3, <1>4, <1>5
<1>6. CASE m # i + 1
  <2>1. m - 1 \in i + 1..Len(fs)
    BY <1>2, <1>6
  <2>2. m - 1 \notin T
    BY <1>2, <1>6
  <2>3. fs[i].offs + Len(texts[i]) <= fs[m - 1].offs
    BY <2>1, <2>2
  <2> HIDE DEF T
  <2>4. fs[i].offs + Len(texts[i]) <= fs[m].offs
    <3> DEFINE a == fs[i].offs + Len(texts[i])
               b == fs[m - 1].offs
               n == Len(texts[m - 1])
    <3>1. a \in Nat /\ b \in Nat /\ n \in Nat /\ a <= b /\ fs[m].offs = b + n
      BY <1>3, <1>4, <2>3
    <3> HIDE DEF a, b, n
    <3>2. a <= b + n
      BY <3>1
    <3> QED
      BY <3>1, <3>2 DEF a
  <2>5. ~ (fs[i].offs + Len(texts[i]) <= fs[m].offs)
    BY <1>2 DEF T
  <2> QED
    BY <2>4, <2>5
<1> QED
  BY <1>5, <1>6

-----------------------------------------------------------------------------
(* Which file is found *)

\* A place within a file, or at the end of the last one.
Within(fs, texts, i, q) == q \in 0..Len(texts[i]) /\ (q < Len(texts[i]) \/ i = Len(fs))

LEMMA FileFound ==
  ASSUME NEW Chars, NEW texts \in Seq(Seq(Chars)), NEW F, NEW fs \in Seq(F), Laid(fs, texts),
         NEW i \in 1..Len(fs), NEW q, Within(fs, texts, i, q)
  PROVE  (CHOOSE j \in 1..Len(fs) : StopsAt(fs, fs[i].offs + q, j)) = i
<1> DEFINE p == fs[i].offs + q
<1>1. \A j \in 1..Len(fs) : fs[j].offs \in Nat /\ Len(texts[j]) \in Nat
  BY OffsNat
<1>2. q \in Nat /\ p \in Nat
  BY <1>1 DEF Within
<1>3. ASSUME NEW j \in 1..i PROVE fs[j].offs <= p
  <2>1. j \in 1..Len(fs)
    OBVIOUS
  <2>2. j < i => i \in j + 1..Len(fs)
    BY <2>1
  <2>3. j < i => fs[j].offs + Len(texts[j]) <= fs[i].offs
    BY <2>1, <2>2, OffsAscend
  <2> QED
    BY <1>1, <1>2, <2>1, <2>3
<1>4. i < Len(fs) => fs[i + 1].offs > p
  <2>1. SUFFICES ASSUME i < Len(fs) PROVE fs[i + 1].offs > p
    OBVIOUS
  <2>2. i + 1 \in i + 1..Len(fs) /\ i + 1 \in 1..Len(fs)
    BY <2>1
  <2>3. fs[i].offs + Len(texts[i]) <= fs[i + 1].offs
    BY <2>2, OffsAscend
  <2> QED
    BY <1>1, <1>2, <2>1, <2>2, <2>3 DEF Within
<1>5. StopsAt(fs, p, i)
  BY <1>3, <1>4 DEF StopsAt
<1>6. ASSUME NEW j \in 1..Len(fs), StopsAt(fs, p, j) PROVE j = i
  <2>1. CASE j < i
    <3>1. j + 1 \in 1..i /\ j + 1 \in 1..Len(fs) /\ j < Len(fs)
      BY <2>1
    <3>2. fs[j + 1].offs <= p /\ fs[j + 1].offs > p
      BY <1>3, <1>6, <3>1 DEF StopsAt
    <3> QED
      BY <1>1, <1>2, <3>1, <3>2
  <2>2. CASE j > i
    <3>1. i + 1 \in 2..j /\ i < Len(fs) /\ i + 1 \in 1..Len(fs)
      BY <2>2
    <3>2. fs[i + 1].offs <= p /\ fs[i + 1].offs > p
      BY <1>4, <1>6, <3>1 DEF StopsAt
    <3> QED
      BY <1>1, <1>2, <3>1, <3>2
  <2> QED
    BY <2>1, <2>2
<1> QED
  BY <1>5, <1>6

-----------------------------------------------------------------------------
(* Lines and columns *)

LEMMA LastOf ==
  ASSUME NEW q \in Nat, NEW S \in SUBSET (1..q)
  PROVE  \E m \in S \cup {0} : \A other \in S : other <= m
<1> DEFINE U == {m \in 0..q : \A other \in S : other <= m}
<1>1. q \in U
  OBVIOUS
<1>2. PICK m \in U : \A k \in U : m <= k
  <2>1. U \in SUBSET Nat /\ U # {}
    BY <1>1
  <2> QED
    BY <2>1, SmallestOf
<1>3. ASSUME m \notin S, m # 0 PROVE FALSE
  <2>1. m - 1 \in U
    BY <1>2, <1>3
  <2> QED
    BY <1>2, <2>1
<1> QED
  BY <1>2, <1>3

\* A place within a file is found with its line and its column.
LEMMA PlaceFound ==
  ASSUME NEW Chars, NEW texts \in Seq(Seq(Chars)), NEW F, NEW fs \in Seq(F), Laid(fs, texts),
         NEW i \in 1..Len(fs), NEW q, Within(fs, texts, i, q)
  PROVE  Loc1(fs, fs[i].offs + q) =
           [path |-> fs[i].path, line |-> Line(texts[i], q), col |-> Col(texts[i], q)]
<1> DEFINE offs == fs[i].offs
           p == offs + q
           S == Before(texts[i], q)
           before == {nl \in fs[i].lines : nl < p}
           last == CHOOSE k \in S \cup {0} : \A other \in S : other <= k
           col1 == CHOOSE nl \in before \cup {offs - 1} : \A other \in before : other <= nl
<1>1. offs \in Nat /\ Len(texts[i]) \in Nat /\ q \in 0..Len(texts[i]) /\ q \in Nat
  <2>1. offs \in Nat /\ Len(texts[i]) \in Nat
    BY OffsNat
  <2> QED
    BY <2>1 DEF Within
<1>2. S \in SUBSET (1..q)
  BY DEF Before
<1>3. before = {offs + k - 1 : k \in S}
  <2>1. fs[i].lines = {offs + k - 1 : k \in Newlines(texts[i])}
    BY LaidFile
  <2>2. Newlines(texts[i]) = {k \in 1..Len(texts[i]) : texts[i][k] = "\n"}
    BY <1>1 DEF Newlines, Laid
  <2>3. ASSUME NEW nl \in before PROVE nl \in {offs + k - 1 : k \in S}
    <3>1. PICK k \in 1..Len(texts[i]) : nl = offs + k - 1 /\ texts[i][k] = "\n"
      BY <2>1, <2>2
    <3>2. k \in 1..q
      BY <1>1, <3>1
    <3> QED
      BY <3>1, <3>2 DEF Before
  <2>4. ASSUME NEW k \in S PROVE offs + k - 1 \in before
    <3>1. k \in Newlines(texts[i]) /\ k \in 1..q
      BY <1>1, <2>2 DEF Before
    <3>2. offs + k - 1 < p
      BY <1>1, <3>1
    <3> QED
      BY <2>1, <3>1, <3>2
  <2> QED
    BY <2>3, <2>4
<1>4. Cardinality(before) = Cardinality(S)
  <2> DEFINE f == [k \in S |-> offs + k - 1]
  <2>1. IsFiniteSet(S)
    <3>1. IsFiniteSet(1..q)
      BY <1>1, FS_Interval
    <3> QED
      BY <1>2, <3>1, FS_Subset
  <2> HIDE DEF offs, S, before
  <2>2. f \in [S -> before]
    BY <1>3
  <2>3. \A k, m \in S : f[k] = f[m] => k = m
    BY <1>1, <1>2
  <2>4. \A nl \in before : \E k \in S : f[k] = nl
    BY <1>3
  <2>5. f \in Bijection(S, before)
    BY <2>2, <2>3, <2>4 DEF Bijection, Injection, Surjection, IsInjective
  <2> QED
    BY <2>1, <2>5, FS_Bijection DEF ExistsBijection
<1>5. last \in S \cup {0} /\ \A other \in S : other <= last
  BY <1>1, <1>2, LastOf
<1>6. col1 = offs + last - 1 /\ last \in Nat
  <2> HIDE DEF offs, S, before, last
  <2>0. last \in Nat
    BY <1>2, <1>5
  <2>1. offs + last - 1 \in before \cup {offs - 1}
    <3>1. CASE last \in S
      BY <1>3, <3>1
    <3>2. CASE last = 0
      BY <1>1, <3>2
    <3> QED
      BY <1>5, <3>1, <3>2
  <2>2. \A other \in before : other <= offs + last - 1
    BY <1>1, <1>2, <1>3, <1>5, <2>0
  <2>3. ASSUME NEW nl \in before \cup {offs - 1}, \A other \in before : other <= nl
        PROVE  nl = offs + last - 1
    <3>1. nl \in Int /\ offs + last - 1 \in Int
      BY <1>1, <1>2, <1>3, <2>0
    <3>2. nl <= offs + last - 1
      BY <1>1, <2>0, <2>2, <2>3
    <3>3. offs + last - 1 <= nl
      <4>1. CASE last \in S
        BY <1>3, <2>3, <4>1
      <4>2. CASE last = 0 /\ nl # offs - 1
        BY <1>1, <1>2, <1>3, <2>3, <4>2
      <4>3. CASE last = 0 /\ nl = offs - 1
        BY <1>1, <4>3
      <4> QED
        BY <1>5, <4>1, <4>2, <4>3
    <3> QED
      BY <3>1, <3>2, <3>3
  <2> QED
    BY <2>0, <2>1, <2>2, <2>3
<1>7. (CHOOSE j \in 1..Len(fs) : StopsAt(fs, p, j)) = i
  BY FileFound
<1>8. Loc1(fs, p) = [path |-> fs[i].path, line |-> Cardinality(before) + 1, col |-> p - col1]
  BY <1>7 DEF Loc1
<1>9. p - col1 = q + 1 - last
  <2> HIDE DEF offs, last, col1
  <2> QED
    BY <1>1, <1>6
<1> QED
  BY <1>4, <1>8, <1>9 DEF Line, Col

-----------------------------------------------------------------------------
(* Ranges *)

LEMMA InsideFiles ==
  ASSUME NEW Chars, NEW texts \in Seq(Seq(Chars)), NEW F, NEW fs \in Seq(F), Laid(fs, texts),
         NEW i \in 1..Len(fs), NEW q \in 0..Len(texts[i])
  PROVE  /\ fs # <<>> /\ fs[i].offs + q \in Nat /\ LocsLen(fs) \in Nat
         /\ fs[i].offs + q <= LocsLen(fs)
<1> DEFINE n == Len(fs)
           offs == fs[i].offs
           len == Len(texts[i])
           lastOffs == fs[n].offs
           lastLen == Len(texts[n])
<1>1. n \in 1..Len(fs) /\ fs # <<>> /\ n \in Nat
  OBVIOUS
<1>2. offs \in Nat /\ len \in Nat
  BY OffsNat
<1>3. lastOffs \in Nat /\ lastLen \in Nat
  BY <1>1, OffsNat
<1>4. LocsLen(fs) = lastOffs + lastLen
  <2>1. fs[n].len = Len(texts[n])
    BY <1>1, LaidFile
  <2> QED
    BY <1>1, <2>1 DEF LocsLen
<1>5. CASE i = n
  BY <1>1, <1>2, <1>3, <1>4, <1>5
<1>6. CASE i # n
  <2>1. n \in i + 1..Len(fs)
    BY <1>1, <1>6
  <2>2. offs + len <= lastOffs
    BY <2>1, OffsAscend
  <2> HIDE DEF n, offs, len, lastOffs, lastLen
  <2>3. q \in 0..len
    BY DEF len
  <2>4. offs + q \in Nat /\ offs + q <= lastOffs + lastLen
    BY <1>2, <1>3, <2>2, <2>3
  <2> QED
    BY <1>1, <1>3, <1>4, <2>4 DEF offs
<1> QED
  BY <1>5, <1>6

\* A range with both ends within a file, or at the end of the last file, is shown where
\* an editor shows it, whatever the files before and after it hold (loc.go:70-83).
THEOREM LocCorrect ==
  ASSUME NEW Chars, NEW texts \in Seq(Seq(Chars)), NEW F, NEW fs \in Seq(F), Laid(fs, texts),
         NEW i \in 1..Len(fs), 
         NEW start, NEW end, Within(fs, texts, i, start), Within(fs, texts, i, end)
  PROVE  LocOf(fs, <<fs[i].offs + start, fs[i].offs + end>>) =
           [kind |-> "loc", path |-> fs[i].path,
            line |-> <<Line(texts[i], start), Line(texts[i], end)>>,
            col |-> <<Col(texts[i], start), Col(texts[i], end)>>]
<1> DEFINE a == fs[i].offs + start
           b == fs[i].offs + end
<1>1. Loc1(fs, a) =
        [path |-> fs[i].path, line |-> Line(texts[i], start), col |-> Col(texts[i], start)]
  BY PlaceFound
<1>2. Loc1(fs, b) =
        [path |-> fs[i].path, line |-> Line(texts[i], end), col |-> Col(texts[i], end)]
  BY PlaceFound
<1>3. fs # <<>> /\ a \in Nat /\ b \in Nat /\ LocsLen(fs) \in Nat /\ b <= LocsLen(fs)
  <2>1. start \in 0..Len(texts[i]) /\ end \in 0..Len(texts[i])
    BY DEF Within
  <2> QED
    BY <2>1, InsideFiles
<1> HIDE DEF a, b
<1>4. <<a, b>>[1] = a /\ <<a, b>>[2] = b
  OBVIOUS
<1>5. ~ (fs = <<>> \/ a < 0 \/ b > LocsLen(fs))
  BY <1>3
<1>6. LocOf(fs, <<a, b>>) = [kind |-> "loc", path |-> Loc1(fs, a).path,
                      line |-> <<Loc1(fs, a).line, Loc1(fs, b).line>>,
                      col |-> <<Loc1(fs, a).col, Loc1(fs, b).col>>]
  <2>1. Loc1(fs, a).path = Loc1(fs, b).path
    BY <1>1, <1>2
  <2> QED
    BY <1>4, <1>5, <2>1 DEF LocOf
<1>7. LocOf(fs, <<a, b>>) =
           [kind |-> "loc", path |-> fs[i].path,
            line |-> <<Line(texts[i], start), Line(texts[i], end)>>,
            col |-> <<Col(texts[i], start), Col(texts[i], end)>>]
  BY <1>1, <1>2, <1>6
<1> QED
  BY <1>7 DEF a, b

\* But a range that ends where its file does, with another file that is not empty after it, is
\* not shown at all: its end is looked for in the next file, and Loc panics (loc.go:78-80).
THEOREM LocPanicsAtEnd ==
  ASSUME NEW Chars, NEW texts \in Seq(Seq(Chars)), NEW F, NEW fs \in Seq(F), Laid(fs, texts),
         NEW i \in 1..Len(fs), i < Len(fs), texts[i + 1] # <<>>, fs[i + 1].path # fs[i].path,
         NEW start, Within(fs, texts, i, start)
  PROVE  LocOf(fs, <<fs[i].offs + start, fs[i].offs + Len(texts[i])>>) = [kind |-> "panic"]
<1> DEFINE a == fs[i].offs + start
           b == fs[i].offs + Len(texts[i])
<1>1. i + 1 \in 1..Len(fs) /\ i + 1 # 1 /\ i + 1 - 1 = i
  OBVIOUS
<1>2. fs[i + 1].offs \in Nat /\ Len(texts[i + 1]) \in Nat
  BY <1>1, OffsNat
<1>3. fs[i + 1].offs = b
  <2>1. fs[i + 1].offs = fs[i].offs + fs[i].len
    BY <1>1, LaidFile
  <2>2. fs[i].len = Len(texts[i])
    BY LaidFile
  <2> QED
    BY <2>1, <2>2
<1>4. Within(fs, texts, i + 1, 0)
  <2>1. texts[i + 1] \in Seq(Chars)
    BY <1>1 DEF Laid
  <2> QED
    BY <1>2, <2>1 DEF Within
<1>5. Loc1(fs, b).path = fs[i + 1].path
  <2> DEFINE next == i + 1
  <2>1. next \in 1..Len(fs) /\ Within(fs, texts, next, 0)
    BY <1>1, <1>4
  <2> HIDE DEF next
  <2>2. Loc1(fs, fs[next].offs + 0) =
          [path |-> fs[next].path, line |-> Line(texts[next], 0), col |-> Col(texts[next], 0)]
    BY <2>1, PlaceFound
  <2>3. fs[next].offs + 0 = b
    BY <1>2, <1>3 DEF next
  <2> QED
    BY <2>2, <2>3 DEF next
<1>6. Loc1(fs, a).path = fs[i].path
  <2>1. Loc1(fs, a) =
          [path |-> fs[i].path, line |-> Line(texts[i], start), col |-> Col(texts[i], start)]
    BY PlaceFound
  <2> QED
    BY <2>1
<1>7. fs # <<>> /\ a \in Nat /\ b \in Nat /\ LocsLen(fs) \in Nat /\ b <= LocsLen(fs)
  <2>1. start \in 0..Len(texts[i]) /\ Len(texts[i]) \in 0..Len(texts[i])
    BY OffsNat DEF Within
  <2> QED
    BY <2>1, InsideFiles
<1> HIDE DEF a, b
<1>8. <<a, b>>[1] = a /\ <<a, b>>[2] = b
  OBVIOUS
<1>9. ~ (fs = <<>> \/ a < 0 \/ b > LocsLen(fs))
  BY <1>7
<1>10. LocOf(fs, <<a, b>>) = [kind |-> "panic"]
  BY <1>5, <1>6, <1>8, <1>9 DEF LocOf
<1> QED
  BY <1>10 DEF a, b
=============================================================================
