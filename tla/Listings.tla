------------------------------ MODULE Listings ------------------------------
(***************************************************************************)
(* What peac (src/peac/peac.go) relies on of the listings of modules that  *)
(* it makes before it compiles and links: ModLoad guarantees it,           *)
(* PeacBuild assumes it.                                                   *)
(***************************************************************************)
EXTENDS Naturals, Sequences

\* The sequence lists the modules of S, each at least once.
ListsAll(s, S) ==
  /\ s \in Seq(S)
  /\ \A m \in S : \E i \in 1..Len(s) : s[i] = m

\* ... and each just once.
ListsOnce(s, S) ==
  /\ ListsAll(s, S)
  /\ \A i, j \in 1..Len(s) : s[i] = s[j] => i = j
=============================================================================
