------------------------------ MODULE HashMap ------------------------------
(***************************************************************************)
(* The hash table of the Pea library (src/lib/container/hashmap/map.pea).  *)
(*                                                                         *)
(* Entries are chained twice: within the bucket of their hash, and, doubly *)
(* linked, in the order of their insertion.  The table doubles its buckets *)
(* when it is more than four fifths full.  do: follows the second chain    *)
(* and looks for the next entry when its function has returned, and the    *)
(* function may use the map in any way, which is when an operation of the  *)
(* map comes between two steps of a do:.                                   *)
(***************************************************************************)
EXTENDS Naturals, SequencesExt

CONSTANTS
  Keys, Vals,
  HashFuns,       \* the hash methods that the keys may have
  InitBuckets,    \* number of buckets of a new map (13 in the code)
  RemovesCurrent, \* may the function of a do: remove the very entry it is called with?
  MaxEntries,     \* bound on the number of insertions
  MaxDos          \* bound on the depth of do:s

ASSUME BoundAssumption ==
  /\ HashFuns \subseteq [Keys -> Nat] /\ InitBuckets \in Nat \ {0}
  /\ MaxEntries \in Nat /\ MaxDos \in Nat
  /\ RemovesCurrent \in BOOLEAN

VARIABLES
  hash,    \* the hash method of the keys, the same for ever
  entry,   \* the entries made so far; 0 is the empty EntryList, i the i-th of them
  buckets, \* the first entry of each bucket, indexed from 0
  size, first, last,
  dos,     \* the entries that the do:s under way call their function with
  result   \* what the last operation returned, or the entry of a do:

map == <<hash, entry, buckets, size, first, last>>
vars == <<hash, entry, buckets, size, first, last, dos, result>>

NumBuckets == Len(buckets)

Init ==
  /\ hash \in HashFuns
  /\ entry = <<>>
  /\ buckets = [i \in 1..InitBuckets |-> 0]
  /\ size = 0 /\ first = 0 /\ last = 0
  /\ dos = <<>> /\ result = <<>>

-----------------------------------------------------------------------------
(* Buckets *)

\* Arrays are indexed from 0 in Pea and from 1 here.
indexOf(k, n) == (hash[k] % n) + 1

nexts(entries) == [e \in DOMAIN entries |-> entries[e].next]
afters(entries) == [e \in DOMAIN entries |-> entries[e].after]

\* Whether s are the entries of the chain that starts at e, for the given links.
IsChain(links, e, s) ==
  /\ e = IF s = <<>> THEN 0 ELSE s[1]
  /\ \A i \in DOMAIN s : links[s[i]] = IF i = Len(s) THEN 0 ELSE s[i + 1]

Chain(links, e) == CHOOSE s \in SeqOf(DOMAIN links, Len(links)) : IsChain(links, e, s)

\* The bucket that k belongs to.
Bucket(k) == Chain(nexts(entry), buckets[indexOf(k, NumBuckets)])

\* The places in it that have key k; in a sound table there is at most one.
Places(k) == LET b == Bucket(k) IN {j \in DOMAIN b : entry[b[j]].key = k}

\* doBucket: ends at the first.
Found(k) == Places(k) # {}
Place(k) == CHOOSE j \in Places(k) : \A l \in Places(k) : j <= l
EntryOf(k) == Bucket(k)[Place(k)]
Some(k) == <<entry[EntryOf(k)].val>>

\* Whether grow comes to e before it comes to f, in buckets that are these chains.
Before(chains, e, f) ==
  \E i, j \in DOMAIN chains : \E l \in DOMAIN chains[i], m \in DOMAIN chains[j] :
    /\ chains[i][l] = e /\ chains[j][m] = f
    /\ i < j \/ (i = j /\ l < m)

\* The entry of S that grow comes to last, if there is one.
LastOf(chains, S) ==
  IF S = {} THEN 0 ELSE CHOOSE e \in S : \A f \in S : f = e \/ Before(chains, f, e)

\* Mutant: the entries of a bucket keep their old successors.
RehashKeepNext(entries, bks) ==
  LET chains == [i \in DOMAIN bks |-> Chain(nexts(entries), bks[i])]
      In(i) == {e \in UNION {ToSet(chains[j]) : j \in DOMAIN chains} :
                  indexOf(entries[e].key, 2 * Len(bks)) = i}
  IN [entry |-> entries, buckets |-> [i \in 1..2 * Len(bks) |-> LastOf(chains, In(i))]]

\* grow puts each entry it comes to in front of those of the same bucket that it has
\* come to before, in a new table with twice the buckets.
Rehash(entries, bks) ==
  LET chains == [i \in DOMAIN bks |-> Chain(nexts(entries), bks[i])]
      old == UNION {ToSet(chains[i]) : i \in DOMAIN chains}
      index(e) == indexOf(entries[e].key, 2 * Len(bks))
      In(i) == {e \in old : index(e) = i}
      next(e) == LastOf(chains, {f \in In(index(e)) : Before(chains, f, e)})
  IN [entry |-> [e \in DOMAIN entries |->
                   IF e \in old THEN [entries[e] EXCEPT !.next = next(e)] ELSE entries[e]],
      buckets |-> [i \in 1..2 * Len(bks) |-> LastOf(chains, In(i))]]

\* grow, for a table of the given entries, buckets and size.
Grow(entries, bks, sz) ==
  IF 10 * sz > 8 * Len(bks) THEN Rehash(entries, bks)
  ELSE [entry |-> entries, buckets |-> bks]

-----------------------------------------------------------------------------
(* The operations of a map *)

At(k) ==
  /\ result' = IF Found(k) THEN Some(k) ELSE <<>>
  /\ UNCHANGED <<map, dos>>

Change(k, v) ==
  /\ Found(k)
  /\ result' = Some(k)
  /\ entry' = [entry EXCEPT ![EntryOf(k)].val = v]
  /\ UNCHANGED <<hash, buckets, size, first, last, dos>>

Insert(k, v) ==
  LET e == Len(entry) + 1
      i == indexOf(k, NumBuckets)
      new == [key |-> k, val |-> v, next |-> buckets[i], before |-> last, after |-> 0]
      linked == IF last = 0 THEN entry ELSE [entry EXCEPT ![last].after = e]
      table == Grow(Append(linked, new), [buckets EXCEPT ![i] = e], size + 1)
  IN /\ ~ Found(k)
     /\ e <= MaxEntries
     /\ first' = IF first = 0 THEN e ELSE first
     /\ last' = e
     /\ entry' = table.entry /\ buckets' = table.buckets
     /\ size' = size + 1
     /\ result' = <<>>
     /\ UNCHANGED <<hash, dos>>

\* Mutant: the bucket is assigned to, wherever in it the entry is.
UnlinkedFirst(k) ==
  [entry |-> entry,
   buckets |-> [buckets EXCEPT ![indexOf(k, NumBuckets)] = entry[EntryOf(k)].next]]

\* EntryList remove: assigns to the link that leads to the entry.
Unlinked(k) ==
  LET next == entry[EntryOf(k)].next
  IN IF Place(k) = 1
     THEN [entry |-> entry, buckets |-> [buckets EXCEPT ![indexOf(k, NumBuckets)] = next]]
     ELSE [entry |-> [entry EXCEPT ![Bucket(k)[Place(k) - 1]].next = next],
           buckets |-> buckets]

RemoveAbsent(k) ==
  /\ ~ Found(k)
  /\ result' = <<>>
  /\ UNCHANGED <<map, dos>>

\* The entry itself keeps its links, for the do: that may be at it.
RemoveKey(k) ==
  /\ Found(k)
  /\ LET e == EntryOf(k)
         table == Unlinked(k)
         b == entry[e].before
         a == entry[e].after
     IN /\ ~ RemovesCurrent => e \notin ToSet(dos)
        /\ entry' = [q \in DOMAIN entry |->
                       [table.entry[q] EXCEPT !.after = IF q = b THEN a ELSE @,
                                              !.before = IF q = a THEN b ELSE @]]
        /\ buckets' = table.buckets
        /\ first' = IF b = 0 THEN a ELSE first
        /\ last' = IF a = 0 THEN b ELSE last
  /\ size' = size - 1
  /\ result' = Some(k)
  /\ UNCHANGED <<hash, dos>>

Size == result' = <<size>> /\ UNCHANGED <<map, dos>>

-----------------------------------------------------------------------------
(* do: *)

Evaluate(e) == result' = <<entry[e].key, entry[e].val>>

Do ==
  /\ Len(dos) < MaxDos
  /\ IF first = 0
     THEN result' = <<>> /\ UNCHANGED dos
     ELSE Evaluate(first) /\ dos' = Append(dos, first)
  /\ UNCHANGED map

\* The function of the innermost do: returns.
doOrder ==
  /\ dos # <<>>
  /\ LET e == entry[Last(dos)].after
     IN IF e = 0
        THEN result' = <<>> /\ dos' = Front(dos)
        ELSE Evaluate(e) /\ dos' = Append(Front(dos), e)
  /\ UNCHANGED map

Next ==
  \/ \E k \in Keys : At(k) \/ RemoveAbsent(k) \/ RemoveKey(k)
  \/ \E k \in Keys, v \in Vals : Change(k, v) \/ Insert(k, v)
  \/ Size \/ Do \/ doOrder

Spec == Init /\ [][Next]_vars

-----------------------------------------------------------------------------
(* Properties *)

\* The entries that a do: comes to from e on.
Order(e) == Chain(afters(entry), e)

\* The two chains hold the same entries: what do: visits (map.pea:223-228) is
\* what at: can find, each entry in the bucket of its hash, after any number of
\* insertions, removals and grows.
SameEntries ==
  \A i \in 1..NumBuckets :
    ToSet(Chain(nexts(entry), buckets[i])) =
      {e \in ToSet(Order(first)) : indexOf(entry[e].key, NumBuckets) = i}

\* For its users the map is an ordered map, and each do: calls its function with
\* what was added while it runs and not with what was removed (map.pea:142-156).
KeysFrom(e) == LET order == Order(e) IN [i \in DOMAIN order |-> entry[order[i]].key]

Items ==
  LET order == Order(first)
  IN [i \in DOMAIN order |-> [key |-> entry[order[i]].key, val |-> entry[order[i]].val]]

Todo == [i \in DOMAIN dos |-> KeysFrom(entry[dos[i]].after)]

Abstract == INSTANCE OrderedMap WITH items <- Items, todo <- Todo, result <- result

Implements == Abstract!Spec
=============================================================================
