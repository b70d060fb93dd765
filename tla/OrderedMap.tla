----------------------------- MODULE OrderedMap -----------------------------
(***************************************************************************)
(* What (K, V) Map of the Pea library promises                             *)
(* (src/lib/container/hashmap/map.pea): a map that remembers the order in  *)
(* which keys were inserted, and a do: whose function may add, remove and  *)
(* change entries, other do:s included.  The promise about do: is that of  *)
(* its comment (map.pea:142-156).                                          *)
(***************************************************************************)
EXTENDS SequencesExt

CONSTANTS Keys, Vals

VARIABLES
  items, \* the entries, in the order in which their keys were inserted
  todo,  \* for each do: under way, the outermost first, the keys still to come
  result \* what the last operation returned, or the entry it calls f with

\* A key has one place among the items at most, and among the keys to come.
Has(k) == \E i \in DOMAIN items : items[i].key = k
Place(k) == CHOOSE i \in DOMAIN items : items[i].key = k
Get(k) == items[Place(k)].val

Without(k, keys) ==
  IF \E i \in DOMAIN keys : keys[i] = k
  THEN RemoveAt(keys, CHOOSE i \in DOMAIN keys : keys[i] = k)
  ELSE keys

Init == items = <<>> /\ todo = <<>> /\ result = <<>>

At(k) ==
  /\ result' = IF Has(k) THEN <<Get(k)>> ELSE <<>>
  /\ UNCHANGED <<items, todo>>

AtPut(k, v) ==
  /\ result' = IF Has(k) THEN <<Get(k)>> ELSE <<>>
  /\ IF Has(k)
     THEN /\ items' = [i \in DOMAIN items |->
                         IF i = Place(k) THEN [key |-> k, val |-> v] ELSE items[i]]
          /\ UNCHANGED todo
     ELSE /\ items' = Append(items, [key |-> k, val |-> v])
          /\ todo' = [i \in DOMAIN todo |-> Append(todo[i], k)]

RemoveKey(k) ==
  /\ result' = IF Has(k) THEN <<Get(k)>> ELSE <<>>
  /\ items' = IF Has(k) THEN RemoveAt(items, Place(k)) ELSE items
  /\ todo' = [i \in DOMAIN todo |-> Without(k, todo[i])]

Size == result' = <<Len(items)>> /\ UNCHANGED <<items, todo>>

\* f is called with the first of the keys and has the others still to come.
Evaluate(keys) == result' = <<Head(keys), Get(Head(keys))>>

Do ==
  /\ UNCHANGED items
  /\ LET keys == [i \in DOMAIN items |-> items[i].key]
     IN IF keys = <<>>
        THEN result' = <<>> /\ UNCHANGED todo
        ELSE Evaluate(keys) /\ todo' = Append(todo, Tail(keys))

\* f returns to the innermost do:.
NextOfDo ==
  /\ todo # <<>>
  /\ UNCHANGED items
  /\ LET keys == Last(todo)
     IN IF keys = <<>>
        THEN result' = <<>> /\ todo' = Front(todo)
        ELSE Evaluate(keys) /\ todo' = Append(Front(todo), Tail(keys))

Next ==
  \/ \E k \in Keys : At(k) \/ RemoveKey(k) \/ \E v \in Vals : AtPut(k, v)
  \/ Size \/ Do \/ NextOfDo

Spec == Init /\ [][Next]_<<items, todo, result>>
=============================================================================
