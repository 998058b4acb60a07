------------------------------ MODULE LruCache ------------------------------
(***************************************************************************)
(* zim::lru_cache of src/lrucache.h, the operations that the program uses. *)
(* A cache is a record: `list` is _cache_items_list, the cached pairs of   *)
(* key and value, the most recently used first; `map` is the set of keys   *)
(* of _cache_items_map, whose iterators each point to the key's pair.      *)
(***************************************************************************)
EXTENDS Integers, Sequences, FiniteSets

EmptyCache == [list |-> <<>>, map |-> {}]

Pair(k, v) == [key |-> k, val |-> v]

\* What the iterator of map entry k points to.
PositionOf(c, k) == CHOOSE n \in 1..Len(c.list) : c.list[n].key = k

\* Mutant of ValueOf: the front of the list, before the pair is moved there.
FrontValue(c, k) == c.list[1].val

ValueOf(c, k) == c.list[PositionOf(c, k)].val

\* splice(begin(), list, it): the n-th pair becomes the first.
ToFront(list, n) ==
    [m \in 1..Len(list) |-> IF m = 1 THEN list[n]
                            ELSE IF m <= n THEN list[m - 1] ELSE list[m]]

\* erase(it): the n-th pair is taken out.
Without(list, n) ==
    [m \in 1..(Len(list) - 1) |-> IF m < n THEN list[m] ELSE list[m + 1]]

Touch(c, k) == [c EXCEPT !.list = ToFront(@, PositionOf(c, k))]

\* Mutant of PutMissing: the evicted pair's key stays in the map.
PutMissingKeepsKey(c, maxSize, k, v) ==
    LET list == <<Pair(k, v)>> \o c.list
        map == c.map \cup {k}
    IN  IF Cardinality(map) > maxSize
          THEN [list |-> Without(list, Len(list)), map |-> map]
          ELSE [list |-> list, map |-> map]

\* Push the pair to the front; over the limit, the last pair goes.
PutMissing(c, maxSize, k, v) ==
    LET list == <<Pair(k, v)>> \o c.list
        map == c.map \cup {k}
    IN  IF Cardinality(map) > maxSize
          THEN [list |-> Without(list, Len(list)),
                map |-> map \ {list[Len(list)].key}]
          ELSE [list |-> list, map |-> map]

GetOrPut(c, maxSize, k, v) ==
    IF k \in c.map THEN Touch(c, k) ELSE PutMissing(c, maxSize, k, v)

DropKey(c, k) ==
    IF k \in c.map
      THEN [list |-> Without(c.list, PositionOf(c, k)), map |-> c.map \ {k}]
      ELSE c

-----------------------------------------------------------------------------

\* The list and the map agree, and the limit is kept.
Coherent(c, maxSize) ==
    /\ {c.list[n].key : n \in 1..Len(c.list)} = c.map
    /\ \A m, n \in 1..Len(c.list) : c.list[m].key = c.list[n].key => m = n
    /\ Len(c.list) <= maxSize

=============================================================================
