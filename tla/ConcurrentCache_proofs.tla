----------------------- MODULE ConcurrentCache_proofs -----------------------
(***************************************************************************)
(* What the run of ConcurrentCache checks on a small instance, proved for  *)
(* any threads, keys and limit and any number of calls.                    *)
(*                                                                         *)
(* The first part says what the operations of lru_cache do to the pairs it *)
(* holds, for any keys, any values and any limit: `Cached` forgets the     *)
(* order of the list, and all that follows reasons about that set alone.   *)
(***************************************************************************)
EXTENDS ConcurrentCache, FiniteSetTheorems, TLAPS

Pairs(K, V) == [key : K, val : V]

IsCache(c, K, V) == c \in [list : Seq(Pairs(K, V)), map : SUBSET K]

PairsOf(list) == {list[n] : n \in 1..Len(list)}

Cached(c) == PairsOf(c.list)

-----------------------------------------------------------------------------
(* The list: what is where after a pair was moved or taken out. *)

LEMMA SeqOfFunction ==
    ASSUME NEW S, NEW n \in Nat, NEW f \in [1..n -> S]
    PROVE  f \in Seq(S) /\ Len(f) = n
  OBVIOUS

\* Where the m-th pair of ToFront(list, n) was in the list, and where the m-th
\* pair of the list is then.
MovedFrom(n, m) == IF m = 1 THEN n ELSE IF m <= n THEN m - 1 ELSE m
MovedTo(n, m) == IF m = n THEN 1 ELSE IF m < n THEN m + 1 ELSE m

LEMMA ToFrontMoves ==
    ASSUME NEW S, NEW list \in Seq(S), NEW n \in 1..Len(list)
    PROVE  /\ ToFront(list, n) \in Seq(S)
           /\ Len(ToFront(list, n)) = Len(list)
           /\ \A m \in 1..Len(list) :
                /\ MovedFrom(n, m) \in 1..Len(list)
                /\ ToFront(list, n)[m] = list[MovedFrom(n, m)]
                /\ MovedTo(n, m) \in 1..Len(list)
                /\ MovedFrom(n, MovedTo(n, m)) = m
                /\ MovedTo(n, MovedFrom(n, m)) = m
<1>1. ToFront(list, n) \in [1..Len(list) -> S]
  BY DEF ToFront
<1>2. ToFront(list, n) \in Seq(S) /\ Len(ToFront(list, n)) = Len(list)
  BY <1>1, SeqOfFunction
<1>3. ASSUME NEW m \in 1..Len(list)
      PROVE  ToFront(list, n)[m] = list[MovedFrom(n, m)]
  BY <1>3 DEF ToFront, MovedFrom
<1>4. ASSUME NEW m \in 1..Len(list)
      PROVE  /\ MovedFrom(n, m) \in 1..Len(list)
             /\ MovedTo(n, m) \in 1..Len(list)
             /\ MovedFrom(n, MovedTo(n, m)) = m
             /\ MovedTo(n, MovedFrom(n, m)) = m
  BY <1>4 DEF MovedFrom, MovedTo
<1>5. QED
  BY <1>2, <1>3, <1>4

\* The same for Without(list, n).
LeftFrom(n, m) == IF m < n THEN m ELSE m + 1
LeftTo(n, m) == IF m < n THEN m ELSE m - 1

LEMMA WithoutLeaves ==
    ASSUME NEW S, NEW list \in Seq(S), NEW n \in 1..Len(list)
    PROVE  /\ Without(list, n) \in Seq(S)
           /\ Len(Without(list, n)) = Len(list) - 1
           /\ \A m \in 1..(Len(list) - 1) :
                /\ LeftFrom(n, m) \in (1..Len(list)) \ {n}
                /\ Without(list, n)[m] = list[LeftFrom(n, m)]
                /\ LeftTo(n, LeftFrom(n, m)) = m
           /\ \A m \in (1..Len(list)) \ {n} :
                /\ LeftTo(n, m) \in 1..(Len(list) - 1)
                /\ LeftFrom(n, LeftTo(n, m)) = m
<1>1. Len(list) - 1 \in Nat
  OBVIOUS
<1>2. Without(list, n) \in [1..(Len(list) - 1) -> S]
  BY DEF Without
<1>3. Without(list, n) \in Seq(S) /\ Len(Without(list, n)) = Len(list) - 1
  BY <1>1, <1>2, SeqOfFunction
<1>4. ASSUME NEW m \in 1..(Len(list) - 1)
      PROVE  Without(list, n)[m] = list[LeftFrom(n, m)]
  BY <1>4 DEF Without, LeftFrom
<1>5. ASSUME NEW m \in 1..(Len(list) - 1)
      PROVE  /\ LeftFrom(n, m) \in (1..Len(list)) \ {n}
             /\ LeftTo(n, LeftFrom(n, m)) = m
  BY <1>5 DEF LeftFrom, LeftTo
<1>6. ASSUME NEW m \in (1..Len(list)) \ {n}
      PROVE  /\ LeftTo(n, m) \in 1..(Len(list) - 1)
             /\ LeftFrom(n, LeftTo(n, m)) = m
  BY <1>6 DEF LeftFrom, LeftTo
<1>7. QED
  BY <1>3, <1>4, <1>5, <1>6

-----------------------------------------------------------------------------
(* The list as a set of pairs with distinct keys. *)

LEMMA InPairsOf ==
    ASSUME NEW list, NEW x
    PROVE  x \in PairsOf(list) <=> \E n \in 1..Len(list) : list[n] = x
  BY DEF PairsOf

Distinct(list) == \A m, n \in 1..Len(list) : list[m].key = list[n].key => m = n

LEMMA ToFrontSet ==
    ASSUME NEW S, NEW list \in Seq(S), NEW n \in 1..Len(list), Distinct(list)
    PROVE  /\ PairsOf(ToFront(list, n)) = PairsOf(list)
           /\ Distinct(ToFront(list, n))
<1> DEFINE moved == ToFront(list, n)
<1>1. /\ Len(moved) = Len(list)
      /\ \A m \in 1..Len(list) :
           /\ MovedFrom(n, m) \in 1..Len(list)
           /\ moved[m] = list[MovedFrom(n, m)]
           /\ MovedTo(n, m) \in 1..Len(list)
           /\ MovedFrom(n, MovedTo(n, m)) = m
           /\ MovedTo(n, MovedFrom(n, m)) = m
  BY ToFrontMoves
<1> HIDE DEF moved
<1>2. ASSUME NEW y \in PairsOf(moved) PROVE y \in PairsOf(list)
  <2>1. PICK m \in 1..Len(list) : moved[m] = y
    BY <1>1, InPairsOf
  <2>2. list[MovedFrom(n, m)] = y /\ MovedFrom(n, m) \in 1..Len(list)
    BY <1>1, <2>1
  <2>3. QED
    BY <2>2, InPairsOf
<1>3. ASSUME NEW m \in 1..Len(list) PROVE list[m] \in PairsOf(moved)
  <2>1. moved[MovedTo(n, m)] = list[m]
    BY <1>1, Zenon
  <2>2. QED
    BY <1>1, <2>1, InPairsOf
<1>4. PairsOf(moved) = PairsOf(list)
  BY <1>2, <1>3, InPairsOf
<1>5. Distinct(moved)
  <2>1. SUFFICES ASSUME NEW m \in 1..Len(list), NEW o \in 1..Len(list),
                        moved[m].key = moved[o].key
                 PROVE  m = o
    BY <1>1 DEF Distinct
  <2>2. MovedFrom(n, m) = MovedFrom(n, o)
    BY <1>1, <2>1 DEF Distinct
  <2>3. QED
    BY <1>1, <2>2, Zenon
<1>6. QED
  BY <1>4, <1>5, Zenon DEF moved

LEMMA WithoutSet ==
    ASSUME NEW S, NEW list \in Seq(S), NEW n \in 1..Len(list), Distinct(list)
    PROVE  /\ PairsOf(Without(list, n)) = {x \in PairsOf(list) : x.key # list[n].key}
           /\ Distinct(Without(list, n))
<1> DEFINE left == Without(list, n)
<1>1. /\ Len(left) = Len(list) - 1
      /\ \A m \in 1..(Len(list) - 1) :
           /\ LeftFrom(n, m) \in (1..Len(list)) \ {n}
           /\ left[m] = list[LeftFrom(n, m)]
           /\ LeftTo(n, LeftFrom(n, m)) = m
      /\ \A m \in (1..Len(list)) \ {n} :
           /\ LeftTo(n, m) \in 1..(Len(list) - 1)
           /\ LeftFrom(n, LeftTo(n, m)) = m
  BY WithoutLeaves
<1> HIDE DEF left
<1>2. ASSUME NEW m \in 1..(Len(list) - 1)
      PROVE  left[m] \in PairsOf(list) /\ left[m].key # list[n].key
  <2>1. LeftFrom(n, m) \in 1..Len(list) /\ LeftFrom(n, m) # n
    BY <1>1, Zenon
  <2>2. list[LeftFrom(n, m)].key # list[n].key
    BY <2>1 DEF Distinct
  <2>3. QED
    BY <1>1, <2>1, <2>2, InPairsOf
<1>3. ASSUME NEW m \in 1..Len(list), list[m].key # list[n].key
      PROVE  list[m] \in PairsOf(left)
  <2>1. m \in (1..Len(list)) \ {n}
    BY <1>3
  <2>2. LeftTo(n, m) \in 1..(Len(list) - 1) /\ left[LeftTo(n, m)] = list[m]
    BY <1>1, <2>1, Zenon
  <2>3. QED
    BY <1>1, <2>2, InPairsOf
<1>4. PairsOf(left) = {x \in PairsOf(list) : x.key # list[n].key}
  <2>1. \A x \in PairsOf(left) : x \in PairsOf(list) /\ x.key # list[n].key
    BY <1>1, <1>2, InPairsOf
  <2>2. \A x \in PairsOf(list) : x.key # list[n].key => x \in PairsOf(left)
    BY <1>3, InPairsOf
  <2>3. QED
    BY <2>1, <2>2
<1>5. Distinct(left)
  <2>1. SUFFICES ASSUME NEW m \in 1..(Len(list) - 1), NEW o \in 1..(Len(list) - 1),
                        left[m].key = left[o].key
                 PROVE  m = o
    BY <1>1 DEF Distinct
  <2>2. LeftFrom(n, m) = LeftFrom(n, o)
    BY <1>1, <2>1 DEF Distinct
  <2>3. QED
    BY <1>1, <2>2, Zenon
<1>6. QED
  BY <1>4, <1>5, Zenon DEF left

LEMMA PushSet ==
    ASSUME NEW S, NEW list \in Seq(S), NEW x \in S, Distinct(list),
           \A y \in PairsOf(list) : y.key # x.key
    PROVE  /\ <<x>> \o list \in Seq(S)
           /\ Len(<<x>> \o list) = Len(list) + 1
           /\ PairsOf(<<x>> \o list) = PairsOf(list) \cup {x}
           /\ Distinct(<<x>> \o list)
<1> DEFINE pushed == <<x>> \o list
<1>1. pushed \in Seq(S) /\ Len(pushed) = Len(list) + 1
  OBVIOUS
<1>2. pushed[1] = x /\ \A n \in 1..Len(list) : pushed[n + 1] = list[n]
  OBVIOUS
<1>3. \A m \in 1..Len(pushed) : m = 1 \/ (m - 1 \in 1..Len(list) /\ pushed[m] = list[m - 1])
  OBVIOUS
<1> HIDE DEF pushed
<1>4. /\ 1 \in 1..Len(pushed)
      /\ \A n \in 1..Len(list) : n + 1 \in 1..Len(pushed)
      /\ \A m, o \in 1..Len(pushed) : m - 1 = o - 1 => m = o
  BY <1>1
<1>5. PairsOf(pushed) = PairsOf(list) \cup {x}
  <2>1. \A y \in PairsOf(pushed) : y \in PairsOf(list) \/ y = x
    BY <1>2, <1>3, InPairsOf
  <2>2. x \in PairsOf(pushed) /\ \A y \in PairsOf(list) : y \in PairsOf(pushed)
    BY <1>2, <1>4, InPairsOf
  <2>3. QED
    BY <2>1, <2>2
<1>6. \A n \in 1..Len(list) : list[n].key # x.key
  BY InPairsOf
<1>7. Distinct(pushed)
  <2>1. SUFFICES ASSUME NEW m \in 1..Len(pushed), NEW o \in 1..Len(pushed),
                        pushed[m].key = pushed[o].key
                 PROVE  m = o
    BY DEF Distinct
  <2>2. CASE m = 1 \/ o = 1
    BY <1>2, <1>3, <1>6, <2>1, <2>2
  <2>3. CASE m # 1 /\ o # 1
    <3>1. m - 1 = o - 1
      BY <1>3, <2>1, <2>3 DEF Distinct
    <3>2. QED
      BY <1>4, <3>1
  <2>4. QED
    BY <2>2, <2>3
<1>8. QED
  BY <1>1, <1>5, <1>7, Zenon DEF pushed

\* As many pairs as keys.
LEMMA LengthIsCardinality ==
    ASSUME NEW S, NEW list \in Seq(S), Distinct(list),
           NEW map, map = {x.key : x \in PairsOf(list)}
    PROVE  IsFiniteSet(map) /\ Cardinality(map) = Len(list)
<1> DEFINE keys == [n \in 1..Len(list) |-> list[n].key]
<1>1. map = {list[n].key : n \in 1..Len(list)}
  BY InPairsOf
<1>2. keys \in Bijection(1..Len(list), map)
  <2>1. keys \in [1..Len(list) -> map]
    BY <1>1
  <2>2. \A m, n \in 1..Len(list) : keys[m] = keys[n] => m = n
    BY DEF Distinct
  <2>3. \A k \in map : \E n \in 1..Len(list) : keys[n] = k
    BY <1>1, Zenon
  <2>4. QED
    BY <2>1, <2>2, <2>3, Zenon DEF Bijection, Injection, Surjection, IsInjective
<1>3. ExistsBijection(1..Len(list), map)
  BY <1>2, Zenon DEF ExistsBijection
<1>4. Len(list) \in Nat
  OBVIOUS
<1>5. QED
  BY <1>3, <1>4, FS_CountingElements, FS_NatBijection

-----------------------------------------------------------------------------
(* The operations. *)

LEMMA CoherentParts ==
    ASSUME NEW c, NEW maxSize
    PROVE  Coherent(c, maxSize) <=>
             /\ c.map = {x.key : x \in Cached(c)}
             /\ Distinct(c.list)
             /\ Len(c.list) <= maxSize
<1>1. {c.list[n].key : n \in 1..Len(c.list)} = {x.key : x \in Cached(c)}
  BY Zenon DEF Cached, PairsOf
<1>2. QED
  BY <1>1 DEF Coherent, Distinct

\* A coherent cache holds one pair for each key of the map.
LEMMA OnePairPerKey ==
    ASSUME NEW c, NEW maxSize, Coherent(c, maxSize),
           NEW x \in Cached(c), NEW y \in Cached(c), x.key = y.key
    PROVE  x = y
<1>1. PICK m \in 1..Len(c.list) : c.list[m] = x
  BY InPairsOf DEF Cached
<1>2. PICK n \in 1..Len(c.list) : c.list[n] = y
  BY InPairsOf DEF Cached
<1>3. QED
  BY <1>1, <1>2 DEF Coherent

LEMMA PositionOfKey ==
    ASSUME NEW c, NEW maxSize, Coherent(c, maxSize), NEW k \in c.map
    PROVE  /\ PositionOf(c, k) \in 1..Len(c.list)
           /\ c.list[PositionOf(c, k)].key = k
           /\ Pair(k, ValueOf(c, k)).key = k
           /\ c.list[PositionOf(c, k)] \in Cached(c)
<1>1. \E n \in 1..Len(c.list) : c.list[n].key = k
  BY DEF Coherent
<1>2. PositionOf(c, k) \in 1..Len(c.list) /\ c.list[PositionOf(c, k)].key = k
  BY <1>1, Zenon DEF PositionOf
<1>3. QED
  BY <1>2, InPairsOf DEF Cached, Pair

\* What a hit returns is the value that is cached for the key.
LEMMA ValueOfKey ==
    ASSUME NEW K, NEW V, NEW c, IsCache(c, K, V), NEW maxSize, Coherent(c, maxSize),
           NEW k \in c.map
    PROVE  /\ ValueOf(c, k) \in V
           /\ Pair(k, ValueOf(c, k)) \in Cached(c)
<1> DEFINE n == PositionOf(c, k)
<1>1. n \in 1..Len(c.list) /\ c.list[n].key = k /\ c.list[n] \in Cached(c)
  BY PositionOfKey
<1>2. c.list[n] \in Pairs(K, V)
  BY <1>1 DEF IsCache
<1>3. c.list[n] = Pair(k, c.list[n].val) /\ c.list[n].val \in V
  BY <1>1, <1>2 DEF Pairs, Pair
<1>4. QED
  BY <1>1, <1>3 DEF ValueOf

LEMMA TouchKeeps ==
    ASSUME NEW K, NEW V, NEW c, IsCache(c, K, V), NEW maxSize, Coherent(c, maxSize),
           NEW k \in c.map
    PROVE  /\ IsCache(Touch(c, k), K, V)
           /\ Coherent(Touch(c, k), maxSize)
           /\ Cached(Touch(c, k)) = Cached(c)
<1> DEFINE list == ToFront(c.list, PositionOf(c, k))
<1>1. c.list \in Seq(Pairs(K, V)) /\ PositionOf(c, k) \in 1..Len(c.list)
  BY PositionOfKey DEF IsCache
<1>2. list \in Seq(Pairs(K, V)) /\ Len(list) = Len(c.list)
  BY <1>1, ToFrontMoves
<1>3. PairsOf(list) = PairsOf(c.list) /\ Distinct(list)
  BY <1>1, ToFrontSet, CoherentParts
<1>4. Touch(c, k) = [list |-> list, map |-> c.map]
  BY DEF Touch, IsCache
<1> HIDE DEF list
<1>5. IsCache(Touch(c, k), K, V)
  BY <1>2, <1>4 DEF IsCache
<1>6. Touch(c, k).list = list /\ Touch(c, k).map = c.map
  BY <1>4
<1>7. Cached(Touch(c, k)) = Cached(c)
  BY <1>3, <1>6 DEF Cached
<1>8. Coherent(Touch(c, k), maxSize)
  BY <1>2, <1>3, <1>6, <1>7, CoherentParts
<1>9. QED
  BY <1>5, <1>7, <1>8

\* The pair that was used the longest ago.
Last(c) == c.list[Len(c.list)]

LEMMA PutMissingKeeps ==
    ASSUME NEW K, NEW V, NEW c, IsCache(c, K, V), NEW maxSize \in Nat,
           Coherent(c, maxSize), NEW k \in K, k \notin c.map, NEW v \in V
    PROVE  LET d == PutMissing(c, maxSize, k, v)
           IN  /\ IsCache(d, K, V)
               /\ Coherent(d, maxSize)
               /\ Cardinality(c.map \cup {k}) <= maxSize
                    => Cached(d) = Cached(c) \cup {Pair(k, v)}
               /\ Cardinality(c.map \cup {k}) > maxSize
                    => /\ maxSize = 0 => Cached(d) = {}
                       /\ maxSize # 0 => /\ Last(c) \in Cached(c)
                                         /\ Cached(d) = (Cached(c) \ {Last(c)})
                                                          \cup {Pair(k, v)}
<1> DEFINE d == PutMissing(c, maxSize, k, v)
           x == Pair(k, v)
           list == <<x>> \o c.list
           map == c.map \cup {k}
<1>1. c.list \in Seq(Pairs(K, V)) /\ x \in Pairs(K, V) /\ x.key = k
  BY DEF IsCache, Pair, Pairs
<1>2. /\ c.map = {y.key : y \in Cached(c)}
      /\ Distinct(c.list)
      /\ Len(c.list) <= maxSize
  BY CoherentParts
<1>3. \A y \in PairsOf(c.list) : y.key # x.key
  BY <1>1, <1>2 DEF Cached
<1>4. /\ list \in Seq(Pairs(K, V))
      /\ Len(list) = Len(c.list) + 1
      /\ PairsOf(list) = Cached(c) \cup {x}
      /\ Distinct(list)
  BY <1>1, <1>2, <1>3, PushSet DEF Cached
<1>5. d = IF Cardinality(map) > maxSize
            THEN [list |-> Without(list, Len(list)), map |-> map \ {list[Len(list)].key}]
            ELSE [list |-> list, map |-> map]
  BY DEF PutMissing
<1> HIDE DEF d, x, list
<1>6. map = {y.key : y \in PairsOf(list)}
  BY <1>1, <1>2, <1>4
<1>7. Cardinality(map) = Len(list) /\ map \subseteq K
  BY <1>4, <1>6, LengthIsCardinality DEF IsCache
<1>8. Len(c.list) \in Nat
  BY <1>1
<1>9. CASE Cardinality(map) > maxSize
  <2> DEFINE n == Len(list)
             rest == Without(list, n)
  <2>1. n \in 1..Len(list)
    BY <1>4, <1>8
  <2>2. d.list = rest /\ d.map = map \ {list[n].key} /\ d = [list |-> rest, map |-> d.map]
    BY <1>5, <1>9
  <2> HIDE DEF n
  <2>3. rest \in Seq(Pairs(K, V)) /\ Len(rest) = Len(list) - 1
    BY <1>4, <2>1, WithoutLeaves
  <2>4. /\ PairsOf(rest) = {y \in PairsOf(list) : y.key # list[n].key}
        /\ Distinct(rest)
    BY <1>4, <2>1, WithoutSet
  <2> HIDE DEF rest
  <2>5. Len(rest) <= maxSize
    BY <1>2, <1>4, <1>8, <2>3
  <2>6. d.map = {y.key : y \in Cached(d)}
    BY <1>6, <2>2, <2>4 DEF Cached
  <2>7. IsCache(d, K, V)
    BY <1>7, <2>2, <2>3 DEF IsCache
  <2>8. Coherent(d, maxSize)
    BY <2>2, <2>4, <2>5, <2>6, CoherentParts
  <2>9. Cached(d) = {y \in Cached(c) \cup {x} : y.key # list[n].key}
    BY <1>4, <2>2, <2>4 DEF Cached
  <2>10. ~(Cardinality(map) <= maxSize)
    BY <1>4, <1>7, <1>8, <1>9
  <2>11. /\ list[1] = x
         /\ Len(c.list) # 0 => list[n] = c.list[Len(c.list)]
    BY <1>1, <1>8 DEF n, list
  <2>12. ASSUME maxSize = 0 PROVE Cached(d) = {}
    <3>1. Len(c.list) = 0 /\ n = 1
      BY <1>2, <1>4, <1>8, <2>12 DEF n
    <3>2. Cached(c) = {}
      BY <3>1 DEF Cached, PairsOf
    <3>3. QED
      BY <2>9, <2>11, <3>1, <3>2
  <2>13. ASSUME maxSize # 0
         PROVE  Last(c) \in Cached(c) /\ Cached(d) = (Cached(c) \ {Last(c)}) \cup {x}
    <3>1. Len(c.list) # 0
      BY <1>4, <1>7, <1>8, <1>9, <2>13
    <3>2. Last(c) = list[n] /\ Last(c) \in Cached(c)
      BY <1>8, <2>11, <3>1, InPairsOf DEF Last, Cached
    <3>3. x.key # Last(c).key
      BY <1>3, <3>2 DEF Cached
    <3>4. \A y \in Cached(c) : y.key # Last(c).key <=> y # Last(c)
      BY <3>2, OnePairPerKey
    <3>5. QED
      BY <2>9, <3>2, <3>3, <3>4
  <2>14. QED
    BY <2>7, <2>8, <2>10, <2>12, <2>13 DEF d, x
<1>10. CASE ~(Cardinality(map) > maxSize)
  <2>1. d.list = list /\ d.map = map /\ d = [list |-> list, map |-> map]
    BY <1>5, <1>10
  <2>2. IsCache(d, K, V)
    BY <1>4, <1>7, <2>1 DEF IsCache
  <2>3. Len(list) <= maxSize
    BY <1>4, <1>7, <1>8, <1>10
  <2>4. Coherent(d, maxSize)
    BY <1>4, <1>6, <2>1, <2>3, CoherentParts DEF Cached
  <2>5. Cached(d) = Cached(c) \cup {x}
    BY <1>4, <2>1 DEF Cached
  <2>6. QED
    BY <1>10, <2>2, <2>4, <2>5 DEF d, x
<1>11. QED
  BY <1>9, <1>10

\* getOrPut() keeps the list and the map in agreement and within the limit. A hit
\* changes no pair. A miss adds the new one, unless the limit is 0, and takes out
\* none or, where there are as many as the limit allows, the one that was used the
\* longest ago.
THEOREM GetOrPutKeeps ==
    ASSUME NEW K, NEW V, NEW c, IsCache(c, K, V), NEW maxSize \in Nat,
           Coherent(c, maxSize), NEW k \in K, NEW v \in V
    PROVE  LET d == GetOrPut(c, maxSize, k, v)
           IN  /\ IsCache(d, K, V)
               /\ Coherent(d, maxSize)
               /\ k \in c.map => Cached(d) = Cached(c)
               /\ k \notin c.map =>
                    /\ Cardinality(c.map \cup {k}) <= maxSize
                         => Cached(d) = Cached(c) \cup {Pair(k, v)}
                    /\ Cardinality(c.map \cup {k}) > maxSize
                         => /\ maxSize = 0 => Cached(d) = {}
                            /\ maxSize # 0 => /\ Last(c) \in Cached(c)
                                              /\ Cached(d) = (Cached(c) \ {Last(c)})
                                                               \cup {Pair(k, v)}
<1>1. CASE k \in c.map
  BY <1>1, TouchKeeps DEF GetOrPut
<1>2. CASE k \notin c.map
  BY <1>2, PutMissingKeeps DEF GetOrPut
<1>3. QED
  BY <1>1, <1>2

\* drop() takes out the pair of the key, if there is one, and no other.
THEOREM DropKeeps ==
    ASSUME NEW K, NEW V, NEW c, IsCache(c, K, V), NEW maxSize \in Nat,
           Coherent(c, maxSize), NEW k
    PROVE  LET d == DropKey(c, k)
           IN  /\ IsCache(d, K, V)
               /\ Coherent(d, maxSize)
               /\ Cached(d) = {x \in Cached(c) : x.key # k}
<1> DEFINE d == DropKey(c, k)
<1>0. /\ c.map = {y.key : y \in Cached(c)}
      /\ Distinct(c.list)
      /\ Len(c.list) <= maxSize
  BY CoherentParts
<1>1. CASE k \notin c.map
  <2>1. d = c
    BY <1>1 DEF DropKey
  <2>2. QED
    BY <1>0, <1>1, <2>1
<1>2. CASE k \in c.map
  <2> DEFINE n == PositionOf(c, k)
             rest == Without(c.list, n)
  <2>1. n \in 1..Len(c.list) /\ c.list[n].key = k
    BY <1>2, PositionOfKey
  <2>2. c.list \in Seq(Pairs(K, V)) /\ c.map \subseteq K
    BY DEF IsCache
  <2>3. d.list = rest /\ d.map = c.map \ {k} /\ d = [list |-> rest, map |-> d.map]
    BY <1>2 DEF DropKey
  <2> HIDE DEF d, n
  <2>4. rest \in Seq(Pairs(K, V)) /\ Len(rest) = Len(c.list) - 1
    BY <2>1, <2>2, WithoutLeaves
  <2>5. PairsOf(rest) = {x \in PairsOf(c.list) : x.key # k} /\ Distinct(rest)
    BY <1>0, <2>1, <2>2, WithoutSet
  <2> HIDE DEF rest
  <2>6. IsCache(d, K, V)
    BY <2>2, <2>3, <2>4 DEF IsCache
  <2>7. Cached(d) = {x \in Cached(c) : x.key # k}
    BY <2>3, <2>5 DEF Cached
  <2>8. Len(rest) <= maxSize
    BY <1>0, <2>2, <2>4
  <2>9. d.map = {y.key : y \in Cached(d)}
    BY <1>0, <2>3, <2>7
  <2>10. Coherent(d, maxSize)
    BY <2>3, <2>5, <2>8, <2>9, CoherentParts
  <2>11. QED
    BY <2>6, <2>7, <2>10 DEF d
<1>3. QED
  BY <1>1, <1>2

-----------------------------------------------------------------------------
(* Types, and the cache on its own. *)

Future == 1..Len(promises)

PlaceInv ==
    /\ IsCache(impl_, Keys, Future)
    /\ Coherent(impl_, maxEntries)
    /\ \A t \in Threads : pc[t] # "idle" => key[t] \in Keys /\ fut[t] \in Future

Base == TypeOK /\ PlaceInv

LEMMA ElementOf ==
    ASSUME NEW S, NEW q \in Seq(S), NEW n \in 1..Len(q)
    PROVE  q[n] \in S
  OBVIOUS

LEMMA CacheTypes ==
    ASSUME Base
    PROVE  /\ maxEntries \in Nat
           /\ promises \in Seq([key : Keys, state : {"pending", "ready", "broken"}])
           /\ Len(promises) \in Nat
           /\ \A x \in Cached(impl_) : x.key \in Keys /\ x.val \in Future
<1>1. promises \in Seq([key : Keys, state : {"pending", "ready", "broken"}])
  BY DEF Base, TypeOK
<1>2. impl_.list \in Seq(Pairs(Keys, Future))
  BY DEF Base, PlaceInv, IsCache
<1>3. ASSUME NEW x \in Cached(impl_) PROVE x.key \in Keys /\ x.val \in Future
  <2>1. PICK n \in 1..Len(impl_.list) : impl_.list[n] = x
    BY InPairsOf DEF Cached
  <2>2. x \in Pairs(Keys, Future)
    BY <1>2, <2>1
  <2>3. QED
    BY <2>2 DEF Pairs
<1>4. QED
  BY <1>1, <1>3, SizesAssumption DEF Base, TypeOK

\* More promises may be made while the cache keeps what it has.
LEMMA MoreFutures ==
    ASSUME NEW c, NEW K, NEW m \in Nat, IsCache(c, K, 1..m)
    PROVE  IsCache(c, K, 1..(m + 1))
<1>1. Pairs(K, 1..m) \subseteq Pairs(K, 1..(m + 1))
  BY DEF Pairs
<1>2. Seq(Pairs(K, 1..m)) \subseteq Seq(Pairs(K, 1..(m + 1)))
  BY <1>1
<1>3. QED
  BY <1>2 DEF IsCache

\* What each step does to the promises and the pairs of the cache.
LEMMA LookupHits ==
    ASSUME Base, NEW t \in Threads, NEW k \in Keys, Lookup(t, k), k \in impl_.map
    PROVE  /\ promises' = promises
           /\ IsCache(impl_', Keys, Future)
           /\ Coherent(impl_', maxEntries)
           /\ Cached(impl_') = Cached(impl_)
           /\ pc' = [pc EXCEPT ![t] = "get"]
           /\ fut' = [fut EXCEPT ![t] = ValueOf(impl_, k)]
           /\ ValueOf(impl_, k) \in Future
           /\ Pair(k, ValueOf(impl_, k)) \in Cached(impl_)
<1>1. /\ promises' = promises
      /\ pc' = [pc EXCEPT ![t] = "get"]
      /\ fut' = [fut EXCEPT ![t] = ValueOf(impl_, k)]
      /\ impl_' = Touch(impl_, k)
  BY DEF Lookup, Goto, GetOrPut
<1>2. IsCache(impl_, Keys, Future) /\ Coherent(impl_, maxEntries)
  BY DEF Base, PlaceInv
<1>3. /\ IsCache(impl_', Keys, Future)
      /\ Coherent(impl_', maxEntries)
      /\ Cached(impl_') = Cached(impl_)
  BY <1>1, <1>2, TouchKeeps
<1>4. ValueOf(impl_, k) \in Future /\ Pair(k, ValueOf(impl_, k)) \in Cached(impl_)
  BY <1>2, ValueOfKey
<1>5. QED
  BY <1>1, <1>3, <1>4

LEMMA LookupMisses ==
    ASSUME Base, NEW t \in Threads, NEW k \in Keys, Lookup(t, k), k \notin impl_.map
    PROVE  LET n == Len(promises) + 1
           IN  /\ promises' = Append(promises, Promise(k, "pending"))
               /\ promises' \in Seq([key : Keys, state : {"pending", "ready", "broken"}])
               /\ Len(promises') = n
               /\ promises'[n] = Promise(k, "pending")
               /\ \A p \in Future : promises'[p] = promises[p]
               /\ IsCache(impl_', Keys, 1..n)
               /\ Coherent(impl_', maxEntries)
               /\ Cached(impl_') \subseteq Cached(impl_) \cup {Pair(k, n)}
               /\ Cardinality(impl_.map \cup {k}) <= maxEntries
                    => Cached(impl_') = Cached(impl_) \cup {Pair(k, n)}
               /\ pc' = [pc EXCEPT ![t] = "compute"]
               /\ fut' = [fut EXCEPT ![t] = n]
<1> DEFINE n == Len(promises) + 1
<1>1. /\ promises' = Append(promises, Promise(k, "pending"))
      /\ pc' = [pc EXCEPT ![t] = "compute"]
      /\ fut' = [fut EXCEPT ![t] = n]
      /\ impl_' = GetOrPut(impl_, maxEntries, k, n)
  BY DEF Lookup, Goto
<1>2. /\ promises \in Seq([key : Keys, state : {"pending", "ready", "broken"}])
      /\ Len(promises) \in Nat
      /\ maxEntries \in Nat
  BY CacheTypes
<1>3. Promise(k, "pending") \in [key : Keys, state : {"pending", "ready", "broken"}]
  BY DEF Promise
<1>4. /\ promises' \in Seq([key : Keys, state : {"pending", "ready", "broken"}])
      /\ Len(promises') = n
      /\ promises'[n] = Promise(k, "pending")
      /\ \A p \in Future : promises'[p] = promises[p]
  BY <1>1, <1>2, <1>3 DEF Future
<1>5. IsCache(impl_, Keys, 1..n) /\ Coherent(impl_, maxEntries) /\ n \in 1..n
  BY <1>2, MoreFutures DEF Base, PlaceInv, Future
<1> HIDE DEF n
<1>6. /\ IsCache(impl_', Keys, 1..n)
      /\ Coherent(impl_', maxEntries)
      /\ Cached(impl_') \subseteq Cached(impl_) \cup {Pair(k, n)}
      /\ Cardinality(impl_.map \cup {k}) <= maxEntries
           => Cached(impl_') = Cached(impl_) \cup {Pair(k, n)}
  <2> DEFINE d == GetOrPut(impl_, maxEntries, k, n)
             full == Cardinality(impl_.map \cup {k}) > maxEntries
             x == Pair(k, n)
  <2>1. /\ IsCache(d, Keys, 1..n)
        /\ Coherent(d, maxEntries)
        /\ Cardinality(impl_.map \cup {k}) <= maxEntries => Cached(d) = Cached(impl_) \cup {x}
        /\ full => /\ maxEntries = 0 => Cached(d) = {}
                   /\ maxEntries # 0 => Cached(d) = (Cached(impl_) \ {Last(impl_)}) \cup {x}
    <3> DEFINE V == 1..n
    <3>1. IsCache(impl_, Keys, V) /\ Coherent(impl_, maxEntries) /\ n \in V
      BY <1>5
    <3> HIDE DEF V
    <3>2. LET e == GetOrPut(impl_, maxEntries, k, n)
          IN  /\ IsCache(e, Keys, V)
              /\ Coherent(e, maxEntries)
              /\ Cardinality(impl_.map \cup {k}) <= maxEntries
                   => Cached(e) = Cached(impl_) \cup {Pair(k, n)}
              /\ Cardinality(impl_.map \cup {k}) > maxEntries
                   => /\ maxEntries = 0 => Cached(e) = {}
                      /\ maxEntries # 0 => Cached(e) = (Cached(impl_) \ {Last(impl_)})
                                                         \cup {Pair(k, n)}
      BY <1>2, <3>1, GetOrPutKeeps
    <3>3. QED
      BY <3>2, Zenon DEF V
  <2>2. full \/ Cardinality(impl_.map \cup {k}) <= maxEntries
    <3>1. IsFiniteSet(impl_.map)
      <4>1. /\ impl_.list \in Seq(Pairs(Keys, 1..n))
            /\ Distinct(impl_.list)
            /\ impl_.map = {y.key : y \in PairsOf(impl_.list)}
        BY <1>5, CoherentParts DEF IsCache, Cached
      <4>2. QED
        BY <4>1, LengthIsCardinality
    <3>2. Cardinality(impl_.map \cup {k}) \in Nat
      BY <3>1, FS_AddElement, FS_CardinalityType
    <3>3. QED
      BY <1>2, <3>2
  <2> HIDE DEF d, full, x
  <2>3. Cached(d) \subseteq Cached(impl_) \cup {x}
    BY <2>1, <2>2
  <2>4. impl_' = d
    BY <1>1 DEF d
  <2>5. QED
    BY <2>1, <2>3, <2>4 DEF x
<1>7. QED
  BY <1>1, <1>4, <1>6 DEF n

LEMMA SetStateEffect ==
    ASSUME Base, NEW p \in Future, NEW st \in {"pending", "ready", "broken"},
           SetState(p, st)
    PROVE  /\ promises' \in Seq([key : Keys, state : {"pending", "ready", "broken"}])
           /\ Len(promises') = Len(promises)
           /\ promises'[p].state = st
           /\ promises'[p].key = promises[p].key
           /\ \A q \in Future : q # p => promises'[q] = promises[q]
<1>1. promises \in Seq([key : Keys, state : {"pending", "ready", "broken"}])
  BY CacheTypes
<1>2. promises' = [promises EXCEPT ![p].state = st]
  BY DEF SetState
<1>3. p \in 1..Len(promises)
  BY DEF Future
<1>4. promises[p] \in [key : Keys, state : {"pending", "ready", "broken"}]
  BY <1>1, <1>3, ElementOf
<1> DEFINE new == [promises[p] EXCEPT !.state = st]
<1>5. /\ new \in [key : Keys, state : {"pending", "ready", "broken"}]
      /\ new.state = st
      /\ new.key = promises[p].key
  BY <1>4
<1>6. promises' = [promises EXCEPT ![p] = new]
  BY <1>2
<1> HIDE DEF new
<1>7. QED
  BY <1>1, <1>3, <1>5, <1>6 DEF Future

LEMMA DropEffect ==
    ASSUME Base, NEW t \in Threads, Drop(t)
    PROVE  /\ IsCache(impl_', Keys, Future)
           /\ Coherent(impl_', maxEntries)
           /\ Cached(impl_') = {x \in Cached(impl_) : x.key # key[t]}
  BY CacheTypes, DropKeeps DEF Drop, Base, PlaceInv

LEMMA BaseInit == Init => Base
<1> SUFFICES ASSUME Init PROVE Base
  OBVIOUS
<1>1. promises = <<>> /\ impl_ = EmptyCache /\ maxEntries \in Nat
  BY SizesAssumption DEF Init
<1>2. <<>> \in Seq(Pairs(Keys, Future)) /\ Len(<<>>) = 0
  OBVIOUS
<1>3. IsCache(impl_, Keys, Future)
  BY <1>1, <1>2 DEF IsCache, EmptyCache
<1>4. Coherent(impl_, maxEntries)
  BY <1>1, <1>2 DEF Coherent, EmptyCache
<1>5. TypeOK
  <2>1. impl_.map = {} /\ impl_.list = <<>>
    BY <1>1 DEF EmptyCache
  <2>2. /\ pc \in [Threads -> {"idle", "compute", "drop", "unwind", "get"}]
        /\ key \in [Threads -> Keys \cup {NoKey}]
        /\ fut \in [Threads -> 0..Len(promises)]
        /\ calls \in 0..MaxCalls
    BY <1>1, <1>2, MaxCallsAssumption DEF Init, NoFuture
  <2>3. QED
    BY <1>1, <2>1, <2>2 DEF Init, TypeOK
<1>6. QED
  BY <1>3, <1>4, <1>5 DEF Init, Base, PlaceInv

LEMMA BaseStep == Base /\ [Next]_vars => Base'
<1> SUFFICES ASSUME Base, [Next]_vars PROVE Base'
  OBVIOUS
<1> USE MaxCallsAssumption DEF Goto, Leave
<1>0. /\ maxEntries \in Sizes
      /\ IsCache(impl_, Keys, Future)
      /\ Coherent(impl_, maxEntries)
      /\ promises \in Seq([key : Keys, state : {"pending", "ready", "broken"}])
      /\ Len(promises) \in Nat
      /\ pc \in [Threads -> {"idle", "compute", "drop", "unwind", "get"}]
      /\ key \in [Threads -> Keys \cup {NoKey}]
      /\ fut \in [Threads -> 0..Len(promises)]
      /\ calls \in 0..MaxCalls
      /\ \A t \in Threads : pc[t] # "idle" => key[t] \in Keys /\ fut[t] \in Future
  BY CacheTypes DEF Base, TypeOK, PlaceInv
\* It is enough that the parts keep their types.
<1>1. ASSUME /\ maxEntries' \in Sizes
             /\ IsCache(impl_', Keys, Future')
             /\ Coherent(impl_', maxEntries')
             /\ promises' \in Seq([key : Keys, state : {"pending", "ready", "broken"}])
             /\ pc' \in [Threads -> {"idle", "compute", "drop", "unwind", "get"}]
             /\ key' \in [Threads -> Keys \cup {NoKey}]
             /\ fut' \in [Threads -> 0..Len(promises')]
             /\ calls' \in 0..MaxCalls
             /\ \A t \in Threads : pc'[t] # "idle" => key'[t] \in Keys /\ fut'[t] \in Future'
      PROVE  Base'
  <2>1. impl_'.map \in SUBSET Keys
    BY <1>1 DEF IsCache
  <2>2. impl_'.list \in Seq([key : Keys, val : 1..Len(promises')])
    BY <1>1 DEF IsCache, Pairs, Future
  <2>3. TypeOK'
    BY <1>1, <2>1, <2>2 DEF TypeOK
  <2>4. PlaceInv'
    BY <1>1 DEF PlaceInv
  <2>5. QED
    BY <2>3, <2>4 DEF Base
<1>2. ASSUME NEW t \in Threads, NEW k \in Keys, Lookup(t, k) PROVE Base'
  <2>1. /\ calls' \in 0..MaxCalls
        /\ key' = [key EXCEPT ![t] = k]
        /\ maxEntries' = maxEntries
    BY <1>0, <1>2 DEF Lookup
  <2>2. CASE k \in impl_.map
    BY <1>0, <1>1, <1>2, <2>1, <2>2, LookupHits DEF Future
  <2>3. CASE k \notin impl_.map
    <3> DEFINE n == Len(promises) + 1
    <3>1. /\ promises' \in Seq([key : Keys, state : {"pending", "ready", "broken"}])
          /\ Len(promises') = n
          /\ IsCache(impl_', Keys, 1..n)
          /\ Coherent(impl_', maxEntries)
          /\ pc' = [pc EXCEPT ![t] = "compute"]
          /\ fut' = [fut EXCEPT ![t] = n]
      BY <1>2, <2>3, LookupMisses
    <3>2. IsCache(impl_', Keys, Future')
      BY <3>1 DEF Future
    <3>3. \A u \in Threads : pc'[u] # "idle" => key'[u] \in Keys /\ fut'[u] \in Future'
      BY <1>0, <2>1, <3>1 DEF Future
    <3>4. fut' \in [Threads -> 0..Len(promises')]
      BY <1>0, <3>1
    <3>5. QED
      BY <1>0, <1>1, <2>1, <3>1, <3>2, <3>3, <3>4
  <2>4. QED
    BY <2>2, <2>3
<1>3. ASSUME NEW t \in Threads, Compute(t) PROVE Base'
  <2>1. fut[t] \in Future
    BY <1>0, <1>3 DEF Compute
  <2>2. /\ promises' \in Seq([key : Keys, state : {"pending", "ready", "broken"}])
        /\ Len(promises') = Len(promises)
    BY <1>3, <2>1, SetStateEffect DEF Compute
  <2>3. QED
    BY <1>0, <1>1, <1>3, <2>1, <2>2 DEF Compute, Future
<1>4. ASSUME NEW t \in Threads, ComputeThrows(t) PROVE Base'
  BY <1>0, <1>1, <1>4 DEF ComputeThrows, Future
<1>5. ASSUME NEW t \in Threads, Drop(t) PROVE Base'
  BY <1>0, <1>1, <1>5, DropEffect DEF Drop, Future
<1>6. ASSUME NEW t \in Threads, Unwind(t) PROVE Base'
  <2>1. fut[t] \in Future
    BY <1>0, <1>6 DEF Unwind
  <2>2. /\ promises' \in Seq([key : Keys, state : {"pending", "ready", "broken"}])
        /\ Len(promises') = Len(promises)
    BY <1>6, <2>1, SetStateEffect DEF Unwind
  <2>3. QED
    BY <1>0, <1>1, <1>6, <2>1, <2>2 DEF Unwind, Future, NoFuture
<1>7. ASSUME NEW t \in Threads, Get(t) PROVE Base'
  BY <1>0, <1>1, <1>7 DEF Get, Future, NoFuture
<1>8. CASE UNCHANGED vars
  BY <1>0, <1>1, <1>8 DEF vars, Future
<1>9. QED
  BY <1>2, <1>3, <1>4, <1>5, <1>6, <1>7, <1>8 DEF Next, InCall, Finished

-----------------------------------------------------------------------------
(* Which promise is whose. *)

OwnInv ==
    /\ \A x \in Cached(impl_) : promises[x.val].key = x.key
    /\ \A t \in Threads : pc[t] # "idle" => promises[fut[t]].key = key[t]

\* No two threads would settle the same promise.
SoleComputer ==
    \A s, t \in Threads : \A p \in Future : Settles(s, p) /\ Settles(t, p) => s = t

SettleInv == PendingHasComputer /\ SoleComputer

BrokenInv ==
    /\ \A x \in Cached(impl_) : promises[x.val].state # "broken"
    /\ \A t \in Threads : pc[t] = "unwind" => \A x \in Cached(impl_) : x.val # fut[t]

LEMMA OwnInit == Init => OwnInv /\ SettleInv /\ BrokenInv
<1> SUFFICES ASSUME Init PROVE OwnInv /\ SettleInv /\ BrokenInv
  OBVIOUS
<1>1. Len(<<>>) = 0 /\ 1..0 = {}
  OBVIOUS
<1>2. Cached(impl_) = {} /\ Future = {}
  BY <1>1 DEF Init, EmptyCache, Cached, PairsOf, Future
<1>3. \A t \in Threads : pc[t] = "idle"
  BY DEF Init
<1>4. PendingHasComputer
  BY <1>2 DEF PendingHasComputer, Future
<1>5. QED
  BY <1>2, <1>3, <1>4 DEF OwnInv, SettleInv, SoleComputer, BrokenInv

LEMMA OwnStep == Base /\ OwnInv /\ [Next]_vars => OwnInv'
<1> SUFFICES ASSUME Base, OwnInv, [Next]_vars PROVE OwnInv'
  OBVIOUS
<1> USE DEF Goto, Leave
<1>0. /\ pc \in [Threads -> {"idle", "compute", "drop", "unwind", "get"}]
      /\ key \in [Threads -> Keys \cup {NoKey}]
      /\ fut \in [Threads -> 0..Len(promises)]
      /\ Len(promises) \in Nat
      /\ \A t \in Threads : pc[t] # "idle" => key[t] \in Keys /\ fut[t] \in Future
      /\ \A x \in Cached(impl_) : x.key \in Keys /\ x.val \in Future
  BY CacheTypes DEF Base, TypeOK, PlaceInv
<1>1. ASSUME NEW t \in Threads, NEW k \in Keys, Lookup(t, k) PROVE OwnInv'
  <2>1. key' = [key EXCEPT ![t] = k]
    BY <1>1 DEF Lookup
  <2>2. CASE k \in impl_.map
    <3>1. /\ promises' = promises
          /\ Cached(impl_') = Cached(impl_)
          /\ pc' = [pc EXCEPT ![t] = "get"]
          /\ fut' = [fut EXCEPT ![t] = ValueOf(impl_, k)]
          /\ Pair(k, ValueOf(impl_, k)) \in Cached(impl_)
      BY <1>1, <2>2, LookupHits
    <3>2. promises[ValueOf(impl_, k)].key = k
      BY <3>1 DEF OwnInv, Pair
    <3>3. QED
      BY <1>0, <2>1, <3>1, <3>2 DEF OwnInv
  <2>3. CASE k \notin impl_.map
    <3> DEFINE n == Len(promises) + 1
    <3>1. /\ promises'[n] = Promise(k, "pending")
          /\ \A p \in Future : promises'[p] = promises[p]
          /\ Cached(impl_') \subseteq Cached(impl_) \cup {Pair(k, n)}
          /\ pc' = [pc EXCEPT ![t] = "compute"]
          /\ fut' = [fut EXCEPT ![t] = n]
      BY <1>1, <2>3, LookupMisses
    <3>2. promises'[n].key = k /\ Pair(k, n).val = n /\ Pair(k, n).key = k
      BY <3>1 DEF Promise, Pair
    <3> HIDE DEF n
    <3>3. \A x \in Cached(impl_') : promises'[x.val].key = x.key
      BY <1>0, <3>1, <3>2 DEF OwnInv
    <3>4. \A u \in Threads : pc'[u] # "idle" => promises'[fut'[u]].key = key'[u]
      BY <1>0, <2>1, <3>1, <3>2 DEF OwnInv
    <3>5. QED
      BY <3>3, <3>4 DEF OwnInv
  <2>4. QED
    BY <2>2, <2>3
\* Settling a promise leaves its key alone.
<1>2. ASSUME NEW t \in Threads, pc[t] # "idle",
             NEW st \in {"pending", "ready", "broken"}, SetState(fut[t], st),
             impl_' = impl_,
             \A u \in Threads : pc'[u] # "idle" =>
                 pc[u] # "idle" /\ key'[u] = key[u] /\ fut'[u] = fut[u]
      PROVE  OwnInv'
  <2>1. fut[t] \in Future
    BY <1>0, <1>2
  <2>2. \A p \in Future : promises'[p].key = promises[p].key
    BY <1>2, <2>1, SetStateEffect
  <2>3. QED
    BY <1>0, <1>2, <2>2 DEF OwnInv
<1>3. ASSUME NEW t \in Threads, Compute(t) PROVE OwnInv'
  BY <1>0, <1>2, <1>3 DEF Compute
<1>4. ASSUME NEW t \in Threads, ComputeThrows(t) PROVE OwnInv'
  BY <1>0, <1>4 DEF ComputeThrows, OwnInv
<1>5. ASSUME NEW t \in Threads, Drop(t) PROVE OwnInv'
  BY <1>0, <1>5, DropEffect DEF Drop, OwnInv
<1>6. ASSUME NEW t \in Threads, Unwind(t) PROVE OwnInv'
  BY <1>0, <1>2, <1>6 DEF Unwind
<1>7. ASSUME NEW t \in Threads, Get(t) PROVE OwnInv'
  BY <1>0, <1>7 DEF Get, OwnInv
<1>8. CASE UNCHANGED vars
  BY <1>8 DEF vars, OwnInv
<1>9. QED
  BY <1>1, <1>3, <1>4, <1>5, <1>6, <1>7, <1>8 DEF Next, InCall, Finished

LEMMA SettleStep == Base /\ SettleInv /\ [Next]_vars => SettleInv'
<1> SUFFICES ASSUME Base, SettleInv, [Next]_vars PROVE SettleInv'
  OBVIOUS
<1> USE DEF Goto, Leave, Settles
<1>0. /\ pc \in [Threads -> {"idle", "compute", "drop", "unwind", "get"}]
      /\ fut \in [Threads -> 0..Len(promises)]
      /\ Len(promises) \in Nat
      /\ \A t \in Threads : pc[t] # "idle" => fut[t] \in Future
      /\ \A p \in Future :
           promises[p].state = "pending" <=> \E t \in Threads : Settles(t, p)
      /\ \A s, t \in Threads : \A p \in Future : Settles(s, p) /\ Settles(t, p) => s = t
  BY CacheTypes
     DEF Base, TypeOK, PlaceInv, SettleInv, SoleComputer, PendingHasComputer, Future
<1>1. ASSUME \A p \in Future' : promises'[p].state = "pending"
                                  <=> \E t \in Threads : Settles(t, p)',
             \A s, t \in Threads : \A p \in Future' : Settles(s, p)' /\ Settles(t, p)' => s = t
      PROVE  SettleInv'
  BY <1>1 DEF SettleInv, SoleComputer, PendingHasComputer, Future
\* A step that neither makes nor settles a promise.
<1>2. ASSUME promises' = promises,
             \A t \in Threads : \A p \in Future : Settles(t, p)' <=> Settles(t, p)
      PROVE  SettleInv'
  BY <1>0, <1>1, <1>2 DEF Future
<1>3. ASSUME NEW t \in Threads, NEW k \in Keys, Lookup(t, k) PROVE SettleInv'
  <2>0. pc[t] = "idle"
    BY <1>3 DEF Lookup
  <2>1. CASE k \in impl_.map
    <3>1. /\ promises' = promises
          /\ pc' = [pc EXCEPT ![t] = "get"]
          /\ fut' = [fut EXCEPT ![t] = ValueOf(impl_, k)]
      BY <1>3, <2>1, LookupHits
    <3>2. QED
      BY <1>0, <1>2, <2>0, <3>1
  <2>2. CASE k \notin impl_.map
    <3>0. PICK n \in Nat : n = Len(promises) + 1
      BY <1>0
    <3>1. /\ promises'[n] = Promise(k, "pending")
          /\ Len(promises') = n
          /\ \A p \in Future : promises'[p] = promises[p]
          /\ pc' = [pc EXCEPT ![t] = "compute"]
          /\ fut' = [fut EXCEPT ![t] = n]
      BY <1>3, <2>2, <3>0, LookupMisses
    <3>2. /\ Future' = Future \cup {n}
          /\ n \notin Future
          /\ promises'[n].state = "pending"
      BY <1>0, <3>0, <3>1 DEF Future, Promise
    <3>3. /\ Settles(t, n)'
          /\ \A u \in Threads : u # t => ~Settles(u, n)'
      BY <1>0, <3>0, <3>1, <3>2
    <3>4. \A u \in Threads : \A p \in Future : Settles(u, p)' <=> Settles(u, p)
      BY <1>0, <2>0, <3>1, <3>2
    <3> HIDE DEF Settles
    <3>5. QED
      BY <1>0, <1>1, <3>1, <3>2, <3>3, <3>4
  <2>3. QED
    BY <2>1, <2>2
\* The only thread that would settle its promise does so.
<1>4. ASSUME NEW t \in Threads, NEW f \in Future, Settles(t, f),
             NEW st \in {"ready", "broken"}, SetState(f, st),
             \A p \in Future : Settles(t, p)' => Settles(t, p) /\ p # f,
             \A p \in Future : Settles(t, p) /\ p # f => Settles(t, p)',
             \A u \in Threads : u # t => pc'[u] = pc[u] /\ fut'[u] = fut[u]
      PROVE  SettleInv'
  <2>1. /\ Len(promises') = Len(promises)
        /\ promises'[f].state = st
        /\ \A q \in Future : q # f => promises'[q] = promises[q]
    BY <1>4, SetStateEffect
  <2>2. Future' = Future
    BY <2>1 DEF Future
  <2>3. \A u \in Threads : \A p \in Future :
            Settles(u, p)' <=> Settles(u, p) /\ (u = t => p # f)
    BY <1>4
  <2>4. \A u \in Threads : ~Settles(u, f)'
    BY <1>0, <1>4, <2>3, Zenon
  <2> HIDE DEF Settles
  <2>5. \A p \in Future : promises'[p].state = "pending"
                            <=> \E u \in Threads : Settles(u, p)'
    BY <1>0, <1>4, <2>1, <2>3, <2>4
  <2>6. QED
    BY <1>0, <1>1, <2>2, <2>3, <2>5
<1>5. ASSUME NEW t \in Threads, Compute(t) PROVE SettleInv'
  BY <1>0, <1>4, <1>5 DEF Compute
<1>6. ASSUME NEW t \in Threads, ComputeThrows(t) PROVE SettleInv'
  BY <1>0, <1>2, <1>6 DEF ComputeThrows
<1>7. ASSUME NEW t \in Threads, Drop(t) PROVE SettleInv'
  BY <1>0, <1>2, <1>7 DEF Drop
<1>8. ASSUME NEW t \in Threads, Unwind(t) PROVE SettleInv'
  BY <1>0, <1>4, <1>8 DEF Unwind
<1>9. ASSUME NEW t \in Threads, Get(t) PROVE SettleInv'
  BY <1>0, <1>2, <1>9 DEF Get
<1>10. CASE UNCHANGED vars
  BY <1>2, <1>10 DEF vars
<1>11. QED
  BY <1>3, <1>5, <1>6, <1>7, <1>8, <1>9, <1>10 DEF Next, InCall, Finished

LEMMA BrokenStep == Base /\ OwnInv /\ SettleInv /\ BrokenInv /\ [Next]_vars => BrokenInv'
<1> SUFFICES ASSUME Base, OwnInv, SettleInv, BrokenInv, [Next]_vars PROVE BrokenInv'
  OBVIOUS
<1> USE DEF Goto, Leave
<1>0. /\ pc \in [Threads -> {"idle", "compute", "drop", "unwind", "get"}]
      /\ key \in [Threads -> Keys \cup {NoKey}]
      /\ fut \in [Threads -> 0..Len(promises)]
      /\ Len(promises) \in Nat
      /\ \A t \in Threads : pc[t] # "idle" => fut[t] \in Future
      /\ \A x \in Cached(impl_) : x.val \in Future
  BY CacheTypes DEF Base, TypeOK, PlaceInv
<1>1. ASSUME NEW t \in Threads, NEW k \in Keys, Lookup(t, k) PROVE BrokenInv'
  <2>1. CASE k \in impl_.map
    BY <1>0, <1>1, <2>1, LookupHits DEF BrokenInv
  <2>2. CASE k \notin impl_.map
    <3>0. PICK n \in Nat : n = Len(promises) + 1
      BY <1>0
    <3>1. /\ promises'[n] = Promise(k, "pending")
          /\ \A p \in Future : promises'[p] = promises[p]
          /\ Cached(impl_') \subseteq Cached(impl_) \cup {Pair(k, n)}
          /\ pc' = [pc EXCEPT ![t] = "compute"]
          /\ fut' = [fut EXCEPT ![t] = n]
      BY <1>1, <2>2, <3>0, LookupMisses
    <3>2. promises'[n].state = "pending" /\ Pair(k, n).val = n /\ n \notin Future
      BY <1>0, <3>0, <3>1 DEF Promise, Pair, Future
    <3>3. \A x \in Cached(impl_') : promises'[x.val].state # "broken"
      BY <1>0, <3>1, <3>2 DEF BrokenInv
    <3>4. \A u \in Threads : pc'[u] = "unwind" =>
              /\ pc[u] = "unwind" /\ fut'[u] = fut[u]
              /\ fut[u] # n
      BY <1>0, <3>1, <3>2
    <3>5. QED
      BY <3>1, <3>2, <3>3, <3>4 DEF BrokenInv
  <2>3. QED
    BY <2>1, <2>2
<1>2. ASSUME NEW t \in Threads, Compute(t) PROVE BrokenInv'
  <2>1. fut[t] \in Future
    BY <1>0, <1>2 DEF Compute
  <2>2. /\ promises'[fut[t]].state = "ready"
        /\ \A q \in Future : q # fut[t] => promises'[q] = promises[q]
    BY <1>2, <2>1, SetStateEffect DEF Compute
  <2>3. QED
    BY <1>0, <1>2, <2>2 DEF Compute, BrokenInv
<1>3. ASSUME NEW t \in Threads, ComputeThrows(t) PROVE BrokenInv'
  BY <1>0, <1>3 DEF ComputeThrows, BrokenInv
\* What the cache holds for the key of the thread is out of it now, and if this
\* was not the thread's own placeholder, that one was out of it before.
<1>4. ASSUME NEW t \in Threads, Drop(t) PROVE BrokenInv'
  <2>1. Cached(impl_') = {x \in Cached(impl_) : x.key # key[t]}
    BY <1>4, DropEffect
  <2>2. \A x \in Cached(impl_) : x.val = fut[t] => x.key = key[t]
    BY <1>4 DEF Drop, OwnInv
  <2>3. QED
    BY <1>0, <1>4, <2>1, <2>2 DEF Drop, BrokenInv
<1>5. ASSUME NEW t \in Threads, Unwind(t) PROVE BrokenInv'
  <2>1. fut[t] \in Future
    BY <1>0, <1>5 DEF Unwind
  <2>2. \A q \in Future : q # fut[t] => promises'[q] = promises[q]
    BY <1>5, <2>1, SetStateEffect DEF Unwind
  <2>3. \A x \in Cached(impl_) : x.val # fut[t]
    BY <1>5 DEF Unwind, BrokenInv
  <2>4. QED
    BY <1>0, <1>5, <2>2, <2>3 DEF Unwind, BrokenInv
<1>6. ASSUME NEW t \in Threads, Get(t) PROVE BrokenInv'
  BY <1>0, <1>6 DEF Get, BrokenInv
<1>7. CASE UNCHANGED vars
  BY <1>7 DEF vars, BrokenInv
<1>8. QED
  BY <1>1, <1>2, <1>3, <1>4, <1>5, <1>6, <1>7 DEF Next, InCall, Finished

-----------------------------------------------------------------------------
(* How often f() is called. *)

Roomy == maxEntries >= Cardinality(Keys)

\* A cache that has to evict nothing holds the placeholder of every promise.
OnceInv ==
    Roomy /\ NothingThrew => \A p \in Future : \E x \in Cached(impl_) : x.val = p

\* A promise is settled once: std::promise::set_value() never throws because the
\* promise is satisfied already, and what a future holds does not change.
SettledOnce ==
    [][\A p \in Future : promises[p].state # "pending" => promises'[p] = promises[p]]_vars

LEMMA SettledOnceStep ==
    Base /\ SettleInv /\ [Next]_vars =>
        /\ \A p \in Future : promises[p].state # "pending" => promises'[p] = promises[p]
        /\ Future \subseteq Future'
<1> SUFFICES ASSUME Base, SettleInv, [Next]_vars
             PROVE  /\ \A p \in Future :
                         promises[p].state # "pending" => promises'[p] = promises[p]
                    /\ Future \subseteq Future'
  OBVIOUS
<1>0. Len(promises) \in Nat
  BY CacheTypes
<1>1. ASSUME promises' = promises
      PROVE  /\ \A p \in Future : promises'[p] = promises[p]
             /\ Future \subseteq Future'
  BY <1>1 DEF Future
<1>2. ASSUME NEW t \in Threads, NEW k \in Keys, Lookup(t, k)
      PROVE  /\ \A p \in Future : promises'[p] = promises[p]
             /\ Future \subseteq Future'
  <2>1. CASE k \in impl_.map
    BY <1>1, <1>2, <2>1, LookupHits
  <2>2. CASE k \notin impl_.map
    <3>1. Len(promises') = Len(promises) + 1 /\ \A p \in Future : promises'[p] = promises[p]
      BY <1>2, <2>2, LookupMisses
    <3>2. QED
      BY <1>0, <3>1 DEF Future
  <2>3. QED
    BY <2>1, <2>2
<1>3. ASSUME NEW t \in Threads, pc[t] \in {"compute", "unwind"},
             NEW st \in {"ready", "broken"}, SetState(fut[t], st)
      PROVE  /\ \A p \in Future : promises[p].state # "pending" => promises'[p] = promises[p]
             /\ Future \subseteq Future'
  <2>1. fut[t] \in Future
    BY <1>3 DEF Base, PlaceInv
  <2>2. promises[fut[t]].state = "pending"
    BY <1>3, <2>1 DEF SettleInv, PendingHasComputer, Settles, Future
  <2>3. /\ Len(promises') = Len(promises)
        /\ \A q \in Future : q # fut[t] => promises'[q] = promises[q]
    BY <1>3, <2>1, SetStateEffect
  <2>4. QED
    BY <2>2, <2>3 DEF Future
<1>4. QED
  BY <1>1, <1>2, <1>3
     DEF Next, InCall, Compute, ComputeThrows, Drop, Unwind, Get, Finished, vars

\* Once f() has thrown, this is never forgotten.
LEMMA ThrewStays == Base /\ SettleInv /\ [Next]_vars /\ NothingThrew' => NothingThrew
<1> SUFFICES ASSUME Base, SettleInv, [Next]_vars, NothingThrew' PROVE NothingThrew
  OBVIOUS
<1> USE DEF Goto, Leave
<1>0. /\ pc \in [Threads -> {"idle", "compute", "drop", "unwind", "get"}]
      /\ fut \in [Threads -> 0..Len(promises)]
      /\ \A t \in Threads : pc[t] # "idle" => fut[t] \in Future
  BY DEF Base, TypeOK, PlaceInv
<1>1. \A p \in Future : promises[p].state # "broken"
  <2>1. \A p \in Future' : promises'[p].state # "broken"
    BY DEF NothingThrew, Future
  <2>2. QED
    BY <2>1, SettledOnceStep
<1>2. ASSUME NEW t \in Threads, Unwind(t) PROVE FALSE
  <2>1. fut[t] \in Future
    BY <1>0, <1>2 DEF Unwind
  <2>2. promises'[fut[t]].state = "broken" /\ fut[t] \in Future'
    BY <1>2, <2>1, SetStateEffect, SettledOnceStep DEF Unwind
  <2>3. QED
    BY <2>2 DEF NothingThrew, Future
<1>3. ASSUME NEW t \in Threads, Drop(t) PROVE FALSE
  BY <1>0, <1>3 DEF Drop, NothingThrew
<1>4. \A t \in Threads : pc'[t] \notin {"drop", "unwind"}
  BY DEF NothingThrew
<1>5. \A t \in Threads : pc[t] \notin {"drop", "unwind"}
  BY <1>0, <1>2, <1>3, <1>4
     DEF Next, InCall, Lookup, Compute, ComputeThrows, Get, Finished, vars
<1>6. QED
  BY <1>1, <1>5 DEF NothingThrew, Future

LEMMA OnceStep ==
    ASSUME IsFiniteSet(Keys)
    PROVE  Base /\ OwnInv /\ SettleInv /\ OnceInv /\ [Next]_vars => OnceInv'
<1> SUFFICES ASSUME Base, OwnInv, SettleInv, OnceInv, [Next]_vars, Roomy', NothingThrew'
             PROVE  \A p \in Future' : \E x \in Cached(impl_') : x.val = p
  BY DEF OnceInv
<1>0. /\ NothingThrew
      /\ maxEntries \in Nat
      /\ Len(promises) \in Nat
  BY ThrewStays, CacheTypes
<1>1. maxEntries' = maxEntries /\ Roomy
  BY DEF Next, InCall, Lookup, Compute, ComputeThrows, Drop, Unwind, Get, Finished,
         vars, Roomy
<1>2. \A p \in Future : \E x \in Cached(impl_) : x.val = p
  BY <1>0, <1>1 DEF OnceInv
<1>3. ASSUME NEW t \in Threads, NEW k \in Keys, Lookup(t, k)
      PROVE  \A p \in Future' : \E x \in Cached(impl_') : x.val = p
  <2>1. CASE k \in impl_.map
    BY <1>2, <1>3, <2>1, LookupHits DEF Future
  <2>2. CASE k \notin impl_.map
    <3>0. PICK n \in Nat : n = Len(promises) + 1
      BY <1>0
    <3>1. impl_.map \cup {k} \subseteq Keys
      BY DEF Base, TypeOK
    <3>2. Cardinality(impl_.map \cup {k}) <= maxEntries
      <4>1. /\ Cardinality(impl_.map \cup {k}) <= Cardinality(Keys)
            /\ Cardinality(impl_.map \cup {k}) \in Nat
            /\ Cardinality(Keys) \in Nat
        BY <3>1, FS_Subset, FS_CardinalityType
      <4>2. QED
        BY <1>0, <1>1, <4>1 DEF Roomy
    <3>3. Len(promises') = n /\ Cached(impl_') = Cached(impl_) \cup {Pair(k, n)}
      BY <1>3, <2>2, <3>0, <3>2, LookupMisses
    <3>4. Pair(k, n).val = n /\ Future' = Future \cup {n}
      BY <1>0, <3>0, <3>3 DEF Pair, Future
    <3>5. QED
      BY <1>2, <3>3, <3>4
  <2>3. QED
    BY <2>1, <2>2
<1>4. ASSUME NEW t \in Threads, Drop(t) PROVE FALSE
  BY <1>0, <1>4 DEF Drop, NothingThrew
<1>5. ASSUME NEW t \in Threads, Unwind(t) PROVE FALSE
  BY <1>0, <1>5 DEF Unwind, NothingThrew
<1>6. ASSUME NEW t \in Threads, Compute(t)
      PROVE  \A p \in Future' : \E x \in Cached(impl_') : x.val = p
  <2>1. fut[t] \in Future
    BY <1>6 DEF Compute, Base, PlaceInv
  <2>2. Len(promises') = Len(promises) /\ impl_' = impl_
    BY <1>6, <2>1, SetStateEffect DEF Compute
  <2>3. QED
    BY <1>2, <2>2 DEF Future
<1>7. CASE UNCHANGED <<promises, impl_>>
  BY <1>2, <1>7 DEF Future
<1>8. QED
  BY <1>3, <1>4, <1>5, <1>6, <1>7 DEF Next, InCall, ComputeThrows, Get, Finished, vars

-----------------------------------------------------------------------------
(* The theorems. *)

CacheInv == Base /\ OwnInv /\ SettleInv /\ BrokenInv

LEMMA CacheInvariant == Spec => []CacheInv
<1>1. Init => CacheInv
  BY BaseInit, OwnInit DEF CacheInv
<1>2. CacheInv /\ [Next]_vars => CacheInv'
  BY BaseStep, OwnStep, SettleStep, BrokenStep DEF CacheInv
<1>3. QED
  BY <1>1, <1>2, PTL DEF Spec

\* Type correctness: the list, the map, the futures and the promises have the
\* shape that the code's declarations give them; no future is without a promise.
THEOREM TypeCorrect == Spec => []TypeOK
<1>1. CacheInv => TypeOK
  BY DEF CacheInv, Base
<1>2. QED
  BY <1>1, CacheInvariant, PTL

\* The list and the map of the cache agree and respect the limit, whichever
\* threads look up, evict and drop.
THEOREM CacheStaysCoherent == Spec => []CacheCoherent
<1>1. CacheInv => CacheCoherent
  BY DEF CacheInv, Base, PlaceInv, CacheCoherent
<1>2. QED
  BY <1>1, CacheInvariant, PTL

\* No call of getOrPut() is given the value of another key.
THEOREM ValueOfOwnKey == Spec => []OwnPlaceholder
<1>1. ASSUME CacheInv PROVE OwnPlaceholder
  <2>1. \A n \in 1..Len(impl_.list) : impl_.list[n] \in Cached(impl_)
    BY InPairsOf DEF Cached
  <2>2. QED
    BY <1>1, <2>1 DEF CacheInv, OwnInv, OwnPlaceholder
<1>2. QED
  BY <1>1, CacheInvariant, PTL

\* Nobody waits for a promise that nobody is going to settle.
THEOREM NobodyWaitsInVain == Spec => []PendingHasComputer
<1>1. CacheInv => PendingHasComputer
  BY DEF CacheInv, SettleInv
<1>2. QED
  BY <1>1, CacheInvariant, PTL

\* No thread settles a promise that is settled.
THEOREM PromisesSettledOnce == Spec => SettledOnce
<1>1. CacheInv /\ [Next]_vars
        => \A p \in Future : promises[p].state # "pending" => promises'[p] = promises[p]
  BY SettledOnceStep DEF CacheInv
<1>2. QED
  BY <1>1, CacheInvariant, PTL DEF Spec, SettledOnce

\* A failure is not remembered: no lookup finds a broken promise.
THEOREM FailureNotCached == Spec => []NoBrokenPlaceholder
<1>1. ASSUME CacheInv PROVE NoBrokenPlaceholder
  <2>1. \A n \in 1..Len(impl_.list) : impl_.list[n] \in Cached(impl_)
    BY InPairsOf DEF Cached
  <2>2. QED
    BY <1>1, <2>1 DEF CacheInv, BrokenInv, NoBrokenPlaceholder
<1>2. QED
  BY <1>1, CacheInvariant, PTL

\* f() is called once for each key unless it throws or the limit makes the cache
\* forget: with as many places as there are keys it does not.
THEOREM CalledOnce ==
    ASSUME IsFiniteSet(Keys)
    PROVE  Spec => []ComputedOnce
<1>1. Init => OnceInv
  <2>1. Init => Future = {}
    BY DEF Init, Future
  <2>2. QED
    BY <2>1 DEF OnceInv
<1>2. CacheInv /\ OnceInv /\ [Next]_vars => OnceInv'
  BY OnceStep DEF CacheInv
<1>3. ASSUME CacheInv, OnceInv PROVE ComputedOnce
  <2>1. SUFFICES ASSUME Roomy, NothingThrew, NEW p \in Future, NEW q \in Future,
                        promises[p].key = promises[q].key
                 PROVE  p = q
    BY DEF ComputedOnce, Roomy, Future
  <2>2. PICK x \in Cached(impl_) : x.val = p
    BY <1>3, <2>1 DEF OnceInv
  <2>3. PICK y \in Cached(impl_) : y.val = q
    BY <1>3, <2>1 DEF OnceInv
  <2>4. x.key = y.key
    BY <1>3, <2>1, <2>2, <2>3 DEF CacheInv, OwnInv
  <2>5. x = y
    BY <1>3, <2>4, OnePairPerKey DEF CacheInv, Base, PlaceInv
  <2>6. QED
    BY <2>2, <2>3, <2>5
<1>4. QED
  BY <1>1, <1>2, <1>3, CacheInvariant, PTL DEF Spec

=============================================================================
