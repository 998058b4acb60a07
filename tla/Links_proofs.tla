---------------------------- MODULE Links_proofs ----------------------------
(***************************************************************************)
(* Lemmas about what the definitions of Links compute for input of any     *)
(* length: the scanner finds the links of a page and only these, the       *)
(* resolver takes a link to where it leads, and a link that zimrecreate    *)
(* adapts leads where it led.                                              *)
(***************************************************************************)
EXTENDS PatchedLinks, WellFoundedInduction, FiniteSetTheorems, TLAPS

-----------------------------------------------------------------------------
(* Numbers, and functions that are defined by recursion on them. *)

LEMMA LeastNumber ==
    ASSUME NEW S, S \subseteq Nat, S # {}
    PROVE  \E x \in S : \A y \in S : x <= y
<1> DEFINE R == {p \in Nat \X Nat : p[1] < p[2]}
<1>1. \E x \in S : \A y \in S : ~ (<<y, x>> \in R)
  <2>1. IsWellFoundedOn(R, Nat)
    BY NatLessThanWellFounded DEF OpToRel
  <2> QED  BY <2>1, WFMin, Zenon
<1>2. \A x, y \in Nat : y < x => <<y, x>> \in R
  OBVIOUS
<1> HIDE DEF R
<1>3. PICK x \in S : \A y \in S : ~ (y < x)
  BY <1>1, <1>2
<1> QED  BY <1>3

LEMMA MinOfNumbers ==
    ASSUME NEW S, S \subseteq Nat, S # {}
    PROVE  Min(S) \in S
<1>1. \E x \in S : \A y \in S : x =< y
  BY LeastNumber
<1> QED
  BY <1>1, Zenon DEF Min

LEMMA UpTo ==
    ASSUME NEW N \in Nat, NEW Q, 0 \in Q,
           \A n \in 1..N : n - 1 \in Q => n \in Q
    PROVE  \A n \in 0..N : n \in Q
<1> DEFINE Bad == {n \in 0..N : n \notin Q}
<1> SUFFICES ASSUME Bad # {} PROVE FALSE
  OBVIOUS
<1>0. Bad \subseteq Nat
  OBVIOUS
<1>1. PICK n \in Bad : \A k \in Bad : n <= k
  <2> HIDE DEF Bad
  <2> QED  BY <1>0, LeastNumber
<1>2. n # 0 /\ n \in 1..N
  BY <1>1
<1>3. n - 1 \in 0..N /\ n - 1 \notin Bad
  BY <1>1, <1>2
<1> QED
  BY <1>1, <1>2, <1>3

\* f starts with b and goes on with G.
Follows(f, N, X, b, G) ==
    /\ f \in [0..N -> X]
    /\ f[0] = b
    /\ \A n \in 1..N : f[n] = G[<<n, f[n - 1]>>]

IsStep(G, N, X) == G \in [(1..N) \X X -> X]

LEMMA RecursionExists ==
    ASSUME NEW N \in Nat, NEW X, NEW b \in X, NEW G, IsStep(G, N, X)
    PROVE  \E f : Follows(f, N, X, b, G)
<1>0. G \in [(1..N) \X X -> X]
  BY DEF IsStep
<1> DEFINE Is(f, m) == /\ f \in [0..m -> X]
                       /\ f[0] = b
                       /\ \A n \in 1..m : f[n] = G[<<n, f[n - 1]>>]
           Q == {m \in 0..N : \E f : Is(f, m)}
<1>1. 0 \in Q
  <2> DEFINE f == [n \in 0..0 |-> b]
  <2>1. Is(f, 0)
    OBVIOUS
  <2> HIDE DEF f
  <2>2. 0 \in 0..N /\ \E h : Is(h, 0)
    BY <2>1
  <2> QED  BY <2>2
<1>2. ASSUME NEW m \in 1..N, m - 1 \in Q
      PROVE  m \in Q
  <2>1. PICK f : Is(f, m - 1)
    BY <1>2
  <2> DEFINE g == [n \in 0..m |-> IF n < m THEN f[n] ELSE G[<<m, f[m - 1]>>]]
  <2>2. f[m - 1] \in X
    BY <2>1
  <2>3. G[<<m, f[m - 1]>>] \in X
    BY <1>0, <2>2
  <2>4. g \in [0..m -> X]
    BY <2>1, <2>3
  <2>5. g[0] = b
    BY <2>1
  <2>6. ASSUME NEW n \in 1..m PROVE g[n] = G[<<n, g[n - 1]>>]
    <3>1. g[n - 1] = f[n - 1]
      OBVIOUS
    <3>2. CASE n < m
      BY <2>1, <3>1, <3>2
    <3>3. CASE n = m
      <4>1. g[m] = G[<<m, f[m - 1]>>] /\ g[m - 1] = f[m - 1]
        OBVIOUS
      <4> QED  BY <3>3, <4>1
    <3> QED  BY <3>2, <3>3
  <2> HIDE DEF g
  <2>7. Is(g, m)
    BY <2>4, <2>5, <2>6
  <2> QED  BY <2>7
<1>3. N \in Q
  <2> HIDE DEF Q
  <2> QED  BY <1>1, <1>2, UpTo
<1> QED
  BY <1>3 DEF Follows

LEMMA SeqOfFunction ==
    ASSUME NEW S, NEW n \in Nat, NEW f \in [1..n -> S]
    PROVE  f \in Seq(S) /\ Len(f) = n
  OBVIOUS

-----------------------------------------------------------------------------
(* Lists. *)

LEMMA SeqElements ==
    ASSUME NEW T, NEW s \in Seq(T)
    PROVE  Len(s) \in Nat /\ \A n \in 1..Len(s) : s[n] \in T
  OBVIOUS

LEMMA AppendedSet ==
    ASSUME NEW T, NEW s \in Seq(T), NEW x \in T
    PROVE  Append(s, x) \in Seq(T) /\ ToSet(Append(s, x)) = ToSet(s) \cup {x}
<1> DEFINE r == Append(s, x)
<1>1. r \in Seq(T) /\ Len(r) = Len(s) + 1 /\ r[Len(s) + 1] = x
  OBVIOUS
<1>2. \A n \in 1..Len(s) : r[n] = s[n]
  OBVIOUS
<1> HIDE DEF r
<1>3. DOMAIN r = 1..(Len(s) + 1) /\ DOMAIN s = 1..Len(s) /\ Len(s) \in Nat
  BY <1>1
<1>4. ToSet(r) = ToSet(s) \cup {x}
  BY <1>1, <1>2, <1>3 DEF ToSet
<1> QED
  BY <1>1, <1>4 DEF r

\* No element is twice in s.
NoneTwice(s) == \A i, j \in DOMAIN s : s[i] = s[j] => i = j

LEMMA AppendedOnce ==
    ASSUME NEW T, NEW s \in Seq(T), NEW x \in T, NoneTwice(s), x \notin ToSet(s)
    PROVE  NoneTwice(Append(s, x))
<1> DEFINE r == Append(s, x)
<1>1. r \in Seq(T) /\ Len(r) = Len(s) + 1 /\ r[Len(s) + 1] = x
  OBVIOUS
<1>2. \A n \in 1..Len(s) : r[n] = s[n]
  OBVIOUS
<1> HIDE DEF r
<1>3. DOMAIN r = 1..(Len(s) + 1) /\ DOMAIN s = 1..Len(s) /\ Len(s) \in Nat
  BY <1>1
<1>4. \A n \in 1..Len(s) : s[n] # x
  BY <1>3 DEF ToSet
<1>5. ASSUME NEW i \in DOMAIN r, NEW j \in DOMAIN r, r[i] = r[j]
      PROVE  i = j
  <2>1. CASE i \in 1..Len(s) /\ j \in 1..Len(s)
    BY <1>2, <1>3, <1>5, <2>1 DEF NoneTwice
  <2>2. CASE i \in 1..Len(s) /\ j = Len(s) + 1
    BY <1>1, <1>2, <1>4, <1>5, <2>2
  <2>3. CASE i = Len(s) + 1 /\ j \in 1..Len(s)
    BY <1>1, <1>2, <1>4, <1>5, <2>3
  <2>4. CASE i = Len(s) + 1 /\ j = Len(s) + 1
    BY <2>4
  <2> QED  BY <1>3, <2>1, <2>2, <2>3, <2>4
<1> QED
  BY <1>5 DEF NoneTwice, r

\* The lists that Kept(s, S) goes through.
Keeps(kept, s, S, T) ==
    /\ kept \in [0..Len(s) -> Seq(T)]
    /\ kept[0] = <<>>
    /\ \A n \in 1..Len(s) :
         kept[n] = IF s[n] \in S THEN Append(kept[n - 1], s[n]) ELSE kept[n - 1]

LEMMA KeptSteps ==
    ASSUME NEW T, NEW s \in Seq(T), NEW S
    PROVE  \E kept : Keeps(kept, s, S, T) /\ Kept(s, S) = kept[Len(s)]
<1> DEFINE N == Len(s)
           G == [p \in (1..N) \X Seq(T) |->
                    IF s[p[1]] \in S THEN Append(p[2], s[p[1]]) ELSE p[2]]
           F(k) == [n \in 0..N |->
                      IF n = 0 THEN <<>>
                      ELSE IF s[n] \in S THEN Append(k[n - 1], s[n]) ELSE k[n - 1]]
           kept == CHOOSE k : k = F(k)
<1>1. N \in Nat /\ \A n \in 1..N : s[n] \in T
  OBVIOUS
<1>2. G \in [(1..N) \X Seq(T) -> Seq(T)]
  BY <1>1
<1>3. PICK f \in [0..N -> Seq(T)] : /\ f[0] = <<>>
                                    /\ \A n \in 1..N : f[n] = G[<<n, f[n - 1]>>]
  <2> DEFINE X == Seq(T)
             b == <<>>
  <2>0. N \in Nat
    OBVIOUS
  <2>1. b \in X
    OBVIOUS
  <2>2. G \in [(1..N) \X X -> X]
    BY <1>2
  <2> HIDE DEF G, N, X, F, b
  <2>3. IsStep(G, N, X)
    BY <2>2 DEF IsStep
  <2>4. PICK f : Follows(f, N, X, b, G)
    BY <2>0, <2>1, <2>3, RecursionExists
  <2> QED  BY <2>4 DEF Follows, X, b
<1>4. f = F(f)
  <2>1. ASSUME NEW n \in 1..N
        PROVE  f[n] = IF s[n] \in S THEN Append(f[n - 1], s[n]) ELSE f[n - 1]
    <3>1. f[n - 1] \in Seq(T)
      BY <1>1, <1>3
    <3> QED  BY <1>3, <3>1
  <2> HIDE DEF G, N
  <2>2. ASSUME NEW n \in 0..N PROVE f[n] = F(f)[n]
    <3>1. CASE n = 0
      BY <1>1, <1>3, <3>1
    <3>2. CASE n \in 1..N
      <4>1. n \in 0..N /\ n # 0
        BY <1>1, <3>2
      <4> HIDE DEF F
      <4>2. F(f)[n] = IF n = 0 THEN <<>>
                      ELSE IF s[n] \in S THEN Append(f[n - 1], s[n]) ELSE f[n - 1]
        BY <4>1 DEF F
      <4> QED  BY <2>1, <3>2, <4>1, <4>2
    <3> QED  BY <1>1, <3>1, <3>2
  <2>3. f = [n \in 0..N |-> f[n]] /\ F(f) = [n \in 0..N |-> F(f)[n]]
    BY <1>3
  <2> QED  BY <2>2, <2>3
<1>5. kept = F(kept)
  <2>1. \E k : k = F(k)
    BY <1>4
  <2> HIDE DEF F, N
  <2> QED  BY <2>1, Zenon
<1>6. Kept(s, S) = kept[N]
  BY DEF Kept
<1> HIDE DEF kept, G
<1>7. /\ kept[0] = <<>>
      /\ \A n \in 1..N : kept[n] = IF s[n] \in S THEN Append(kept[n - 1], s[n])
                                                 ELSE kept[n - 1]
  <2> HIDE DEF N
  <2>1. kept[0] = F(kept)[0] /\ \A n \in 1..N : kept[n] = F(kept)[n]
    BY <1>5
  <2>2. 0 \in 0..N /\ \A n \in 1..N : n \in 0..N /\ n # 0
    BY <1>1
  <2> QED  BY <2>1, <2>2 DEF F
<1> DEFINE Q == {n \in 0..N : kept[n] \in Seq(T)}
<1> HIDE DEF F
<1>8. 0 \in Q
  <2>1. 0 \in 0..N /\ <<>> \in Seq(T)
    BY <1>1
  <2> HIDE DEF N
  <2> QED  BY <1>7, <2>1
<1>9. ASSUME NEW n \in 1..N, n - 1 \in Q PROVE n \in Q
  <2>1. kept[n - 1] \in Seq(T) /\ n \in 0..N /\ s[n] \in T
    BY <1>1, <1>9
  <2> HIDE DEF N
  <2>2. Append(kept[n - 1], s[n]) \in Seq(T)
    BY <2>1
  <2> QED  BY <1>7, <2>1, <2>2
<1>10. \A n \in 0..N : kept[n] \in Seq(T)
  <2> HIDE DEF Q, N
  <2>1. \A n \in 0..N : n \in Q
    BY <1>1, <1>8, <1>9, UpTo
  <2> QED  BY <2>1 DEF Q
<1>11. DOMAIN kept = 0..N /\ kept = [n \in 0..N |-> kept[n]]
  <2> HIDE DEF N
  <2> QED  BY <1>5 DEF F
<1>12. kept \in [0..N -> Seq(T)]
  <2> HIDE DEF N
  <2> QED  BY <1>10, <1>11
<1>13. Keeps(kept, s, S, T)
  BY <1>7, <1>12 DEF Keeps
<1> QED
  BY <1>6, <1>13

\* Kept(s, S) has the elements of s that are in S, as often as s has them.
LEMMA KeptElements ==
    ASSUME NEW T, NEW s \in Seq(T), NEW S
    PROVE  /\ Kept(s, S) \in Seq(T)
           /\ ToSet(Kept(s, S)) = ToSet(s) \cap S
           /\ NoneTwice(s) => NoneTwice(Kept(s, S))
<1> DEFINE N == Len(s)
<1>1. N \in Nat /\ \A n \in 1..N : s[n] \in T
  OBVIOUS
<1>5. PICK kept : Keeps(kept, s, S, T) /\ Kept(s, S) = kept[Len(s)]
  BY KeptSteps
<1>6. Kept(s, S) = kept[N]
  BY <1>5
<1>7. /\ kept[0] = <<>>
      /\ \A n \in 1..N : kept[n] = IF s[n] \in S THEN Append(kept[n - 1], s[n])
                                                 ELSE kept[n - 1]
  BY <1>5 DEF Keeps
<1> DEFINE Q == {n \in 0..N : /\ kept[n] \in Seq(T)
                              /\ ToSet(kept[n]) = {s[m] : m \in 1..n} \cap S
                              /\ NoneTwice(s) => NoneTwice(kept[n])}
<1>8. 0 \in Q
  <2>1. ToSet(<<>>) = {} /\ <<>> \in Seq(T) /\ {s[m] : m \in 1..0} = {}
    BY DEF ToSet
  <2>2. 0 \in 0..N
    BY <1>1
  <2>3. NoneTwice(<<>>)
    BY DEF NoneTwice
  <2> QED  BY <1>7, <2>1, <2>2, <2>3
<1>9. ASSUME NEW n \in 1..N, n - 1 \in Q PROVE n \in Q
  <2>1. /\ kept[n - 1] \in Seq(T)
        /\ ToSet(kept[n - 1]) = {s[m] : m \in 1..(n - 1)} \cap S
        /\ NoneTwice(s) => NoneTwice(kept[n - 1])
    BY <1>9
  <2>2. {s[m] : m \in 1..n} = {s[m] : m \in 1..(n - 1)} \cup {s[n]}
    BY <1>1
  <2>3. n \in 0..N /\ s[n] \in T
    BY <1>1
  <2>4. CASE s[n] \in S
    <3>1. kept[n] = Append(kept[n - 1], s[n])
      BY <1>7, <2>4
    <3>2. kept[n] \in Seq(T) /\ ToSet(kept[n]) = ToSet(kept[n - 1]) \cup {s[n]}
      BY <2>1, <2>3, <3>1, AppendedSet
    <3>3. ASSUME NoneTwice(s) PROVE NoneTwice(kept[n])
      <4>1. s[n] \notin {s[m] : m \in 1..(n - 1)}
        BY <1>1, <3>3 DEF NoneTwice
      <4>2. s[n] \notin ToSet(kept[n - 1]) /\ NoneTwice(kept[n - 1])
        BY <2>1, <3>3, <4>1
      <4> HIDE DEF N
      <4>3. NoneTwice(Append(kept[n - 1], s[n]))
        BY <2>1, <2>3, <4>2, AppendedOnce
      <4> QED  BY <3>1, <4>3
    <3> QED  BY <2>1, <2>2, <2>3, <2>4, <3>2, <3>3
  <2>5. CASE s[n] \notin S
    <3>1. kept[n] = kept[n - 1]
      BY <1>7, <2>5
    <3> QED  BY <2>1, <2>2, <2>3, <2>5, <3>1
  <2> QED  BY <2>4, <2>5
<1>10. N \in Q
  <2>1. N \in Nat
    OBVIOUS
  <2> HIDE DEF Q, N
  <2>2. \A n \in 0..N : n \in Q
    BY <2>1, <1>8, <1>9, UpTo
  <2> QED  BY <2>1, <2>2
<1>11. ToSet(s) = {s[m] : m \in 1..N}
  BY DEF ToSet
<1> QED
  BY <1>6, <1>10, <1>11

\* What FlattenSeq(ss) is: the sequences of ss one after the other.
Flattens(flat, ss, T) ==
    /\ flat \in [0..Len(ss) -> Seq(T)]
    /\ flat[0] = <<>>
    /\ \A n \in 1..Len(ss) : flat[n] = flat[n - 1] \o ss[n]

LEMMA FlattenSteps ==
    ASSUME NEW T, NEW ss \in Seq(Seq(T))
    PROVE  \E flat : Flattens(flat, ss, T) /\ FlattenSeq(ss) = flat[Len(ss)]
<1> DEFINE N == Len(ss)
           X == Seq(T)
           b == <<>>
           G == [p \in (1..N) \X X |-> p[2] \o ss[p[1]]]
           F(k) == [i \in 1..N |-> IF i = 1 THEN ss[i] ELSE k[i - 1] \o ss[i]]
           flatten == CHOOSE k : k = F(k)
<1>1. N \in Nat /\ \A n \in 1..N : ss[n] \in X
  OBVIOUS
<1>2. b \in X /\ b = <<>>
  OBVIOUS
<1>3. IsStep(G, N, X)
  <2>1. ASSUME NEW n \in 1..N, NEW x \in X PROVE x \o ss[n] \in X
    BY <1>1
  <2> HIDE DEF N, X
  <2> QED  BY <2>1 DEF IsStep
<1>4. PICK f : Follows(f, N, X, b, G)
  <2> HIDE DEF G, N, X, b, F
  <2>1. N \in Nat
    BY <1>1
  <2>2. b \in X
    BY <1>2
  <2> QED  BY <1>3, <2>1, <2>2, RecursionExists
<1>5. /\ f \in [0..N -> X]
      /\ f[0] = <<>>
      /\ \A n \in 1..N : f[n] = f[n - 1] \o ss[n]
  <2>1. f \in [0..N -> X] /\ f[0] = <<>> /\ \A n \in 1..N : f[n] = G[<<n, f[n - 1]>>]
    BY <1>4 DEF Follows
  <2>2. ASSUME NEW n \in 1..N PROVE f[n] = f[n - 1] \o ss[n]
    <3>1. f[n - 1] \in X
      <4>1. n - 1 \in 0..N
        BY <1>1
      <4> HIDE DEF X, N
      <4> QED  BY <2>1, <4>1
    <3>2. G[<<n, f[n - 1]>>] = f[n - 1] \o ss[n]
      <4> HIDE DEF X, N
      <4> QED  BY <3>1
    <3> QED  BY <2>1, <3>2
  <2> QED  BY <2>1, <2>2
<1>6. Flattens(f, ss, T)
  BY <1>5 DEF Flattens
<1>7. CASE N = 0
  <2>1. ss = <<>> /\ FlattenSeq(ss) = ss
    BY <1>7 DEF FlattenSeq
  <2> QED  BY <1>5, <1>6, <1>7, <2>1
<1>8. CASE N # 0
  <2> DEFINE g == [i \in 1..N |-> f[i]]
  <2>1. f[1] = ss[1]
    <3>1. ASSUME NEW n \in 1..N, n = 1 PROVE f[n] = ss[n]
      <4>1. f[n] = f[n - 1] \o ss[n]
        BY <1>5
      <4>3. n - 1 = 0 /\ ss[n] \in Seq(T)
        BY <1>1, <3>1
      <4>2. <<>> \o ss[n] = ss[n]
        BY <4>3
      <4> QED  BY <1>5, <4>1, <4>2, <4>3
    <3>2. 1 \in 1..N
      BY <1>1, <1>8
    <3> QED  BY <3>1, <3>2
  <2>2. g = F(g)
    <3>1. ASSUME NEW i \in 1..N PROVE f[i] = IF i = 1 THEN ss[i] ELSE g[i - 1] \o ss[i]
      <4>1. i # 1 => i - 1 \in 1..N
        BY <1>1
      <4> HIDE DEF N
      <4> QED  BY <1>5, <2>1, <4>1
    <3> HIDE DEF N
    <3> QED  BY <3>1
  <2>3. flatten = F(flatten)
    <3>1. \E k : k = F(k)
      BY <2>2
    <3> HIDE DEF F, N
    <3> QED  BY <3>1, Zenon
  <2>4. FlattenSeq(ss) = flatten[N]
    BY <1>8 DEF FlattenSeq
  <2> HIDE DEF flatten
  <2>5. \A i \in 1..N : flatten[i] = IF i = 1 THEN ss[i] ELSE flatten[i - 1] \o ss[i]
    <3> HIDE DEF N
    <3> QED  BY <2>3
  <2> DEFINE Q == {n \in 0..N : n = 0 \/ flatten[n] = f[n]}
  <2>6. 0 \in Q
    BY <1>1
  <2>7. ASSUME NEW n \in 1..N, n - 1 \in Q PROVE n \in Q
    <3>1. flatten[n] = f[n]
      <4>1. CASE n = 1
        BY <2>1, <2>5, <4>1
      <4>2. CASE n # 1
        <5>1. flatten[n - 1] = f[n - 1]
          BY <2>7, <4>2
        <5> HIDE DEF N
        <5> QED  BY <1>5, <2>5, <4>2, <5>1
      <4> QED  BY <4>1, <4>2
    <3> QED  BY <1>1, <3>1
  <2>8. N \in Q
    <3>1. N \in Nat
      BY <1>1
    <3> HIDE DEF Q, N, F
    <3>2. \A n \in 0..N : n \in Q
      BY <2>6, <2>7, <3>1, UpTo
    <3> QED  BY <3>1, <3>2
  <2>9. flatten[N] = f[N]
    BY <1>8, <2>8
  <2> QED  BY <1>6, <2>4, <2>9
<1> QED
  BY <1>7, <1>8

-----------------------------------------------------------------------------
(* What the scanner returns are attributes. *)

PageTokens == Chars \cup Attributes

ScanStates == [balance : Int, skip : {"nothing", "comment_end", "script_end"},
               after : {"nothing", "script_end"}, links : Seq(Attributes)]

LEMMA ScanTypes ==
    ASSUME NEW s \in ScanStates, NEW t \in PageTokens
    PROVE  Scan(s, t) \in ScanStates
<1>1. t.token \in {"lt", "gt", "script_begin", "script_end", "comment_begin",
                   "comment_end", "attribute"}
  BY DEF PageTokens, Chars, Char, Attributes
<1>2. t.token = "attribute" => t \in Attributes
  BY DEF PageTokens, Chars, Char, Attributes
<1>3. CASE s.skip # "nothing"
  BY <1>1, <1>3 DEF Scan, ScanStates
<1>4. CASE s.skip = "nothing" /\ t.token = "comment_begin"
  BY <1>4 DEF Scan, ScanStates
<1>9. s.balance \in Int /\ s.links \in Seq(Attributes)
  BY DEF ScanStates
<1>5. CASE s.skip = "nothing" /\ t.token = "lt"
  <2>1. Scan(s, t) = [s EXCEPT !.balance = s.balance + 1]
    BY <1>5 DEF Scan
  <2>2. s.balance + 1 \in Int
    BY <1>9
  <2>3. \A n \in Int : [s EXCEPT !.balance = n] \in ScanStates
    BY DEF ScanStates
  <2> QED  BY <2>1, <2>2, <2>3
<1>6. CASE s.skip = "nothing" /\ t.token = "script_begin"
  <2>1. Scan(s, t) = [s EXCEPT !.balance = s.balance + 1, !.after = "script_end"]
    BY <1>6 DEF Scan
  <2>2. s.balance + 1 \in Int
    BY <1>9
  <2>3. \A n \in Int : [s EXCEPT !.balance = n, !.after = "script_end"] \in ScanStates
    BY DEF ScanStates
  <2> QED  BY <2>1, <2>2, <2>3
<1>7. CASE s.skip = "nothing" /\ t.token \in {"gt", "comment_end", "script_end"}
  <2> DEFINE n == IF t.token = "script_end" THEN s.balance ELSE s.balance - 1
  <2>1. Scan(s, t) = [s EXCEPT !.balance = n, !.after = "nothing", !.skip = s.after]
    BY <1>7 DEF Scan
  <2>2. n \in Int
    BY <1>9
  <2>3. s.after \in {"nothing", "comment_end", "script_end"}
    BY DEF ScanStates
  <2> HIDE DEF n
  <2>4. \A m \in Int, a \in {"nothing", "comment_end", "script_end"} :
          [s EXCEPT !.balance = m, !.after = "nothing", !.skip = a] \in ScanStates
    BY DEF ScanStates
  <2> QED  BY <2>1, <2>2, <2>3, <2>4
<1>8. CASE s.skip = "nothing" /\ t.token = "attribute"
  BY <1>2, <1>8 DEF Scan, ScanStates
<1> QED
  BY <1>1, <1>3, <1>4, <1>5, <1>6, <1>7, <1>8

LEMMA ElementTokensTypes ==
    ASSUME NEW e \in Elements
    PROVE  ElementTokens(e) \in Seq(PageTokens)
<1>1. \A c \in {"lt", "gt", "script_begin", "script_end", "comment_begin",
                "comment_end"} : <<Char(c)>> \in Seq(PageTokens)
  <2>1. \A c \in {"lt", "gt", "script_begin", "script_end", "comment_begin",
                  "comment_end"} : Char(c) \in PageTokens
    BY DEF PageTokens, Chars
  <2> QED  BY <2>1
<1>2. e.attributes \in Seq(PageTokens) /\ e.text \in Seq(PageTokens)
  BY DEF Elements, PageTokens
<1>3. e.tag \in {"tag", "script", "comment", "text"}
  BY DEF Elements
<1> QED
  BY <1>1, <1>2, <1>3 DEF ElementTokens

LEMMA TokensTypes ==
    ASSUME NEW page \in Seq(Elements)
    PROVE  Tokens(page) \in Seq(PageTokens)
<1> DEFINE ss == [n \in DOMAIN page |-> ElementTokens(page[n])]
<1>1. \A n \in 1..Len(page) : ElementTokens(page[n]) \in Seq(PageTokens)
  BY ElementTokensTypes
<1>2. ss \in [1..Len(page) -> Seq(PageTokens)]
  BY <1>1
<1>3. ss \in Seq(Seq(PageTokens))
  BY <1>2
<1>4. PICK flat : Flattens(flat, ss, PageTokens) /\ FlattenSeq(ss) = flat[Len(ss)]
  BY <1>3, FlattenSteps
<1>5. Len(ss) \in 0..Len(ss)
  BY <1>3
<1> HIDE DEF ss
<1>6. FlattenSeq(ss) \in Seq(PageTokens)
  BY <1>4, <1>5 DEF Flattens
<1> QED
  BY <1>6 DEF Tokens, ss

\* scan goes through the tokens one after the other.
Scans(scan, tokens) ==
    /\ scan \in [0..Len(tokens) -> ScanStates]
    /\ scan[0] = NothingScanned
    /\ \A n \in 1..Len(tokens) : scan[n] = Scan(scan[n - 1], tokens[n])

LEMMA ScanSteps ==
    ASSUME NEW page, Tokens(page) \in Seq(PageTokens)
    PROVE  \E scan : /\ Scans(scan, Tokens(page))
                     /\ GetLinks(page) = scan[Len(Tokens(page))].links
<1> DEFINE tokens == Tokens(page)
           N == Len(tokens)
           X == ScanStates
           b == NothingScanned
           G == [p \in (1..N) \X X |-> Scan(p[2], tokens[p[1]])]
           F(k) == [n \in 0..N |-> IF n = 0 THEN NothingScanned
                                   ELSE Scan(k[n - 1], tokens[n])]
           scan == CHOOSE k : k = F(k)
<1>1. N \in Nat /\ \A n \in 1..N : tokens[n] \in PageTokens
  OBVIOUS
<1>2. b \in X
  <2>1. <<>> \in Seq(Attributes)
    OBVIOUS
  <2> QED  BY <2>1 DEF NothingScanned, ScanStates
<1>3. IsStep(G, N, X)
  <2>1. ASSUME NEW n \in 1..N, NEW s \in X PROVE Scan(s, tokens[n]) \in X
    BY <1>1, ScanTypes
  <2> HIDE DEF N, X, tokens
  <2> QED  BY <2>1 DEF IsStep
<1>4. PICK f : Follows(f, N, X, b, G)
  <2>1. N \in Nat
    BY <1>1
  <2> HIDE DEF G, N, X, b, F, tokens
  <2> QED  BY <1>2, <1>3, <2>1, RecursionExists
<1> HIDE DEF tokens
<1>5. f = F(f)
  <2>1. f \in [0..N -> X] /\ f[0] = b /\ \A n \in 1..N : f[n] = G[<<n, f[n - 1]>>]
    BY <1>4 DEF Follows
  <2>2. ASSUME NEW n \in 1..N PROVE f[n] = Scan(f[n - 1], tokens[n])
    <3>1. n - 1 \in 0..N
      BY <1>1
    <3> HIDE DEF N, X
    <3>2. f[n - 1] \in X
      BY <2>1, <3>1
    <3>3. G[<<n, f[n - 1]>>] = Scan(f[n - 1], tokens[n])
      BY <3>2
    <3> HIDE DEF G
    <3> QED  BY <2>1, <3>3
  <2>3. ASSUME NEW n \in 0..N PROVE f[n] = IF n = 0 THEN NothingScanned
                                           ELSE Scan(f[n - 1], tokens[n])
    <3>1. n = 0 \/ n \in 1..N
      BY <1>1
    <3> HIDE DEF N, G, X
    <3> QED  BY <2>1, <2>2, <3>1
  <2> HIDE DEF N, G, X
  <2> QED  BY <2>1, <2>3
<1>6. scan = F(scan)
  <2>1. \E k : k = F(k)
    BY <1>5
  <2> HIDE DEF F, N
  <2> QED  BY <2>1, Zenon
<1>7. GetLinks(page) = scan[N].links
  BY DEF GetLinks, tokens
<1> HIDE DEF scan
<1>8. scan[0] = NothingScanned /\ \A n \in 1..N : scan[n] = Scan(scan[n - 1], tokens[n])
  <2>1. 0 \in 0..N /\ \A n \in 1..N : n \in 0..N /\ n # 0
    BY <1>1
  <2>2. \A n \in 0..N : scan[n] = IF n = 0 THEN NothingScanned
                                  ELSE Scan(scan[n - 1], tokens[n])
    <3> HIDE DEF N
    <3> QED  BY <1>6
  <2> HIDE DEF N
  <2> QED  BY <2>1, <2>2
<1>9. \A n \in 0..N : scan[n] \in ScanStates
  <2> DEFINE Q == {n \in 0..N : scan[n] \in ScanStates}
  <2>1. 0 \in Q
    BY <1>1, <1>2, <1>8
  <2>2. ASSUME NEW n \in 1..N, n - 1 \in Q PROVE n \in Q
    BY <1>1, <1>8, <2>2, ScanTypes
  <2>3. N \in Nat
    BY <1>1
  <2>4. \A n \in 0..N : n \in Q
    <3> HIDE DEF Q, N, F
    <3> QED  BY <2>1, <2>2, <2>3, UpTo
  <2> QED  BY <2>4
<1>10. scan = [n \in 0..N |-> scan[n]]
  <2> HIDE DEF N
  <2> QED  BY <1>6
<1>11. scan \in [0..N -> ScanStates]
  <2> HIDE DEF N, F
  <2> QED  BY <1>9, <1>10
<1> QED
  BY <1>7, <1>8, <1>11 DEF Scans, tokens

LEMMA GetLinksTypes ==
    ASSUME NEW page \in Seq(Elements)
    PROVE  GetLinks(page) \in Seq(Attributes)
<1>1. Tokens(page) \in Seq(PageTokens)
  BY TokensTypes
<1>2. PICK scan : /\ Scans(scan, Tokens(page))
                  /\ GetLinks(page) = scan[Len(Tokens(page))].links
  BY <1>1, ScanSteps
<1>3. Len(Tokens(page)) \in 0..Len(Tokens(page))
  BY <1>1
<1>4. scan[Len(Tokens(page))] \in ScanStates
  BY <1>2, <1>3 DEF Scans
<1> QED
  BY <1>2, <1>4 DEF ScanStates

-----------------------------------------------------------------------------
(* What the scanner finds. *)

\* The scanner goes through ts from its position p on.
Chain(scan, p, ts) == \A j \in 1..Len(ts) : scan[p + j] = Scan(scan[p + j - 1], ts[j])

State(balance, skip, after, links) ==
    [balance |-> balance, skip |-> skip, after |-> after, links |-> links]

Outside(links) == State(0, "nothing", "nothing", links)

LEMMA ChainOfOne ==
    ASSUME NEW scan, NEW p \in Nat, NEW t, Chain(scan, p, <<t>>)
    PROVE  scan[p + 1] = Scan(scan[p], t)
<1>1. Len(<<t>>) = 1 /\ <<t>>[1] = t
  OBVIOUS
<1>2. ASSUME NEW j \in 1..1 PROVE scan[p + j] = Scan(scan[p + j - 1], <<t>>[j])
  BY <1>1 DEF Chain
<1>3. 1 \in 1..1 /\ p + 1 - 1 = p
  OBVIOUS
<1> QED
  BY <1>1, <1>2, <1>3

LEMMA ChainParts ==
    ASSUME NEW scan, NEW p \in Nat, NEW T, NEW s \in Seq(T), NEW t \in Seq(T),
           Chain(scan, p, s \o t)
    PROVE  Chain(scan, p, s) /\ Chain(scan, p + Len(s), t)
<1> DEFINE r == s \o t
<1>1. Len(r) = Len(s) + Len(t) /\ Len(s) \in Nat /\ Len(t) \in Nat
  OBVIOUS
<1>2. \A j \in 1..Len(s) : r[j] = s[j]
  OBVIOUS
<1>3. \A j \in 1..Len(t) : r[Len(s) + j] = t[j]
  OBVIOUS
<1>4. \A j \in 1..Len(r) : scan[p + j] = Scan(scan[p + j - 1], r[j])
  BY DEF Chain
<1> HIDE DEF r
<1>5. ASSUME NEW j \in 1..Len(s) PROVE scan[p + j] = Scan(scan[p + j - 1], s[j])
  <2>1. j \in 1..Len(r) /\ r[j] = s[j]
    BY <1>1, <1>2
  <2> QED  BY <1>4, <2>1
<1>6. ASSUME NEW j \in 1..Len(t)
      PROVE  scan[p + Len(s) + j] = Scan(scan[p + Len(s) + j - 1], t[j])
  <2> DEFINE k == Len(s) + j
  <2>1. k \in 1..Len(r) /\ r[k] = t[j]
    BY <1>1, <1>3
  <2>2. p + Len(s) + j = p + k /\ p + Len(s) + j - 1 = p + k - 1
    BY <1>1
  <2> HIDE DEF k
  <2>3. scan[p + k] = Scan(scan[p + k - 1], t[j])
    BY <1>4, <2>1, Zenon
  <2> QED  BY <2>2, <2>3, Zenon
<1> QED
  BY <1>5, <1>6 DEF Chain

LEMMA AppendedPrefix ==
    ASSUME NEW T, NEW s \in Seq(T), NEW t \in Seq(T), NEW j \in 1..Len(t)
    PROVE  Append(s \o SubSeq(t, 1, j - 1), t[j]) = s \o SubSeq(t, 1, j)
  OBVIOUS

LEMMA WholePrefix ==
    ASSUME NEW T, NEW s \in Seq(T), NEW t \in Seq(T)
    PROVE  s \o SubSeq(t, 1, 0) = s /\ s \o SubSeq(t, 1, Len(t)) = s \o t
  OBVIOUS

\* In a tag the attributes are links.
LEMMA AttributesScanned ==
    ASSUME NEW scan, NEW p \in Nat, NEW links \in Seq(Attributes),
           NEW after \in {"nothing", "script_end"}, NEW attrs \in Seq(Attributes),
           scan[p] = State(1, "nothing", after, links), Chain(scan, p, attrs)
    PROVE  scan[p + Len(attrs)] = State(1, "nothing", after, links \o attrs)
<1> DEFINE N == Len(attrs)
           At(j) == State(1, "nothing", after, links \o SubSeq(attrs, 1, j))
           Q == {j \in 0..N : scan[p + j] = At(j)}
<1>1. N \in Nat
  BY SeqElements
<1>7. \A j \in 1..N : attrs[j] \in Attributes
  BY SeqElements
<1>0. p + 0 = p /\ scan[p] = At(0)
  <2>1. links \o SubSeq(attrs, 1, 0) = links
    BY WholePrefix
  <2>2. At(0) = State(1, "nothing", after, links)
    BY <2>1
  <2> HIDE DEF At
  <2> QED  BY <2>2
<1>2. 0 \in Q
  <2> HIDE DEF At
  <2> QED  BY <1>0, <1>1
<1>3. ASSUME NEW j \in 1..N, j - 1 \in Q PROVE j \in Q
  <2> DEFINE found == links \o SubSeq(attrs, 1, j - 1)
  <2>1. scan[p + (j - 1)] = At(j - 1)
    <3> HIDE DEF At
    <3> QED  BY <1>3
  <2>2. scan[p + j] = Scan(scan[p + j - 1], attrs[j]) /\ p + j - 1 = p + (j - 1)
    BY <1>1 DEF Chain
  <2>3. Append(found, attrs[j]) = links \o SubSeq(attrs, 1, j)
    BY AppendedPrefix
  <2> HIDE DEF found
  <2>4. attrs[j].token = "attribute"
    BY <1>7 DEF Attributes
  <2>5. Scan(State(1, "nothing", after, found), attrs[j])
           = State(1, "nothing", after, Append(found, attrs[j]))
    BY <2>4 DEF Scan, State
  <2>6. Scan(At(j - 1), attrs[j]) = At(j)
    BY <2>3, <2>5 DEF found
  <2> HIDE DEF At
  <2> QED  BY <1>1, <2>1, <2>2, <2>6
<1>4. \A j \in 0..N : j \in Q
  <2> HIDE DEF Q, N
  <2> QED  BY <1>1, <1>2, <1>3, UpTo
<1>5. N \in Q
  <2> HIDE DEF Q, N
  <2> QED  BY <1>1, <1>4
<1> QED
  BY <1>5, WholePrefix

\* Outside of a tag they are not, and the end of a script ends nothing.
LEMMA TextScanned ==
    ASSUME NEW scan, NEW p \in Nat, NEW links,
           NEW attrs \in Seq(Attributes \cup {Char("script_end")}),
           scan[p] = Outside(links), Chain(scan, p, attrs)
    PROVE  scan[p + Len(attrs)] = Outside(links)
<1> DEFINE N == Len(attrs)
           state == Outside(links)
           Q == {j \in 0..N : scan[p + j] = state}
<1>1. N \in Nat
  BY SeqElements
<1>7. \A j \in 1..N : attrs[j] \in Attributes \cup {Char("script_end")}
  BY SeqElements
<1>0. p + 0 = p /\ scan[p] = state
  OBVIOUS
<1>6. ASSUME NEW a \in Attributes \cup {Char("script_end")} PROVE Scan(state, a) = state
  <2>1. a.token \in {"attribute", "script_end"}
    BY DEF Attributes, Char
  <2>2. CASE a.token = "attribute"
    BY <2>2 DEF Scan, State, Outside
  <2>3. CASE a.token = "script_end"
    BY <2>3 DEF Scan, State, Outside
  <2> QED  BY <2>1, <2>2, <2>3
<1> HIDE DEF state
<1>2. 0 \in Q
  BY <1>0, <1>1
<1>3. ASSUME NEW j \in 1..N, j - 1 \in Q PROVE j \in Q
  <2>1. scan[p + (j - 1)] = state
    BY <1>3
  <2>2. scan[p + j] = Scan(scan[p + j - 1], attrs[j]) /\ p + j - 1 = p + (j - 1)
    BY <1>1 DEF Chain
  <2>3. Scan(state, attrs[j]) = state
    BY <1>6, <1>7
  <2> QED  BY <1>1, <2>1, <2>2, <2>3
<1>4. \A j \in 0..N : j \in Q
  <2> HIDE DEF Q, N
  <2> QED  BY <1>1, <1>2, <1>3, UpTo
<1>5. N \in Q
  <2> HIDE DEF Q, N
  <2> QED  BY <1>1, <1>4
<1> QED
  BY <1>5 DEF state

\* What the scanner skips changes nothing.
LEMMA SkippedScanned ==
    ASSUME NEW scan, NEW p \in Nat, NEW s \in ScanStates, s.skip # "nothing",
           NEW ts \in Seq(PageTokens), \A n \in 1..Len(ts) : ts[n].token # s.skip,
           scan[p] = s, Chain(scan, p, ts)
    PROVE  scan[p + Len(ts)] = s
<1> DEFINE N == Len(ts)
           Q == {j \in 0..N : scan[p + j] = s}
<1>1. N \in Nat
  BY SeqElements
<1>0. p + 0 = p
  OBVIOUS
<1>2. 0 \in Q
  BY <1>0, <1>1
<1>3. ASSUME NEW j \in 1..N, j - 1 \in Q PROVE j \in Q
  <2>1. scan[p + (j - 1)] = s
    BY <1>3
  <2>2. scan[p + j] = Scan(scan[p + j - 1], ts[j]) /\ p + j - 1 = p + (j - 1)
    BY <1>1 DEF Chain
  <2>3. Scan(s, ts[j]) = s
    BY DEF Scan
  <2> QED  BY <1>1, <2>1, <2>2, <2>3
<1>4. \A j \in 0..N : j \in Q
  <2> HIDE DEF Q, N
  <2> QED  BY <1>1, <1>2, <1>3, UpTo
<1>5. N \in Q
  <2> HIDE DEF Q, N
  <2> QED  BY <1>1, <1>4
<1> QED
  BY <1>5

LEMMA Concatenated ==
    ASSUME NEW T, NEW s \in Seq(T), NEW t \in Seq(T)
    PROVE  s \o t \in Seq(T) /\ Len(s \o t) = Len(s) + Len(t)
  OBVIOUS

LEMMA BracketsScanned ==
    ASSUME NEW links
    PROVE  /\ Scan(Outside(links), Char("lt")) = State(1, "nothing", "nothing", links)
           /\ Scan(Outside(links), Char("script_begin"))
                = State(1, "nothing", "script_end", links)
           /\ Scan(State(1, "nothing", "nothing", links), Char("gt")) = Outside(links)
           /\ Scan(State(1, "nothing", "script_end", links), Char("gt"))
                = State(0, "script_end", "nothing", links)
<1>1. \A c : Char(c).token = c
  BY DEF Char
<1>2. Scan(Outside(links), Char("lt")) = State(1, "nothing", "nothing", links)
  BY <1>1 DEF Scan, Outside, State
<1>3. ASSUME NEW s, NEW t, s = Outside(links), t.token = "script_begin"
      PROVE  Scan(s, t) = State(1, "nothing", "script_end", links)
  <2>1. s.skip = "nothing" /\ s.balance = 0
    BY <1>3 DEF Outside, State
  <2>2. Scan(s, t) = [s EXCEPT !.balance = s.balance + 1, !.after = "script_end"]
    BY <1>3, <2>1 DEF Scan
  <2>3. Scan(s, t) = [s EXCEPT !.balance = 1, !.after = "script_end"]
    BY <2>1, <2>2
  <2> QED  BY <1>3, <2>3 DEF Outside, State
<1>4. ASSUME NEW s, NEW t, NEW after, s = State(1, "nothing", after, links),
             t.token = "gt"
      PROVE  Scan(s, t) = State(0, after, "nothing", links)
  <2>1. s.skip = "nothing" /\ s.balance = 1 /\ s.after = after
    BY <1>4 DEF State
  <2>2. Scan(s, t) = [s EXCEPT !.balance = s.balance - 1, !.after = "nothing",
                               !.skip = s.after]
    BY <1>4, <2>1 DEF Scan
  <2>3. Scan(s, t) = [s EXCEPT !.balance = 0, !.after = "nothing", !.skip = after]
    BY <2>1, <2>2
  <2> QED  BY <1>4, <2>3 DEF State
<1> QED
  BY <1>1, <1>2, <1>3, <1>4 DEF Outside

LEMMA ElementScanned ==
    ASSUME NEW scan, NEW p \in Nat, NEW links \in Seq(Attributes), NEW e \in ProperElements,
           scan[p] = Outside(links), Chain(scan, p, ElementTokens(e))
    PROVE  scan[p + Len(ElementTokens(e))] = Outside(links \o e.attributes)
<1> DEFINE a == e.attributes
           x == e.text
           T == PageTokens
           Begin == <<Char("script_begin")>>
           Lt == <<Char("lt")>>
           Gt == <<Char("gt")>>
           End == <<Char("script_end")>>
           Open == <<Char("comment_begin")>>
           Close == <<Char("comment_end")>>
<1>1. a \in Seq(Attributes) /\ a \in Seq(T) /\ x \in Seq(T)
  BY DEF ProperElements, Elements, PageTokens
<1>2. /\ Begin \in Seq(T) /\ Lt \in Seq(T) /\ Gt \in Seq(T)
      /\ End \in Seq(T) /\ Open \in Seq(T) /\ Close \in Seq(T)
  <2>1. \A c \in {"lt", "gt", "script_begin", "script_end", "comment_begin",
                  "comment_end"} : Char(c) \in PageTokens
    BY DEF PageTokens, Chars
  <2> QED  BY <2>1
<1>3. Len(Begin) = 1 /\ Len(Lt) = 1 /\ Len(Gt) = 1 /\ Len(End) = 1
        /\ Len(Open) = 1 /\ Len(Close) = 1
  OBVIOUS
<1>4. \A c : Char(c).token = c
  BY DEF Char
<1>5. Len(a) \in Nat /\ Len(x) \in Nat
  BY <1>1, SeqElements
<1>11. \A s, t \in Seq(T) : s \o t \in Seq(T) /\ Len(s \o t) = Len(s) + Len(t)
  BY Concatenated
<1>6. Chain(scan, p, ElementTokens(e)) /\ scan[p] = Outside(links)
  OBVIOUS
<1>7. CASE e.tag = "tag"
  <2>1. ElementTokens(e) = Lt \o a \o Gt
    BY <1>7 DEF ElementTokens
  <2> HIDE DEF a, Lt, Gt, T
  <2>2. Lt \o a \in Seq(T) /\ Len(Lt \o a) = 1 + Len(a)
    <3>1. Lt \in Seq(T) /\ a \in Seq(T) /\ Len(Lt) = 1
      BY <1>1, <1>2, <1>3
    <3> QED  BY <1>11, <3>1
  <2>3. Len(Lt \o a \o Gt) = 1 + Len(a) + 1
    BY <1>2, <1>3, <2>2, <1>11
  <2>4. Chain(scan, p, Lt \o a) /\ Chain(scan, p + Len(Lt \o a), Gt)
    BY <1>2, <1>6, <2>1, <2>2, ChainParts
  <2>5. Chain(scan, p, Lt) /\ Chain(scan, p + Len(Lt), a)
    BY <1>1, <1>2, <2>4, ChainParts
  <2>6. scan[p + 1] = State(1, "nothing", "nothing", links)
    <3>1. scan[p + 1] = Scan(Outside(links), Char("lt"))
      BY <1>6, <2>5, ChainOfOne DEF Lt
    <3> QED  BY <1>4, <3>1 DEF Scan, Outside, State
  <2>7. scan[p + 1 + Len(a)] = State(1, "nothing", "nothing", links \o a)
    <3>1. p + 1 \in Nat
      OBVIOUS
    <3> QED  BY <1>1, <1>3, <2>5, <2>6, <3>1, AttributesScanned
  <2>8. scan[p + 1 + Len(a) + 1] = Scan(State(1, "nothing", "nothing", links \o a), Char("gt"))
    <3>1. p + 1 + Len(a) \in Nat /\ p + Len(Lt \o a) = p + 1 + Len(a)
      BY <1>5, <2>2
    <3> QED  BY <2>4, <2>7, <3>1, ChainOfOne DEF Gt
  <2>9. Scan(State(1, "nothing", "nothing", links \o a), Char("gt")) = Outside(links \o a)
    BY BracketsScanned
  <2>10. p + (1 + Len(a) + 1) = p + 1 + Len(a) + 1
    BY <1>5
  <2> QED  BY <2>1, <2>3, <2>8, <2>9, <2>10 DEF a
<1>8. CASE e.tag = "script"
  <2> DEFINE inTag == State(1, "nothing", "script_end", links)
             atEnd == State(1, "nothing", "script_end", links \o a)
             inScript == State(0, "script_end", "nothing", links \o a)
  <2>1. ElementTokens(e) = Begin \o a \o Gt \o x \o End
    BY <1>8 DEF ElementTokens
  <2>0. \A n \in 1..Len(x) : x[n].token # "script_end"
    BY <1>8 DEF ProperElements
  <2> HIDE DEF a, x, Begin, Gt, End, T
  <2>2. Begin \o a \in Seq(T) /\ Len(Begin \o a) = 1 + Len(a)
    <3>1. Begin \in Seq(T) /\ a \in Seq(T) /\ Len(Begin) = 1
      BY <1>1, <1>2, <1>3
    <3> QED  BY <1>11, <3>1
  <2>3. Begin \o a \o Gt \in Seq(T) /\ Len(Begin \o a \o Gt) = 1 + Len(a) + 1
    BY <1>2, <1>3, <2>2, <1>11
  <2>4. Begin \o a \o Gt \o x \in Seq(T) /\ Len(Begin \o a \o Gt \o x) = 1 + Len(a) + 1 + Len(x)
    BY <1>1, <1>3, <2>3, <1>11
  <2>5. Len(Begin \o a \o Gt \o x \o End) = 1 + Len(a) + 1 + Len(x) + 1
    <3>1. End \in Seq(T) /\ Len(End) = 1
      BY <1>2, <1>3
    <3> QED  BY <1>11, <2>4, <3>1
  <2>6. Chain(scan, p, Begin \o a \o Gt \o x) /\ Chain(scan, p + Len(Begin \o a \o Gt \o x), End)
    BY <1>2, <1>6, <2>1, <2>4, ChainParts
  <2>7. Chain(scan, p, Begin \o a \o Gt) /\ Chain(scan, p + Len(Begin \o a \o Gt), x)
    BY <1>1, <2>3, <2>6, ChainParts
  <2>8. Chain(scan, p, Begin \o a) /\ Chain(scan, p + Len(Begin \o a), Gt)
    BY <1>2, <2>2, <2>7, ChainParts
  <2>9. Chain(scan, p, Begin) /\ Chain(scan, p + Len(Begin), a)
    BY <1>1, <1>2, <2>8, ChainParts
  <2>10. scan[p + 1] = inTag
    <3>1. scan[p + 1] = Scan(Outside(links), Char("script_begin"))
      BY <1>6, <2>9, ChainOfOne DEF Begin
    <3> QED  BY <3>1, BracketsScanned
  <2>11. scan[p + 1 + Len(a)] = atEnd
    <3>1. p + 1 \in Nat
      OBVIOUS
    <3> QED  BY <1>1, <1>3, <2>9, <2>10, <3>1, AttributesScanned
  <2>12. scan[p + 1 + Len(a) + 1] = inScript
    <3>1. p + 1 + Len(a) \in Nat /\ p + Len(Begin \o a) = p + 1 + Len(a)
      BY <1>5, <2>2
    <3>2. scan[p + 1 + Len(a) + 1] = Scan(atEnd, Char("gt"))
      BY <2>8, <2>11, <3>1, ChainOfOne DEF Gt
    <3> QED  BY <3>2, BracketsScanned
  <2>13. scan[p + 1 + Len(a) + 1 + Len(x)] = inScript
    <3>1. /\ p + 1 + Len(a) + 1 \in Nat
          /\ p + Len(Begin \o a \o Gt) = p + 1 + Len(a) + 1
      BY <1>5, <2>3
    <3>2. inScript \in ScanStates /\ inScript.skip = "script_end"
      <4>1. links \o a \in Seq(Attributes)
        BY <1>1
      <4> QED  BY <4>1 DEF ScanStates, State
    <3>3. x \in Seq(PageTokens)
      BY <1>1 DEF T
    <3>4. Chain(scan, p + 1 + Len(a) + 1, x)
      BY <2>7, <3>1
    <3> HIDE DEF inScript
    <3> QED  BY <2>0, <2>12, <3>1, <3>2, <3>3, <3>4, SkippedScanned
  <2>14. scan[p + 1 + Len(a) + 1 + Len(x) + 1] = Outside(links \o a)
    <3>1. /\ p + 1 + Len(a) + 1 + Len(x) \in Nat
          /\ p + Len(Begin \o a \o Gt \o x) = p + 1 + Len(a) + 1 + Len(x)
      BY <1>5, <2>4
    <3>2. scan[p + 1 + Len(a) + 1 + Len(x) + 1] = Scan(inScript, Char("script_end"))
      BY <2>6, <2>13, <3>1, ChainOfOne DEF End
    <3> QED  BY <1>4, <3>2 DEF Scan, State, Outside
  <2>15. p + (1 + Len(a) + 1 + Len(x) + 1) = p + 1 + Len(a) + 1 + Len(x) + 1
    BY <1>5
  <2> QED  BY <2>1, <2>5, <2>14, <2>15 DEF a
<1>9. CASE e.tag = "comment"
  <2> DEFINE inComment == State(0, "comment_end", "nothing", links)
  <2>1. ElementTokens(e) = Open \o x \o Close
    BY <1>9 DEF ElementTokens
  <2>0. (\A n \in 1..Len(x) : x[n].token # "comment_end") /\ links \o a = links
    BY <1>9 DEF ProperElements
  <2> HIDE DEF a, x, Open, Close, T
  <2>2. Open \o x \in Seq(T) /\ Len(Open \o x) = 1 + Len(x)
    <3>1. Open \in Seq(T) /\ x \in Seq(T) /\ Len(Open) = 1
      BY <1>1, <1>2, <1>3
    <3> QED  BY <1>11, <3>1
  <2>3. Len(Open \o x \o Close) = 1 + Len(x) + 1
    BY <1>2, <1>3, <2>2, <1>11
  <2>4. Chain(scan, p, Open \o x) /\ Chain(scan, p + Len(Open \o x), Close)
    <3>1. Chain(scan, p, (Open \o x) \o Close)
      BY <1>6, <2>1
    <3> QED  BY <1>2, <2>2, <3>1, ChainParts
  <2>5. Chain(scan, p, Open) /\ Chain(scan, p + Len(Open), x)
    BY <1>1, <1>2, <2>4, ChainParts
  <2>6. scan[p + 1] = inComment
    <3>1. scan[p + 1] = Scan(Outside(links), Char("comment_begin"))
      BY <1>6, <2>5, ChainOfOne DEF Open
    <3> QED  BY <1>4, <3>1 DEF Scan, Outside, State
  <2>7. scan[p + 1 + Len(x)] = inComment
    <3>1. p + 1 \in Nat
      OBVIOUS
    <3>2. inComment \in ScanStates /\ inComment.skip = "comment_end"
      BY DEF ScanStates, State
    <3> HIDE DEF inComment
    <3> QED  BY <1>1, <1>3, <2>0, <2>5, <2>6, <3>1, <3>2, SkippedScanned DEF T
  <2>8. scan[p + 1 + Len(x) + 1] = Outside(links)
    <3>1. p + 1 + Len(x) \in Nat /\ p + Len(Open \o x) = p + 1 + Len(x)
      BY <1>5, <2>2
    <3>2. scan[p + 1 + Len(x) + 1] = Scan(inComment, Char("comment_end"))
      BY <2>4, <2>7, <3>1, ChainOfOne DEF Close
    <3> QED  BY <1>4, <3>2 DEF Scan, State, Outside
  <2>9. p + (1 + Len(x) + 1) = p + 1 + Len(x) + 1
    BY <1>5
  <2> QED  BY <2>0, <2>1, <2>3, <2>8, <2>9 DEF a
<1>10. CASE e.tag = "text"
  <2>1. ElementTokens(e) = x /\ x \in Seq(Attributes \cup {Char("script_end")}) /\ links \o a = links
    BY <1>10 DEF ElementTokens, ProperElements
  <2> HIDE DEF a, x
  <2>2. scan[p + Len(x)] = Outside(links)
    BY <1>6, <2>1, TextScanned
  <2> QED  BY <2>1, <2>2 DEF a
<1> QED
  BY <1>7, <1>8, <1>9, <1>10 DEF ProperElements, Elements

\* generic_getLinks() finds the attributes of the tags, all of them and in their
\* order, and nothing else: not in scripts, comments and texts (tools.cpp:380).
THEOREM ScannerIsExact ==
    ASSUME NEW page \in Seq(ProperElements)
    PROVE  GetLinks(page) = LinksOfPage(page)
<1> DEFINE N == Len(page)
           ts == [n \in DOMAIN page |-> ElementTokens(page[n])]
           links == [n \in DOMAIN page |-> page[n].attributes]
           tokens == Tokens(page)
<1>1. N \in Nat /\ \A n \in 1..N : page[n] \in ProperElements
  BY SeqElements
<1>2. page \in Seq(Elements)
  <2>1. \A n \in 1..N : page[n] \in Elements
    BY <1>1 DEF ProperElements
  <2> QED  BY <2>1
<1>3. /\ ts \in Seq(Seq(PageTokens)) /\ Len(ts) = N
      /\ \A n \in 1..N : ts[n] = ElementTokens(page[n])
  <2>1. \A n \in 1..N : ElementTokens(page[n]) \in Seq(PageTokens)
    BY <1>1, ElementTokensTypes DEF ProperElements
  <2>2. ts \in [1..N -> Seq(PageTokens)]
    BY <2>1
  <2> QED  BY <1>1, <2>2, SeqOfFunction
<1>4. /\ links \in Seq(Seq(Attributes)) /\ Len(links) = N
      /\ \A n \in 1..N : links[n] = page[n].attributes
  <2>1. \A n \in 1..N : page[n].attributes \in Seq(Attributes)
    BY <1>1 DEF ProperElements, Elements
  <2>2. links \in [1..N -> Seq(Attributes)]
    BY <2>1
  <2> QED  BY <1>1, <2>2, SeqOfFunction
<1>5. PICK flat : Flattens(flat, ts, PageTokens) /\ FlattenSeq(ts) = flat[Len(ts)]
  BY <1>3, FlattenSteps
<1>6. PICK found : Flattens(found, links, Attributes) /\ FlattenSeq(links) = found[Len(links)]
  BY <1>4, FlattenSteps
<1>7. tokens = flat[N] /\ LinksOfPage(page) = found[N]
  BY <1>3, <1>4, <1>5, <1>6 DEF Tokens, LinksOfPage
<1>8. tokens \in Seq(PageTokens)
  BY <1>2, TokensTypes
<1>9. PICK scan : Scans(scan, tokens) /\ GetLinks(page) = scan[Len(tokens)].links
  BY <1>8, ScanSteps
<1> HIDE DEF ts, links, tokens
<1>10. /\ flat \in [0..N -> Seq(PageTokens)] /\ flat[0] = <<>>
       /\ \A n \in 1..N : flat[n] = flat[n - 1] \o ts[n]
  <2> HIDE DEF N
  <2> QED  BY <1>3, <1>5 DEF Flattens
<1>11. /\ found \in [0..N -> Seq(Attributes)] /\ found[0] = <<>>
       /\ \A n \in 1..N : found[n] = found[n - 1] \o links[n]
  <2> HIDE DEF N
  <2> QED  BY <1>4, <1>6 DEF Flattens
<1> DEFINE C == {n \in 0..N : Chain(scan, 0, flat[N - n])}
<1>12. \A n \in 0..N : n \in C
  <2>1. 0 \in C
    <3>1. N - 0 = N /\ 0 \in 0..N
      BY <1>1
    <3>2. Chain(scan, 0, tokens)
      <4>1. ASSUME NEW j \in 1..Len(tokens)
            PROVE  scan[0 + j] = Scan(scan[0 + j - 1], tokens[j])
        <5>1. 0 + j = j /\ 0 + j - 1 = j - 1
          BY <1>8, SeqElements
        <5> QED  BY <1>9, <5>1 DEF Scans
      <4> QED  BY <4>1 DEF Chain
    <3> QED  BY <1>7, <3>1, <3>2
  <2>2. ASSUME NEW n \in 1..N, n - 1 \in C PROVE n \in C
    <3> DEFINE k == N - (n - 1)
    <3>1. k \in 1..N /\ N - n = k - 1 /\ k - 1 \in 0..N /\ n \in 0..N
      BY <1>1
    <3>2. Chain(scan, 0, flat[k])
      BY <2>2
    <3> HIDE DEF k, N
    <3>3. flat[k] = flat[k - 1] \o ts[k] /\ flat[k - 1] \in Seq(PageTokens)
      BY <1>10, <3>1
    <3>4. ts[k] \in Seq(PageTokens)
      BY <1>3, <3>1, SeqElements
    <3>5. 0 \in Nat
      OBVIOUS
    <3>6. Chain(scan, 0, flat[k - 1])
      BY <3>2, <3>3, <3>4, <3>5, ChainParts
    <3> QED  BY <3>1, <3>6
  <2> HIDE DEF C, N
  <2> QED  BY <1>1, <2>1, <2>2, UpTo
<1>13. ASSUME NEW n \in 0..N PROVE Chain(scan, 0, flat[n])
  <2>1. N - n \in 0..N /\ N - (N - n) = n
    BY <1>1
  <2> HIDE DEF N
  <2> QED  BY <1>12, <2>1
<1> DEFINE Q == {n \in 0..N : scan[Len(flat[n])] = Outside(found[n])}
<1>14. 0 \in Q
  <2>1. Len(<<>>) = 0 /\ 0 \in 0..N
    BY <1>1
  <2>2. scan[0] = NothingScanned
    BY <1>9 DEF Scans
  <2>3. NothingScanned = Outside(<<>>)
    BY DEF NothingScanned, Outside, State
  <2> QED  BY <1>10, <1>11, <2>1, <2>2, <2>3
<1>15. ASSUME NEW n \in 1..N, n - 1 \in Q PROVE n \in Q
  <2> DEFINE p == Len(flat[n - 1])
  <2>1. n - 1 \in 0..N /\ n \in 0..N
    BY <1>1
  <2> HIDE DEF N
  <2>2. flat[n - 1] \in Seq(PageTokens) /\ found[n - 1] \in Seq(Attributes)
    BY <1>10, <1>11, <2>1
  <2>3. ts[n] \in Seq(PageTokens) /\ ts[n] = ElementTokens(page[n])
    BY <1>3, SeqElements
  <2>4. flat[n] = flat[n - 1] \o ts[n] /\ found[n] = found[n - 1] \o page[n].attributes
    BY <1>4, <1>10, <1>11
  <2>5. p \in Nat /\ 0 \in Nat /\ 0 + p = p
    BY <2>2, SeqElements
  <2>6. Chain(scan, p, ts[n])
    <3>1. Chain(scan, 0, flat[n - 1] \o ts[n])
      BY <1>13, <2>1, <2>4
    <3>2. Chain(scan, 0 + p, ts[n])
      BY <2>2, <2>3, <2>5, <3>1, ChainParts
    <3> QED  BY <2>5, <3>2
  <2>7. scan[p] = Outside(found[n - 1])
    BY <1>15
  <2>8. page[n] \in ProperElements
    BY <1>1
  <2>9. scan[p + Len(ts[n])] = Outside(found[n - 1] \o page[n].attributes)
    <3> DEFINE e == page[n]
               base == found[n - 1]
    <3>1. Chain(scan, p, ElementTokens(e)) /\ base \in Seq(Attributes) /\ e \in ProperElements
      BY <2>2, <2>3, <2>6, <2>8
    <3>2. scan[p] = Outside(base)
      BY <2>7
    <3> HIDE DEF e, base, p
    <3>3. scan[p + Len(ElementTokens(e))] = Outside(base \o e.attributes)
      BY <2>5, <3>1, <3>2, ElementScanned
    <3> QED  BY <2>3, <3>3 DEF e, base
  <2>10. Len(flat[n]) = p + Len(ts[n])
    BY <2>2, <2>3, <2>4, Concatenated
  <2> QED  BY <2>1, <2>4, <2>9, <2>10
<1>16. \A n \in 0..N : n \in Q
  <2> HIDE DEF Q, N
  <2> QED  BY <1>1, <1>14, <1>15, UpTo
<1>17. scan[Len(flat[N])] = Outside(found[N])
  <2>1. N \in 0..N
    BY <1>1
  <2> QED  BY <1>16, <2>1
<1> QED
  BY <1>7, <1>9, <1>17 DEF Outside, State

-----------------------------------------------------------------------------
(* Lists of positions. *)

Increasing(s) == \A i, j \in DOMAIN s : i < j => s[i] < s[j]

LEMMA AppendedIncreasing ==
    ASSUME NEW s \in Seq(Nat), Increasing(s), NEW x \in Nat, \A y \in ToSet(s) : y < x
    PROVE  Increasing(Append(s, x))
<1> DEFINE r == Append(s, x)
<1>1. r \in Seq(Nat) /\ Len(r) = Len(s) + 1 /\ r[Len(s) + 1] = x
  OBVIOUS
<1>2. \A n \in 1..Len(s) : r[n] = s[n]
  OBVIOUS
<1> HIDE DEF r
<1>3. DOMAIN r = 1..(Len(s) + 1) /\ DOMAIN s = 1..Len(s) /\ Len(s) \in Nat
  BY <1>1
<1>4. \A n \in 1..Len(s) : s[n] < x
  BY <1>3 DEF ToSet
<1>5. ASSUME NEW i \in DOMAIN r, NEW j \in DOMAIN r, i < j
      PROVE  r[i] < r[j]
  <2>1. i \in 1..Len(s)
    BY <1>3, <1>5
  <2>2. CASE j \in 1..Len(s)
    BY <1>2, <1>3, <1>5, <2>1, <2>2 DEF Increasing
  <2>3. CASE j = Len(s) + 1
    BY <1>1, <1>2, <1>4, <2>1, <2>3
  <2> QED  BY <1>3, <2>2, <2>3
<1> QED
  BY <1>5 DEF Increasing, r

\* An increasing list has its elements in the only order.
LEMMA BeginAlike ==
    ASSUME NEW s \in Seq(Nat), NEW t \in Seq(Nat), Increasing(s), Increasing(t),
           ToSet(s) = ToSet(t)
    PROVE  Len(s) <= Len(t) /\ \A k \in 1..Len(s) : s[k] = t[k]
<1> DEFINE N == Len(s)
           Q == {n \in 0..N : n <= Len(t) /\ \A k \in 1..n : s[k] = t[k]}
<1>1. /\ N \in Nat /\ Len(t) \in Nat
      /\ DOMAIN s = 1..N /\ DOMAIN t = 1..Len(t)
  OBVIOUS
<1>a. (\A n \in 1..N : s[n] \in Nat) /\ (\A n \in 1..Len(t) : t[n] \in Nat)
  OBVIOUS
<1>b. {s[n] : n \in 1..N} = {t[n] : n \in 1..Len(t)}
  BY <1>1 DEF ToSet
<1>2. 0 \in Q
  BY <1>1
<1>3. ASSUME NEW n \in 1..N, n - 1 \in Q PROVE n \in Q
  <2> HIDE DEF N
  <2>1. n - 1 <= Len(t) /\ \A k \in 1..(n - 1) : s[k] = t[k]
    BY <1>3
  <2>2. PICK m \in 1..Len(t) : t[m] = s[n]
    BY <1>b
  <2>3. n <= m
    <3> SUFFICES ASSUME m < n PROVE FALSE
      BY <1>1
    <3>1. m \in 1..(n - 1) /\ m \in DOMAIN s /\ n \in DOMAIN s
      BY <1>1
    <3>2. s[m] = s[n] /\ s[m] < s[n]
      BY <2>1, <2>2, <3>1 DEF Increasing
    <3> QED  BY <1>1, <1>a, <3>1, <3>2
  <2>4. n \in 1..Len(t)
    BY <1>1, <2>3
  <2>5. PICK j \in 1..N : s[j] = t[n]
    BY <1>b, <2>4
  <2>6. n <= j
    <3> SUFFICES ASSUME j < n PROVE FALSE
      BY <1>1
    <3>1. j \in 1..(n - 1) /\ j \in DOMAIN t /\ n \in DOMAIN t
      BY <1>1, <2>4
    <3>2. t[j] = t[n] /\ t[j] < t[n]
      BY <2>1, <2>5, <3>1 DEF Increasing
    <3> QED  BY <1>1, <1>a, <3>1, <3>2
  <2>7. t[n] <= t[m]
    <3>1. n \in DOMAIN t /\ m \in DOMAIN t /\ t[n] \in Nat /\ t[m] \in Nat
      BY <1>1, <1>a, <2>4
    <3>2. n < m => t[n] < t[m]
      BY <3>1 DEF Increasing
    <3>3. n = m \/ n < m
      BY <1>1, <2>3
    <3> QED  BY <3>1, <3>2, <3>3
  <2>8. s[n] <= s[j]
    <3>1. n \in DOMAIN s /\ j \in DOMAIN s /\ s[n] \in Nat /\ s[j] \in Nat
      BY <1>1, <1>a
    <3>2. n < j => s[n] < s[j]
      BY <3>1 DEF Increasing
    <3>3. n = j \/ n < j
      BY <1>1, <2>6
    <3> QED  BY <3>1, <3>2, <3>3
  <2>9. s[n] = t[n]
    BY <1>a, <2>2, <2>4, <2>5, <2>7, <2>8
  <2>10. \A k \in 1..n : s[k] = t[k]
    <3>1. \A k \in 1..n : k \in 1..(n - 1) \/ k = n
      BY <1>1
    <3> QED  BY <2>1, <2>9, <3>1
  <2>11. n \in 0..N /\ n <= Len(t)
    BY <1>1, <2>4
  <2> QED  BY <2>10, <2>11
<1>4. N \in Q
  <2> HIDE DEF Q, N
  <2>1. \A n \in 0..N : n \in Q
    BY <1>1, <1>2, <1>3, UpTo
  <2> QED  BY <1>1, <2>1
<1> QED
  BY <1>4

LEMMA OneIncreasingList ==
    ASSUME NEW s \in Seq(Nat), NEW t \in Seq(Nat), Increasing(s), Increasing(t),
           ToSet(s) = ToSet(t)
    PROVE  s = t
<1>1. Len(s) <= Len(t) /\ \A k \in 1..Len(s) : s[k] = t[k]
  BY BeginAlike
<1>2. Len(t) <= Len(s)
  BY BeginAlike
<1> QED
  BY <1>1, <1>2

LEMMA KeptPositions ==
    ASSUME NEW N \in Nat, NEW S
    PROVE  /\ Kept([i \in 1..N |-> i], S) \in Seq(Nat)
           /\ Increasing(Kept([i \in 1..N |-> i], S))
           /\ ToSet(Kept([i \in 1..N |-> i], S)) = (1..N) \cap S
<1> DEFINE s == [i \in 1..N |-> i]
<1>1. s \in Seq(Nat) /\ Len(s) = N
  <2>1. s \in [1..N -> Nat]
    OBVIOUS
  <2> HIDE DEF s
  <2> QED  BY <2>1, SeqOfFunction
<1>2. (\A n \in 1..N : s[n] = n) /\ ToSet(s) = 1..N
  BY DEF ToSet
<1> HIDE DEF s
<1>3. PICK kept : Keeps(kept, s, S, Nat) /\ Kept(s, S) = kept[Len(s)]
  BY <1>1, KeptSteps
<1>4. /\ kept \in [0..N -> Seq(Nat)]
      /\ kept[0] = <<>>
      /\ \A n \in 1..N : kept[n] = IF n \in S THEN Append(kept[n - 1], n) ELSE kept[n - 1]
  BY <1>1, <1>2, <1>3 DEF Keeps
<1> DEFINE Q == {n \in 0..N : Increasing(kept[n]) /\ \A y \in ToSet(kept[n]) : y \in 1..n}
<1>5. 0 \in Q
  <2>1. ToSet(<<>>) = {} /\ Increasing(<<>>)
    BY DEF ToSet, Increasing
  <2> QED  BY <1>4, <2>1
<1>6. ASSUME NEW n \in 1..N, n - 1 \in Q PROVE n \in Q
  <2>1. /\ kept[n - 1] \in Seq(Nat) /\ Increasing(kept[n - 1]) /\ n \in 0..N
        /\ \A y \in ToSet(kept[n - 1]) : y \in 1..(n - 1)
    BY <1>4, <1>6
  <2>2. \A y \in ToSet(kept[n - 1]) : y < n /\ y \in 1..n
    BY <2>1
  <2>3. CASE n \in S
    <3>1. kept[n] = Append(kept[n - 1], n)
      BY <1>4, <2>3
    <3>2. Increasing(kept[n])
      BY <2>1, <2>2, <3>1, AppendedIncreasing
    <3>3. ToSet(kept[n]) = ToSet(kept[n - 1]) \cup {n}
      BY <2>1, <3>1, AppendedSet
    <3> QED  BY <2>1, <2>2, <3>2, <3>3
  <2>4. CASE n \notin S
    BY <1>4, <2>1, <2>2, <2>4
  <2> QED  BY <2>3, <2>4
<1>7. N \in Q
  <2> HIDE DEF Q
  <2>1. \A n \in 0..N : n \in Q
    BY <1>5, <1>6, UpTo
  <2> QED  BY <2>1
<1>8. Increasing(Kept(s, S))
  BY <1>1, <1>3, <1>7
<1>9. Kept(s, S) \in Seq(Nat) /\ ToSet(Kept(s, S)) = (1..N) \cap S
  BY <1>1, <1>2, KeptElements
<1> QED
  BY <1>8, <1>9 DEF s

-----------------------------------------------------------------------------
(* Where steps lead. *)

NamesBetween(steps, i, m) == {k \in (i + 1)..m : IsName(steps[k])}
UpsBetween(steps, i, m) == {k \in (i + 1)..m : steps[k] = ".."}

\* How many more names than ups there are after the first i of m steps.
Balance(steps, i, m) ==
    Cardinality(NamesBetween(steps, i, m)) - Cardinality(UpsBetween(steps, i, m))

LEMMA BalanceTypes ==
    ASSUME NEW steps, NEW i \in Nat, NEW m \in Nat
    PROVE  /\ IsFiniteSet(NamesBetween(steps, i, m)) /\ IsFiniteSet(UpsBetween(steps, i, m))
           /\ Cardinality(NamesBetween(steps, i, m)) \in Nat
           /\ Cardinality(UpsBetween(steps, i, m)) \in Nat
           /\ Balance(steps, i, m) \in Int
<1>1. IsFiniteSet((i + 1)..m)
  BY FS_Interval
<1>2. NamesBetween(steps, i, m) \in SUBSET ((i + 1)..m)
      /\ UpsBetween(steps, i, m) \in SUBSET ((i + 1)..m)
  BY DEF NamesBetween, UpsBetween
<1>3. IsFiniteSet(NamesBetween(steps, i, m)) /\ IsFiniteSet(UpsBetween(steps, i, m))
  BY <1>1, <1>2, FS_Subset
<1>4. Cardinality(NamesBetween(steps, i, m)) \in Nat /\ Cardinality(UpsBetween(steps, i, m)) \in Nat
  BY <1>3, FS_CardinalityType
<1> QED
  BY <1>3, <1>4 DEF Balance

LEMMA RisesIsBalance ==
    ASSUME NEW steps, NEW i \in Nat, NEW m \in Nat
    PROVE  Rises(steps, (i + 1)..m) <=> Balance(steps, i, m) < 0
<1>1. /\ Cardinality(NamesBetween(steps, i, m)) \in Nat
      /\ Cardinality(UpsBetween(steps, i, m)) \in Nat
  BY BalanceTypes
<1>2. Rises(steps, (i + 1)..m) <=>
        Cardinality(UpsBetween(steps, i, m)) > Cardinality(NamesBetween(steps, i, m))
  BY DEF Rises, NamesBetween, UpsBetween
<1> QED
  BY <1>1, <1>2 DEF Balance

LEMMA BalanceOfNothing ==
    ASSUME NEW steps, NEW i \in Nat
    PROVE  Balance(steps, i, i) = 0
<1>1. NamesBetween(steps, i, i) = {} /\ UpsBetween(steps, i, i) = {}
  BY DEF NamesBetween, UpsBetween
<1> QED
  BY <1>1, FS_EmptySet DEF Balance

LEMMA BalanceStep ==
    ASSUME NEW steps, NEW m \in Nat, NEW i \in 0..(m - 1)
    PROVE  /\ IsName(steps[m]) => Balance(steps, i, m) = Balance(steps, i, m - 1) + 1
           /\ steps[m] = ".." => Balance(steps, i, m) = Balance(steps, i, m - 1) - 1
           /\ ~IsName(steps[m]) /\ steps[m] # ".." =>
                Balance(steps, i, m) = Balance(steps, i, m - 1)
<1> DEFINE N == NamesBetween(steps, i, m - 1)
           U == UpsBetween(steps, i, m - 1)
<1>0. i \in Nat /\ m - 1 \in Nat
  OBVIOUS
<1>1. IsFiniteSet(N) /\ IsFiniteSet(U) /\ Cardinality(N) \in Nat /\ Cardinality(U) \in Nat
  BY <1>0, BalanceTypes
<1>2. (i + 1)..m = ((i + 1)..(m - 1)) \cup {m} /\ m \notin (i + 1)..(m - 1)
  OBVIOUS
<1>3. m \notin N /\ m \notin U
  BY <1>2 DEF NamesBetween, UpsBetween
<1>4. NamesBetween(steps, i, m) = IF IsName(steps[m]) THEN N \cup {m} ELSE N
  BY <1>2 DEF NamesBetween
<1>5. UpsBetween(steps, i, m) = IF steps[m] = ".." THEN U \cup {m} ELSE U
  BY <1>2 DEF UpsBetween
<1>6. IsName(steps[m]) => steps[m] # ".."
  BY DEF IsName, Dots
<1>7. Balance(steps, i, m - 1) = Cardinality(N) - Cardinality(U)
  BY DEF Balance
<1> HIDE DEF N, U
<1>8. Cardinality(N \cup {m}) = Cardinality(N) + 1 /\ Cardinality(U \cup {m}) = Cardinality(U) + 1
  BY <1>1, <1>3, FS_AddElement
<1> QED
  BY <1>1, <1>4, <1>5, <1>6, <1>7, <1>8 DEF Balance

\* The names that remain of the first m steps.
Remaining(steps, m) ==
    {i \in 1..m : /\ IsName(steps[i])
                  /\ \A j \in (i + 1)..m : ~Rises(steps, (i + 1)..j)}

\* p are their places, while no step has led outside.
Places(p, steps, m) ==
    /\ p \in Seq(Nat)
    /\ Increasing(p)
    /\ ToSet(p) = Remaining(steps, m)
    /\ \A a \in 1..Len(p) : Balance(steps, p[a], m) = Len(p) - a
    /\ Balance(steps, 0, m) = Len(p)
    /\ \A j \in 1..m : ~Rises(steps, 1..j)

\* What remains after one step more.
LEMMA RemainingStep ==
    ASSUME NEW steps, NEW m \in Nat \ {0}
    PROVE  Remaining(steps, m) =
             {i \in Remaining(steps, m - 1) : ~ (Balance(steps, i, m) < 0)}
                 \cup (IF IsName(steps[m]) THEN {m} ELSE {})
<1>1. ASSUME NEW i \in 1..(m - 1)
      PROVE  /\ (i + 1)..m = ((i + 1)..(m - 1)) \cup {m}
             /\ i \in 1..m /\ i # m
             /\ Rises(steps, (i + 1)..m) <=> Balance(steps, i, m) < 0
  <2>1. i \in Nat /\ m \in Nat
    OBVIOUS
  <2>2. Rises(steps, (i + 1)..m) <=> Balance(steps, i, m) < 0
    BY <2>1, RisesIsBalance
  <2> QED  BY <2>2
<1>2. \A j : ~ (j \in (m + 1)..m)
  OBVIOUS
<1>3. 1..m = (1..(m - 1)) \cup {m} /\ m \notin 1..(m - 1)
  OBVIOUS
<1>4. \A i \in 1..(m - 1) : i \in Remaining(steps, m) <=>
         i \in Remaining(steps, m - 1) /\ ~ (Balance(steps, i, m) < 0)
  BY <1>1 DEF Remaining
<1>5. m \in Remaining(steps, m) <=> IsName(steps[m])
  BY <1>2, <1>3 DEF Remaining
<1>6. Remaining(steps, m) \subseteq 1..m /\ Remaining(steps, m - 1) \subseteq 1..(m - 1)
  BY DEF Remaining
<1> QED
  BY <1>3, <1>4, <1>5, <1>6

\* What holds of each of the places.
LEMMA PlacesTypes ==
    ASSUME NEW steps, NEW m \in Nat, NEW p, Places(p, steps, m)
    PROVE  /\ Len(p) \in Nat /\ DOMAIN p = 1..Len(p)
           /\ \A a \in 1..Len(p) : p[a] \in 1..m
<1>1. p \in Seq(Nat) /\ Len(p) \in Nat /\ DOMAIN p = 1..Len(p)
  BY DEF Places
<1>2. \A a \in 1..Len(p) : p[a] \in Remaining(steps, m)
  BY <1>1 DEF Places, ToSet
<1> QED
  BY <1>1, <1>2 DEF Remaining

LEMMA OutsideStep ==
    ASSUME NEW steps, NEW m \in Nat \ {0}, \A j \in 1..(m - 1) : ~Rises(steps, 1..j)
    PROVE  (\A j \in 1..m : ~Rises(steps, 1..j)) <=> ~ (Balance(steps, 0, m) < 0)
<1>1. Rises(steps, (0 + 1)..m) <=> Balance(steps, 0, m) < 0
  BY RisesIsBalance
<1>2. 0 + 1 = 1 /\ 1..m = (1..(m - 1)) \cup {m}
  OBVIOUS
<1> QED
  BY <1>1, <1>2

LEMMA PlacesName ==
    ASSUME NEW steps, NEW m \in Nat \ {0}, NEW p, Places(p, steps, m - 1), IsName(steps[m])
    PROVE  Places(Append(p, m), steps, m)
<1> DEFINE r == Append(p, m)
           n == Len(p)
<1>0. m - 1 \in Nat /\ m \in Nat
  OBVIOUS
<1>1. p \in Seq(Nat) /\ n \in Nat /\ DOMAIN p = 1..n /\ \A a \in 1..n : p[a] \in 1..(m - 1)
  BY <1>0, PlacesTypes DEF Places
<1>2. r \in Seq(Nat) /\ Len(r) = n + 1 /\ r[n + 1] = m /\ \A a \in 1..n : r[a] = p[a]
  BY <1>1
<1> HIDE DEF r
<1>3. Increasing(r)
  <2>1. \A y \in ToSet(p) : y < m
    BY <1>1 DEF ToSet
  <2> QED  BY <1>1, <2>1, AppendedIncreasing DEF Places, r
<1>4. ASSUME NEW a \in 1..n
      PROVE  Balance(steps, p[a], m) = n + 1 - a
  <2>1. p[a] \in 0..(m - 1)
    BY <1>1
  <2>2. Balance(steps, p[a], m - 1) = n - a
    BY DEF Places
  <2>3. Balance(steps, p[a], m) = Balance(steps, p[a], m - 1) + 1
    BY <2>1, BalanceStep
  <2> QED  BY <1>1, <2>2, <2>3
<1>5. Balance(steps, 0, m) = n + 1
  <2>1. Balance(steps, 0, m - 1) = n
    BY DEF Places
  <2>2. 0 \in 0..(m - 1)
    OBVIOUS
  <2>3. Balance(steps, 0, m) = Balance(steps, 0, m - 1) + 1
    BY <2>2, BalanceStep
  <2> QED  BY <1>1, <2>1, <2>3
<1>6. \A a \in 1..Len(r) : Balance(steps, r[a], m) = Len(r) - a
  <2>1. Balance(steps, m, m) = 0
    BY BalanceOfNothing
  <2>2. \A a \in 1..(n + 1) : a \in 1..n \/ a = n + 1
    BY <1>1
  <2>3. n + 1 - (n + 1) = 0
    BY <1>1
  <2> QED  BY <1>2, <1>4, <2>1, <2>2, <2>3
<1>7. ToSet(r) = Remaining(steps, m)
  <2>1. ToSet(r) = ToSet(p) \cup {m}
    BY <1>1, AppendedSet DEF r
  <2>2. ASSUME NEW i \in ToSet(p) PROVE ~ (Balance(steps, i, m) < 0)
    <3>1. PICK a \in 1..n : i = p[a]
      BY <1>1 DEF ToSet
    <3>2. n + 1 - a >= 0
      BY <1>1
    <3> QED  BY <1>4, <3>1, <3>2
  <2>3. ToSet(p) = Remaining(steps, m - 1)
    BY DEF Places
  <2> QED  BY <2>1, <2>2, <2>3, RemainingStep
<1>8. \A j \in 1..m : ~Rises(steps, 1..j)
  <2>1. ~ (Balance(steps, 0, m) < 0)
    BY <1>1, <1>5
  <2> QED  BY <2>1, OutsideStep DEF Places
<1> QED
  BY <1>2, <1>3, <1>5, <1>6, <1>7, <1>8 DEF Places, r

LEMMA PlacesDot ==
    ASSUME NEW steps, NEW m \in Nat \ {0}, NEW p, Places(p, steps, m - 1),
           ~IsName(steps[m]), steps[m] # ".."
    PROVE  Places(p, steps, m)
<1>0. m - 1 \in Nat /\ m \in Nat
  OBVIOUS
<1>1. p \in Seq(Nat) /\ Len(p) \in Nat /\ DOMAIN p = 1..Len(p)
      /\ \A a \in 1..Len(p) : p[a] \in 1..(m - 1)
  BY <1>0, PlacesTypes DEF Places
<1>2. \A i \in 0..(m - 1) : Balance(steps, i, m) = Balance(steps, i, m - 1)
  BY BalanceStep
<1>3. (\A a \in 1..Len(p) : p[a] \in 0..(m - 1)) /\ 0 \in 0..(m - 1)
  BY <1>1
<1>4. \A a \in 1..Len(p) : Balance(steps, p[a], m) = Len(p) - a
  BY <1>2, <1>3 DEF Places
<1>5. Balance(steps, 0, m) = Len(p)
  BY <1>2, <1>3 DEF Places
<1>6. ToSet(p) = Remaining(steps, m)
  <2>1. ASSUME NEW i \in ToSet(p) PROVE ~ (Balance(steps, i, m) < 0)
    <3>1. PICK a \in 1..Len(p) : i = p[a]
      BY <1>1 DEF ToSet
    <3>2. Len(p) - a >= 0
      BY <1>1
    <3> QED  BY <1>4, <3>1, <3>2
  <2>2. ToSet(p) = Remaining(steps, m - 1)
    BY DEF Places
  <2> QED  BY <2>1, <2>2, RemainingStep
<1>7. \A j \in 1..m : ~Rises(steps, 1..j)
  <2>1. ~ (Balance(steps, 0, m) < 0)
    BY <1>1, <1>5
  <2> QED  BY <2>1, OutsideStep DEF Places
<1> QED
  BY <1>4, <1>5, <1>6, <1>7 DEF Places

LEMMA PlacesUp ==
    ASSUME NEW steps, NEW m \in Nat \ {0}, NEW p, Places(p, steps, m - 1), steps[m] = ".."
    PROVE  /\ p = <<>> => Rises(steps, 1..m)
           /\ p # <<>> => Places(Front(p), steps, m)
<1> DEFINE n == Len(p)
           r == Front(p)
<1>0. m - 1 \in Nat /\ m \in Nat /\ ~IsName(steps[m])
  BY DEF IsName, Dots
<1>1. p \in Seq(Nat) /\ n \in Nat /\ DOMAIN p = 1..n /\ \A a \in 1..n : p[a] \in 1..(m - 1)
  BY <1>0, PlacesTypes DEF Places
<1>2. \A i \in 0..(m - 1) : Balance(steps, i, m) = Balance(steps, i, m - 1) - 1
  BY BalanceStep
<1>3. (\A a \in 1..n : p[a] \in 0..(m - 1)) /\ 0 \in 0..(m - 1)
  BY <1>1
<1>4. \A a \in 1..n : Balance(steps, p[a], m) = n - a - 1
  BY <1>2, <1>3 DEF Places
<1>5. Balance(steps, 0, m) = n - 1
  BY <1>2, <1>3 DEF Places
<1>6. ASSUME p = <<>> PROVE Rises(steps, 1..m)
  <2>1. Balance(steps, 0, m) < 0
    BY <1>5, <1>6
  <2>2. Rises(steps, (0 + 1)..m)
    BY <2>1, RisesIsBalance
  <2> QED  BY <2>2
<1>7. ASSUME p # <<>> PROVE Places(r, steps, m)
  <2>1. n \in Nat \ {0}
    BY <1>1, <1>7
  <2>2. r \in Seq(Nat) /\ Len(r) = n - 1 /\ \A a \in 1..(n - 1) : r[a] = p[a]
    BY <1>1, <2>1 DEF Front
  <2> HIDE DEF r
  <2>3. DOMAIN r = 1..(n - 1) /\ 1..n = (1..(n - 1)) \cup {n} /\ n - 1 \in Nat
    BY <2>1, <2>2
  <2>4. \A a \in 1..n : a \in DOMAIN p
    BY <1>1
  <2>5. Increasing(r)
    BY <2>2, <2>3, <2>4 DEF Places, Increasing
  <2>6. ToSet(r) = ToSet(p) \ {p[n]}
    <3>1. \A a \in 1..(n - 1) : p[a] < p[n]
      <4>1. n \in DOMAIN p /\ \A a \in 1..(n - 1) : a \in DOMAIN p /\ a < n
        BY <1>1, <2>1
      <4>2. \A i, j \in DOMAIN p : i < j => p[i] < p[j]
        BY DEF Places, Increasing
      <4> QED  BY <4>1, <4>2
    <3>2. \A a \in 1..(n - 1) : p[a] # p[n]
      BY <1>1, <2>1, <2>3, <3>1
    <3>3. ToSet(r) = {p[a] : a \in 1..(n - 1)}
      BY <2>2, <2>3 DEF ToSet
    <3>4. ToSet(p) = {p[a] : a \in 1..n}
      BY <1>1 DEF ToSet
    <3> QED  BY <2>3, <3>2, <3>3, <3>4
  <2>7. ToSet(r) = Remaining(steps, m)
    <3>1. ASSUME NEW i \in ToSet(p) PROVE Balance(steps, i, m) < 0 <=> i = p[n]
      <4>1. PICK a \in 1..n : i = p[a]
        BY <1>1 DEF ToSet
      <4>2. Balance(steps, i, m) = n - a - 1
        BY <1>4, <4>1
      <4>3. CASE a = n
        BY <1>1, <4>1, <4>2, <4>3
      <4>4. CASE a # n
        <5>1. n \in Nat /\ n \in 1..n /\ a < n
          <6> HIDE DEF n
          <6> QED  BY <2>1, <4>4
        <5>2. n \in DOMAIN p /\ a \in DOMAIN p
          BY <1>1, <5>1
        <5>3. \A x, y \in DOMAIN p : x < y => p[x] < p[y]
          BY DEF Places, Increasing
        <5>4. p[a] < p[n]
          BY <5>1, <5>2, <5>3
        <5>5. p[a] \in Nat /\ p[n] \in Nat
          BY <1>1, <5>1
        <5>6. ~ (n - a - 1 < 0) /\ p[a] # p[n]
          BY <5>1, <5>4, <5>5
        <5> QED  BY <4>1, <4>2, <5>6
      <4> QED  BY <4>3, <4>4
    <3>2. ToSet(p) = Remaining(steps, m - 1)
      BY DEF Places
    <3> QED  BY <1>0, <2>6, <3>1, <3>2, RemainingStep
  <2>8. \A a \in 1..Len(r) : Balance(steps, r[a], m) = Len(r) - a
    BY <1>1, <1>4, <2>1, <2>2
  <2>9. \A j \in 1..m : ~Rises(steps, 1..j)
    <3>1. ~ (Balance(steps, 0, m) < 0)
      BY <1>5, <2>1
    <3> QED  BY <3>1, OutsideStep DEF Places
  <2> QED  BY <1>5, <2>2, <2>5, <2>7, <2>8, <2>9 DEF Places
<1> QED
  BY <1>6, <1>7

-----------------------------------------------------------------------------
(* The resolver. *)

ResolverStates(T) ==
    [error : {"none", "OutOfBoundsURL"}, path : Seq(T), ends : BOOLEAN]

\* What it goes through, component by component.
Resolves(resolve, front, components, T) ==
    /\ resolve \in [0..Len(components) -> ResolverStates(T)]
    /\ resolve[0] = [error |-> "none", path |-> front, ends |-> FALSE]
    /\ \A n \in 1..Len(components) :
         resolve[n] = ResolveComponent(resolve[n - 1], components[n])

LEMMA FrontOf ==
    ASSUME NEW T, NEW s \in Seq(T), s # <<>>
    PROVE  /\ Front(s) \in Seq(T) /\ Len(Front(s)) = Len(s) - 1
           /\ \A n \in 1..(Len(s) - 1) : Front(s)[n] = s[n]
           /\ Last(s) = s[Len(s)]
<1>1. Len(s) \in Nat \ {0}
  OBVIOUS
<1>2. SubSeq(s, 1, Len(s) - 1) \in Seq(T)
  BY <1>1
<1>3. Len(SubSeq(s, 1, Len(s) - 1)) = Len(s) - 1
  <2> DEFINE m == Len(s) - 1
  <2>1. m \in Nat
    BY <1>1
  <2> HIDE DEF m
  <2>2. Len(SubSeq(s, 1, m)) = m
    BY <2>1
  <2> QED  BY <2>2 DEF m
<1>4. ASSUME NEW n \in 1..(Len(s) - 1) PROVE SubSeq(s, 1, Len(s) - 1)[n] = s[n]
  <2> DEFINE m == Len(s) - 1
  <2>1. m \in 1..Len(s) /\ n \in 1..m
    BY <1>1
  <2> HIDE DEF m
  <2>2. SubSeq(s, 1, m)[n] = s[n]
    BY <2>1
  <2> QED  BY <2>2 DEF m
<1> QED
  BY <1>2, <1>3, <1>4 DEF Front, Last

LEMMA ResolveComponentTypes ==
    ASSUME NEW T, NEW r \in ResolverStates(T), NEW c \in T
    PROVE  ResolveComponent(r, c) \in ResolverStates(T)
<1>1. r.error \in {"none", "OutOfBoundsURL"} /\ r.path \in Seq(T) /\ r.ends \in BOOLEAN
  BY DEF ResolverStates
<1>2. CASE r.error # "none"
  <2>1. ResolveComponent(r, c) = r
    BY <1>2 DEF ResolveComponent
  <2> QED  BY <2>1
<1>3. CASE r.error = "none" /\ c = "."
  <2>1. ResolveComponent(r, c) = [r EXCEPT !.ends = TRUE]
    BY <1>3 DEF ResolveComponent, Dots
  <2> QED  BY <2>1 DEF ResolverStates
<1>4. CASE r.error = "none" /\ c = ".." /\ r.path \in {<<>>, EmptyPath}
  <2>1. ResolveComponent(r, c) = [r EXCEPT !.error = "OutOfBoundsURL"]
    BY <1>4 DEF ResolveComponent, Dots
  <2> QED  BY <2>1 DEF ResolverStates
<1>5. CASE r.error = "none" /\ c = ".." /\ r.path \notin {<<>>, EmptyPath}
  <2>1. ResolveComponent(r, c) = [r EXCEPT !.path = Front(@), !.ends = TRUE]
    BY <1>5 DEF ResolveComponent, Dots
  <2>2. Front(r.path) \in Seq(T)
    BY <1>1, <1>5, FrontOf
  <2> QED  BY <2>1, <2>2 DEF ResolverStates
<1>6. CASE r.error = "none" /\ c \notin {".", ".."}
  <2>1. ResolveComponent(r, c) = [r EXCEPT !.path = Append(@, c), !.ends = FALSE]
    BY <1>6 DEF ResolveComponent, Dots
  <2>2. Append(r.path, c) \in Seq(T)
    BY <1>1
  <2> QED  BY <2>1, <2>2 DEF ResolverStates
<1> QED
  BY <1>2, <1>3, <1>4, <1>5, <1>6

\* What a relative link becomes of the state in which the loop ends.
Outcome(r) ==
    IF r.error # "none" THEN Unresolved(r.error)
    ELSE IF r.path = <<>> THEN Resolved(EmptyPath)
    ELSE Resolved(IF r.ends THEN Append(r.path, "") ELSE r.path)

LEMMA ResolveSteps ==
    ASSUME NEW T, NEW front \in Seq(T), NEW components \in Seq(T)
    PROVE  \E f : /\ Resolves(f, front, components, T)
                  /\ LET resolve[n \in 0..Len(components)] ==
                           IF n = 0 THEN [error |-> "none", path |-> front, ends |-> FALSE]
                           ELSE ResolveComponent(resolve[n - 1], components[n])
                     IN  f[Len(components)] = resolve[Len(components)]
<1> DEFINE N == Len(components)
           X == ResolverStates(T)
           b == [error |-> "none", path |-> front, ends |-> FALSE]
           G == [p \in (1..N) \X X |-> ResolveComponent(p[2], components[p[1]])]
           F(k) == [n \in 0..N |-> IF n = 0 THEN b
                                   ELSE ResolveComponent(k[n - 1], components[n])]
           resolve == CHOOSE k : k = F(k)
<1>1. N \in Nat /\ \A n \in 1..N : components[n] \in T
  BY SeqElements
<1>2. b \in X
  BY DEF ResolverStates
<1> HIDE DEF X, b
<1>4. IsStep(G, N, X)
  <2>1. ASSUME NEW n \in 1..N, NEW x \in X PROVE ResolveComponent(x, components[n]) \in X
    BY <1>1, ResolveComponentTypes DEF X
  <2> HIDE DEF N
  <2> QED  BY <2>1 DEF IsStep
<1>5. PICK f : Follows(f, N, X, b, G)
  <2> HIDE DEF G, N, F
  <2>1. N \in Nat
    BY <1>1
  <2> QED  BY <1>2, <1>4, <2>1, RecursionExists
<1>6. /\ f \in [0..N -> X] /\ f[0] = b
      /\ \A n \in 1..N : f[n] = ResolveComponent(f[n - 1], components[n])
  <2>1. f \in [0..N -> X] /\ f[0] = b /\ \A n \in 1..N : f[n] = G[<<n, f[n - 1]>>]
    BY <1>5 DEF Follows
  <2>2. ASSUME NEW n \in 1..N PROVE f[n] = ResolveComponent(f[n - 1], components[n])
    <3>1. n - 1 \in 0..N
      BY <1>1
    <3> HIDE DEF N
    <3>2. f[n - 1] \in X
      BY <2>1, <3>1
    <3> QED  BY <2>1, <3>2
  <2> QED  BY <2>1, <2>2
<1>7. f = F(f)
  <2>1. \A n \in 0..N : n # 0 => n \in 1..N
    BY <1>1
  <2> HIDE DEF N
  <2>2. \A n \in 0..N : f[n] = IF n = 0 THEN b ELSE ResolveComponent(f[n - 1], components[n])
    BY <1>6, <2>1
  <2> QED  BY <1>6, <2>2
<1>8. resolve = F(resolve)
  <2>1. \E k : k = F(k)
    BY <1>7
  <2> HIDE DEF F, N
  <2> QED  BY <2>1, Zenon
<1> HIDE DEF G
<1>9. /\ resolve[0] = b
      /\ \A n \in 1..N : resolve[n] = ResolveComponent(resolve[n - 1], components[n])
  <2>1. 0 \in 0..N /\ \A n \in 1..N : n \in 0..N /\ n # 0
    BY <1>1
  <2> HIDE DEF N, F, resolve
  <2>2. resolve[0] = F(resolve)[0] /\ \A n \in 1..N : resolve[n] = F(resolve)[n]
    BY <1>8
  <2> QED  BY <2>1, <2>2 DEF F
<1>12. resolve[N] = f[N]
  <2> HIDE DEF resolve, F
  <2> DEFINE Q == {n \in 0..N : resolve[n] = f[n]}
  <2>1. 0 \in Q
    BY <1>1, <1>6, <1>9
  <2>2. ASSUME NEW n \in 1..N, n - 1 \in Q PROVE n \in Q
    <3>1. n \in 0..N
      BY <1>1
    <3> HIDE DEF N
    <3> QED  BY <1>6, <1>9, <2>2, <3>1
  <2>3. N \in Nat /\ N \in 0..N
    BY <1>1
  <2> HIDE DEF Q, N
  <2>4. \A n \in 0..N : n \in Q
    BY <2>1, <2>2, <2>3, UpTo
  <2> QED  BY <2>3, <2>4 DEF Q
<1>13. Resolves(f, front, components, T)
  BY <1>6 DEF Resolves, X, b
<1>14. f[N] = resolve[N]
  <2> HIDE DEF resolve, F
  <2> QED  BY <1>12
<1> QED
  BY <1>13, <1>14, Zenon DEF b

LEMMA ResolverOutcome ==
    ASSUME NEW T, NEW url, NEW zimPath,
           StripFragmentAndOrSearchComponent(url) # EmptyPath,
           Head(StripFragmentAndOrSearchComponent(url)) # "",
           Front(zimPath) \in Seq(T),
           DecodeUrl(StripFragmentAndOrSearchComponent(url)) \in Seq(T)
    PROVE  LET components == DecodeUrl(StripFragmentAndOrSearchComponent(url))
           IN  \E f : /\ Resolves(f, Front(zimPath), components, T)
                      /\ ResolveLinkTarget(url, zimPath) = Outcome(f[Len(components)])
<1> DEFINE path == StripFragmentAndOrSearchComponent(url)
           components == DecodeUrl(path)
           resolve[n \in 0..Len(components)] ==
             IF n = 0 THEN [error |-> "none", path |-> Front(zimPath), ends |-> FALSE]
             ELSE ResolveComponent(resolve[n - 1], components[n])
           r == resolve[Len(components)]
<1>1. ResolveLinkTarget(url, zimPath) =
        CASE path = EmptyPath -> Resolved(zimPath)
          [] path # EmptyPath /\ Head(path) = "" -> Unresolved("AbsolutePathURL")
          [] OTHER ->
                CASE r.error # "none" -> Unresolved(r.error)
                  [] r.error = "none" /\ r.path = <<>> -> Resolved(EmptyPath)
                  [] r.error = "none" /\ r.path # <<>> ->
                        Resolved(IF r.ends THEN Append(r.path, "") ELSE r.path)
  BY Zenon DEF ResolveLinkTarget
<1>2. \E f : Resolves(f, Front(zimPath), components, T) /\ f[Len(components)] = r
  BY ResolveSteps, Zenon
<1> HIDE DEF r, components, path
<1>3. ResolveLinkTarget(url, zimPath) = Outcome(r)
  BY <1>1 DEF Outcome, path
<1> QED
  BY <1>2, <1>3 DEF components, path

NamesAt(p, steps) == [a \in 1..Len(p) |-> steps[p[a]]]

\* The state r of the resolver after m steps.
Walked(r, steps, m) ==
    \/ r.error = "OutOfBoundsURL" /\ \E j \in 1..m : Rises(steps, 1..j)
    \/ r.error = "none" /\ \E p : Places(p, steps, m) /\ r.path = NamesAt(p, steps)

LEMMA Between ==
    ASSUME NEW n \in Nat, NEW m \in 1..n
    PROVE  m \in Nat /\ m - 1 \in Nat /\ m - 1 \in 0..n /\ m # 0 /\ m \in 1..m /\ 1..(m - 1) \subseteq 1..m
  OBVIOUS

LEMMA AppendOf ==
    ASSUME NEW T, NEW s \in Seq(T), NEW x \in T
    PROVE  /\ Append(s, x) \in Seq(T) /\ Len(Append(s, x)) = Len(s) + 1
           /\ Append(s, x)[Len(s) + 1] = x
           /\ \A n \in 1..Len(s) : Append(s, x)[n] = s[n]
  OBVIOUS

LEMMA SameSequence ==
    ASSUME NEW T, NEW s \in Seq(T), NEW t \in Seq(T), Len(s) = Len(t),
           \A n \in 1..Len(s) : s[n] = t[n]
    PROVE  s = t
  OBVIOUS

LEMMA NamesAtTypes ==
    ASSUME NEW T, NEW steps \in Seq(T), NEW m \in 0..Len(steps), NEW p, Places(p, steps, m)
    PROVE  /\ NamesAt(p, steps) \in Seq(T) /\ Len(NamesAt(p, steps)) = Len(p)
           /\ \A a \in 1..Len(p) : NamesAt(p, steps)[a] = steps[p[a]] /\ IsName(steps[p[a]])
           /\ NamesAt(p, steps) = <<>> <=> p = <<>>
<1> DEFINE N == Len(steps)
           n == Len(p)
           names == NamesAt(p, steps)
<1>0. N \in Nat /\ \A i \in 1..N : steps[i] \in T
  BY SeqElements
<1> HIDE DEF N
<1>a. m \in Nat /\ 1..m \subseteq 1..N
  BY <1>0 DEF N
<1>1. /\ p \in Seq(Nat) /\ n \in Nat /\ DOMAIN p = 1..n
      /\ \A a \in 1..n : p[a] \in 1..m
  BY <1>a, PlacesTypes DEF Places
<1>3. \A a \in 1..n : steps[p[a]] \in T
  BY <1>0, <1>a, <1>1
<1>6. \A a \in 1..n : p[a] \in Remaining(steps, m)
  BY <1>1 DEF Places, ToSet
<1>b. names = [a \in 1..n |-> steps[p[a]]]
  BY DEF NamesAt
<1>c. p = <<>> <=> n = 0
  BY <1>1
<1> HIDE DEF n, names
<1>4. names \in [1..n -> T]
  BY <1>3, <1>b
<1>5. names \in Seq(T) /\ Len(names) = n
  BY <1>1, <1>4, SeqOfFunction
<1>7. \A a \in 1..n : names[a] = steps[p[a]] /\ IsName(steps[p[a]])
  BY <1>6, <1>b DEF Remaining
<1>8. names = <<>> <=> n = 0
  BY <1>5
<1> QED
  BY <1>5, <1>7, <1>8, <1>c DEF n, names

LEMMA WalkFurther ==
    ASSUME NEW T, NEW steps \in Seq(T), NEW m \in 1..Len(steps),
           NEW r \in ResolverStates(T), Walked(r, steps, m - 1),
           IsName(steps[m]) \/ steps[m] \in Dots
    PROVE  LET next == ResolveComponent(r, steps[m])
           IN  /\ Walked(next, steps, m)
               /\ next.error = "none" => (next.ends <=> steps[m] \in Dots)
<1> DEFINE c == steps[m]
           next == ResolveComponent(r, c)
<1>0. m \in Nat \ {0} /\ m - 1 \in 0..Len(steps) /\ c \in T /\ m - 1 \in Nat
      /\ m \in 1..m /\ 1..(m - 1) \subseteq 1..m
  <2>1. Len(steps) \in Nat /\ c \in T
    BY SeqElements
  <2> HIDE DEF c
  <2> QED  BY <2>1, Between
<1>1. r.error \in {"none", "OutOfBoundsURL"} /\ r.path \in Seq(T)
  BY DEF ResolverStates
<1>2. CASE r.error = "OutOfBoundsURL"
  <2>1. next = r
    BY <1>2 DEF ResolveComponent
  <2>2. PICK j \in 1..(m - 1) : Rises(steps, 1..j)
    BY <1>2 DEF Walked
  <2>3. j \in 1..m
    BY <1>0
  <2> HIDE DEF next
  <2>4. Walked(next, steps, m) /\ next.error # "none"
    BY <1>2, <2>1, <2>2, <2>3 DEF Walked
  <2> QED  BY <2>4 DEF next
<1>3. CASE r.error = "none"
  <2>1. PICK p : Places(p, steps, m - 1) /\ r.path = NamesAt(p, steps)
    BY <1>3 DEF Walked
  <2>a. p \in Seq(Nat) /\ Len(p) \in Nat
    BY <1>0, <2>1, PlacesTypes DEF Places
  <2>2. /\ Len(r.path) = Len(p)
        /\ \A a \in 1..Len(p) : r.path[a] = steps[p[a]] /\ IsName(steps[p[a]])
        /\ r.path = <<>> <=> p = <<>>
    BY <1>0, <2>1, NamesAtTypes
  <2>3. CASE IsName(c)
    <3>1. next = [r EXCEPT !.path = Append(@, c), !.ends = FALSE]
      BY <1>3, <2>3 DEF ResolveComponent, IsName, Dots
    <3>2. next.error = "none" /\ next.path = Append(r.path, c) /\ next.ends = FALSE
      BY <1>3, <3>1 DEF ResolverStates
    <3>3. Places(Append(p, m), steps, m)
      BY <1>0, <2>1, <2>3, PlacesName
    <3>4. Append(r.path, c) = NamesAt(Append(p, m), steps)
      <4> DEFINE q == Append(p, m)
                 u == Append(r.path, c)
                 n == Len(p)
      <4>1. q \in Seq(Nat) /\ Len(q) = n + 1 /\ q[n + 1] = m /\ \A a \in 1..n : q[a] = p[a]
        BY <1>0, <2>a, AppendOf
      <4>2. u \in Seq(T) /\ Len(u) = n + 1 /\ u[n + 1] = c /\ \A a \in 1..n : u[a] = r.path[a]
        <5> HIDE DEF c
        <5> QED  BY <1>0, <1>1, <2>2, AppendOf
      <4>3. NamesAt(q, steps) \in Seq(T) /\ Len(NamesAt(q, steps)) = Len(q)
            /\ \A a \in 1..Len(q) : NamesAt(q, steps)[a] = steps[q[a]]
        <5>1. m \in 0..Len(steps)
          <6>1. Len(steps) \in Nat
            BY SeqElements
          <6> QED  BY <6>1
        <5>2. Places(q, steps, m)
          BY <3>3
        <5> HIDE DEF q
        <5> QED  BY <5>1, <5>2, NamesAtTypes
      <4> HIDE DEF q, u
      <4>4. n \in Nat /\ \A a \in 1..n : u[a] = steps[q[a]]
        BY <2>a, <2>2, <4>1, <4>2
      <4> HIDE DEF n
      <4>5. \A a \in 1..(n + 1) : a \in 1..n \/ a = n + 1
        BY <4>4
      <4>6. \A a \in 1..(n + 1) : u[a] = steps[q[a]]
        BY <4>1, <4>2, <4>4, <4>5
      <4>7. u = NamesAt(q, steps)
        BY <4>1, <4>2, <4>3, <4>6, SameSequence
      <4> QED  BY <4>7 DEF q, u
    <3>5. ~ (c \in Dots)
      BY <2>3 DEF IsName
    <3> HIDE DEF next, c
    <3>6. Walked(next, steps, m)
      BY <3>2, <3>3, <3>4 DEF Walked
    <3> QED  BY <3>2, <3>5, <3>6 DEF next, c
  <2>4. CASE c = "."
    <3>1. next = [r EXCEPT !.ends = TRUE]
      BY <1>3, <2>4 DEF ResolveComponent, Dots
    <3>2. next.error = "none" /\ next.path = r.path /\ next.ends = TRUE
      BY <1>3, <3>1 DEF ResolverStates
    <3>3. Places(p, steps, m)
      BY <1>0, <2>1, <2>4, PlacesDot DEF IsName, Dots
    <3>5. c \in Dots
      BY <2>4 DEF Dots
    <3> HIDE DEF next, c
    <3>6. Walked(next, steps, m)
      BY <2>1, <3>2, <3>3 DEF Walked
    <3> QED  BY <3>2, <3>5, <3>6 DEF next, c
  <2>5. CASE c = ".." /\ p = <<>>
    <3>1. next = [r EXCEPT !.error = "OutOfBoundsURL"]
      BY <1>3, <2>2, <2>5 DEF ResolveComponent, Dots
    <3>2. next.error = "OutOfBoundsURL"
      BY <3>1 DEF ResolverStates
    <3>3. Rises(steps, 1..m)
      BY <1>0, <2>1, <2>5, PlacesUp
    <3> HIDE DEF next, c
    <3>4. Walked(next, steps, m)
      BY <1>0, <3>2, <3>3 DEF Walked
    <3> QED  BY <3>2, <3>4 DEF next, c
  <2>6. CASE c = ".." /\ p # <<>>
    <3> DEFINE n == Len(p)
    <3>0. n \in Nat \ {0}
      BY <2>a, <2>6
    <3>1. r.path # <<>> /\ r.path # EmptyPath
      <4>1. r.path[1] # ""
        <5>1. 1 \in 1..n
          <6> HIDE DEF n
          <6> QED  BY <3>0
        <5>2. r.path[1] = steps[p[1]] /\ IsName(steps[p[1]])
          BY <2>2, <5>1
        <5> QED  BY <5>2 DEF IsName
      <4>2. r.path # EmptyPath
        <5>1. EmptyPath[1] = ""
          BY DEF EmptyPath
        <5> QED  BY <4>1, <5>1
      <4> QED  BY <2>2, <2>6, <4>2
    <3>2. next = [r EXCEPT !.path = Front(@), !.ends = TRUE]
      BY <1>3, <2>6, <3>1 DEF ResolveComponent, Dots
    <3>3. next.error = "none" /\ next.path = Front(r.path) /\ next.ends = TRUE
      BY <1>3, <3>2 DEF ResolverStates
    <3>4. Places(Front(p), steps, m)
      BY <1>0, <2>1, <2>6, PlacesUp
    <3>5. Front(r.path) = NamesAt(Front(p), steps)
      <4> DEFINE q == Front(p)
                 u == Front(r.path)
      <4>1. q \in Seq(Nat) /\ Len(q) = n - 1 /\ \A a \in 1..(n - 1) : q[a] = p[a]
        BY <2>a, <2>6, FrontOf
      <4>2. u \in Seq(T) /\ Len(u) = n - 1 /\ \A a \in 1..(n - 1) : u[a] = r.path[a]
        BY <1>1, <2>2, <3>1, FrontOf
      <4>3. NamesAt(q, steps) \in Seq(T) /\ Len(NamesAt(q, steps)) = Len(q)
            /\ \A a \in 1..Len(q) : NamesAt(q, steps)[a] = steps[q[a]]
        <5>1. m \in 0..Len(steps)
          <6>1. Len(steps) \in Nat
            BY SeqElements
          <6> QED  BY <6>1
        <5>2. Places(q, steps, m)
          BY <3>4
        <5> HIDE DEF q
        <5> QED  BY <5>1, <5>2, NamesAtTypes
      <4> HIDE DEF q, u, n
      <4>4. 1..(n - 1) \subseteq 1..n
        BY <3>0
      <4>5. \A a \in 1..n : r.path[a] = steps[p[a]]
        BY <2>2 DEF n
      <4>6. \A a \in 1..(n - 1) : u[a] = steps[q[a]]
        BY <4>1, <4>2, <4>4, <4>5
      <4>7. Len(u) = Len(NamesAt(q, steps))
            /\ \A a \in 1..Len(u) : u[a] = NamesAt(q, steps)[a]
        BY <4>1, <4>2, <4>3, <4>6
      <4>8. u = NamesAt(q, steps)
        BY <4>2, <4>3, <4>7, SameSequence
      <4> QED  BY <4>8 DEF q, u
    <3>6. c \in Dots
      BY <2>6 DEF Dots
    <3> HIDE DEF next, c
    <3>7. Walked(next, steps, m)
      BY <3>3, <3>4, <3>5 DEF Walked
    <3> QED  BY <3>3, <3>6, <3>7 DEF next, c
  <2>7. IsName(c) \/ c = "." \/ c = ".."
    BY DEF IsName, Dots
  <2> QED  BY <2>3, <2>4, <2>5, <2>6, <2>7
<1> QED
  BY <1>1, <1>2, <1>3

-----------------------------------------------------------------------------
(* From the directory of the entry to the end of the link. *)

LEMMA NoPlaces ==
    ASSUME NEW steps
    PROVE  Places(<<>>, steps, 0)
<1>1. <<>> \in Seq(Nat) /\ ToSet(<<>>) = {} /\ Increasing(<<>>) /\ Len(<<>>) = 0
  BY DEF ToSet, Increasing
<1>2. Remaining(steps, 0) = {}
  BY DEF Remaining
<1>3. Balance(steps, 0, 0) = 0
  BY BalanceOfNothing
<1>4. \A a : ~ (a \in 1..0)
  OBVIOUS
<1> QED
  BY <1>1, <1>2, <1>3, <1>4 DEF Places

\* All places of the directory are kept.
LEMMA PlacesOfNames ==
    ASSUME NEW steps, NEW F \in Nat, \A i \in 1..F : IsName(steps[i])
    PROVE  Places([i \in 1..F |-> i], steps, F)
<1> DEFINE id(m) == [i \in 1..m |-> i]
           Q == {m \in 0..F : Places(id(m), steps, m)}
<1>1. 0 \in Q
  <2>1. id(0) = <<>>
    OBVIOUS
  <2> QED  BY <2>1, NoPlaces
<1>2. ASSUME NEW m \in 1..F, m - 1 \in Q PROVE m \in Q
  <2>1. m \in Nat \ {0} /\ m \in 0..F /\ m - 1 \in Nat
    OBVIOUS
  <2>2. Places(id(m - 1), steps, m - 1) /\ IsName(steps[m])
    BY <1>2
  <2>3. Append(id(m - 1), m) = id(m)
    <3>1. \A k \in Nat : id(k) \in Seq(Nat) /\ Len(id(k)) = k
      <4>1. \A k \in Nat : id(k) \in [1..k -> Nat]
        OBVIOUS
      <4> HIDE DEF id
      <4> QED  BY <4>1, SeqOfFunction
    <3>2. \A k \in Nat, i \in Nat : i \in 1..k => id(k)[i] = i
      OBVIOUS
    <3> HIDE DEF id
    <3>3. /\ Append(id(m - 1), m) \in Seq(Nat) /\ Len(Append(id(m - 1), m)) = m - 1 + 1
          /\ Append(id(m - 1), m)[m - 1 + 1] = m
          /\ \A n \in 1..(m - 1) : Append(id(m - 1), m)[n] = id(m - 1)[n]
      <4>1. id(m - 1) \in Seq(Nat) /\ Len(id(m - 1)) = m - 1 /\ m \in Nat
        BY <2>1, <3>1
      <4> QED  BY <4>1, AppendOf
    <3>4. m - 1 + 1 = m /\ \A n \in 1..m : n \in Nat /\ (n \in 1..(m - 1) \/ n = m)
      BY <2>1
    <3>5. \A n \in 1..m : Append(id(m - 1), m)[n] = id(m)[n]
      BY <2>1, <3>2, <3>3, <3>4
    <3>6. Len(Append(id(m - 1), m)) = m /\ id(m) \in Seq(Nat) /\ Len(id(m)) = m
      BY <2>1, <3>1, <3>3, <3>4
    <3> QED  BY <3>3, <3>5, <3>6, SameSequence
  <2>4. Places(Append(id(m - 1), m), steps, m)
    <3> HIDE DEF id
    <3> QED  BY <2>1, <2>2, PlacesName
  <2> HIDE DEF id
  <2> QED  BY <2>1, <2>3, <2>4
<1>3. F \in 0..F
  OBVIOUS
<1>4. F \in Q
  <2> HIDE DEF Q
  <2> QED  BY <1>1, <1>2, <1>3, UpTo
<1> QED
  BY <1>4

LEMMA ConcatenationOf ==
    ASSUME NEW T, NEW s \in Seq(T), NEW t \in Seq(T)
    PROVE  /\ Len(s) \in Nat /\ Len(t) \in Nat /\ s \in [1..Len(s) -> T]
           /\ s \o t \in Seq(T) /\ Len(s \o t) = Len(s) + Len(t)
           /\ \A i \in 1..Len(s) : (s \o t)[i] = s[i]
           /\ \A n \in 1..Len(t) : (s \o t)[Len(s) + n] = t[n]
  OBVIOUS

LEMMA EndOfConcatenation ==
    ASSUME NEW T, NEW s \in Seq(T), NEW t \in Seq(T), Len(t) \in 1..Len(t)
    PROVE  (s \o t)[Len(s) + Len(t)] = t[Len(t)]
BY ConcatenationOf

AllNames(s) == \A i \in 1..Len(s) : IsName(s[i])
NoneEmptyInside(s) == \A n \in 1..(Len(s) - 1) : s[n] # ""

\* Before its last component the resolver is where the steps lead.
LEMMA WalkedSoFar ==
    ASSUME NEW T, NEW front \in Seq(T), NEW components \in Seq(T), NEW f,
           AllNames(front), NoneEmptyInside(components),
           Resolves(f, front, components, T), components # <<>>
    PROVE  Walked(f[Len(components) - 1], front \o components,
                  Len(front) + (Len(components) - 1))
<1> DEFINE F == Len(front)
           C == Len(components)
           steps == front \o components
           Q == {n \in 0..(C - 1) : Walked(f[n], steps, F + n)}
<1>1. /\ F \in Nat /\ C \in Nat \ {0} /\ steps \in Seq(T) /\ Len(steps) = F + C
      /\ \A i \in 1..F : steps[i] = front[i]
      /\ \A n \in 1..C : steps[F + n] = components[n]
      /\ front \in [1..F -> T]
  <2>1. Len(components) \in Nat \ {0}
    BY SeqElements
  <2> QED  BY <2>1, ConcatenationOf
<1>2. /\ f \in [0..C -> ResolverStates(T)]
      /\ f[0] = [error |-> "none", path |-> front, ends |-> FALSE]
      /\ \A n \in 1..C : f[n] = ResolveComponent(f[n - 1], components[n])
  BY DEF Resolves
<1>a. \A i \in 1..F : IsName(front[i])
  BY DEF AllNames
<1>b. \A n \in 1..(C - 1) : components[n] # ""
  BY DEF NoneEmptyInside
<1> HIDE DEF F, C, steps
<1>3. 0 \in Q
  <2> DEFINE p == [i \in 1..F |-> i]
  <2>1. Places(p, steps, F)
    BY <1>1, <1>a, PlacesOfNames
  <2>2. p \in [1..F -> Nat]
    OBVIOUS
  <2>3. Len(p) = F
    <3> HIDE DEF p
    <3> QED  BY <1>1, <2>2, SeqOfFunction
  <2>4. NamesAt(p, steps) = front
    BY <1>1, <2>3 DEF NamesAt
  <2>5. f[0].error = "none" /\ f[0].path = front
    BY <1>2
  <2> HIDE DEF p
  <2>6. Walked(f[0], steps, F)
    BY <2>1, <2>4, <2>5 DEF Walked
  <2>7. F + 0 = F /\ 0 \in 0..(C - 1)
    BY <1>1
  <2> QED  BY <2>6, <2>7
<1>4. ASSUME NEW n \in 1..(C - 1), n - 1 \in Q PROVE n \in Q
  <2>1. Walked(f[n - 1], steps, F + (n - 1))
    BY <1>4
  <2> DEFINE m == F + n
  <2>2. /\ n \in 1..C /\ n - 1 \in 0..C /\ n \in 0..(C - 1)
        /\ m \in 1..Len(steps) /\ m - 1 = F + (n - 1)
    BY <1>1
  <2>3. f[n - 1] \in ResolverStates(T)
    BY <1>2, <2>2
  <2>4. steps[m] = components[n] /\ components[n] # ""
    BY <1>1, <1>b, <2>2
  <2>5. IsName(steps[m]) \/ steps[m] \in Dots
    BY <2>4 DEF IsName
  <2>6. f[n] = ResolveComponent(f[n - 1], steps[m])
    BY <1>2, <2>2, <2>4
  <2> HIDE DEF m
  <2>7. Walked(ResolveComponent(f[n - 1], steps[m]), steps, m)
    BY <1>1, <2>1, <2>2, <2>3, <2>5, WalkFurther
  <2> QED  BY <2>2, <2>6, <2>7 DEF m
<1>5. C - 1 \in Q
  <2>1. C - 1 \in Nat /\ C - 1 \in 0..(C - 1)
    BY <1>1
  <2> HIDE DEF Q
  <2> QED  BY <1>3, <1>4, <2>1, UpTo
<1> QED
  BY <1>5 DEF F, C, steps

LEMMA DestinationIs ==
    ASSUME NEW T, NEW steps \in Seq(T), NEW p, Places(p, steps, Len(steps))
    PROVE  Destination(steps) =
             IF NamesAt(p, steps) = <<>> THEN EmptyPath
             ELSE IF IsName(Last(steps)) THEN NamesAt(p, steps)
             ELSE Append(NamesAt(p, steps), "")
<1> DEFINE M == Len(steps)
           remaining == {i \in DOMAIN steps :
                           /\ IsName(steps[i])
                           /\ \A j \in i + 1..Len(steps) : ~Rises(steps, i + 1..j)}
           positions == Kept([i \in 1..Len(steps) |-> i], remaining)
           names == [n \in DOMAIN positions |-> steps[positions[n]]]
<1>1. M \in Nat /\ DOMAIN steps = 1..M
  OBVIOUS
<1>2. remaining = Remaining(steps, M)
  BY <1>1 DEF Remaining
<1>3. positions \in Seq(Nat) /\ Increasing(positions) /\ ToSet(positions) = (1..M) \cap remaining
  <2> HIDE DEF remaining
  <2> QED  BY <1>1, KeptPositions
<1>4. p \in Seq(Nat) /\ Increasing(p) /\ ToSet(p) = Remaining(steps, M)
  BY DEF Places
<1>5. Remaining(steps, M) \subseteq 1..M
  BY DEF Remaining
<1>6. positions = p
  <2> HIDE DEF positions, remaining, M
  <2>1. ToSet(positions) = ToSet(p)
    BY <1>2, <1>3, <1>4, <1>5
  <2> QED  BY <1>3, <1>4, <2>1, OneIncreasingList
<1>7. DOMAIN p = 1..Len(p)
  BY <1>4
<1>8. Destination(steps) = IF names = <<>> THEN EmptyPath
                           ELSE IF IsName(Last(steps)) THEN names ELSE Append(names, "")
  BY Zenon DEF Destination
<1>9. names = NamesAt(p, steps)
  <2> HIDE DEF positions
  <2> QED  BY <1>6, <1>7 DEF NamesAt
<1> HIDE DEF names
<1> QED
  BY <1>8, <1>9

LEMMA EmptyAndName ==
    ASSUME NEW c
    PROVE  Append(<<>>, c) = <<c>>
  OBVIOUS

LeavesThe(steps) == \E j \in DOMAIN steps : Rises(steps, 1..j)

\* The last component, which may be empty.
LEMMA Arrival ==
    ASSUME NEW T, NEW steps \in Seq(T), STRING \subseteq T, steps # <<>>,
           NEW r \in ResolverStates(T), Walked(r, steps, Len(steps) - 1)
    PROVE  Outcome(ResolveComponent(r, steps[Len(steps)])) =
             IF LeavesThe(steps) THEN Unresolved("OutOfBoundsURL")
             ELSE Resolved(Destination(steps))
<1> DEFINE M == Len(steps)
           c == steps[M]
           next == ResolveComponent(r, c)
<1>1. /\ M \in Nat \ {0} /\ DOMAIN steps = 1..M /\ M \in 1..M /\ M - 1 \in Nat
      /\ 1..(M - 1) \subseteq 1..M /\ M - 1 \in 0..M /\ M \in 0..M
  <2>1. M \in Nat \ {0} /\ DOMAIN steps = 1..M
    BY SeqElements
  <2> HIDE DEF M
  <2> QED  BY <2>1
<1>2. c \in T /\ Last(steps) = c
  <2>1. \A n \in 1..M : steps[n] \in T
    BY SeqElements
  <2> HIDE DEF M
  <2>2. c \in T
    BY <1>1, <2>1
  <2> QED  BY <2>2 DEF Last, M
<1>3. next \in ResolverStates(T)
  BY <1>2, ResolveComponentTypes
<1>4. /\ r.error \in {"none", "OutOfBoundsURL"} /\ r.path \in Seq(T)
      /\ next.error \in {"none", "OutOfBoundsURL"} /\ next.path \in Seq(T)
  BY <1>3 DEF ResolverStates
<1>5. LeavesThe(steps) <=> \E j \in 1..M : Rises(steps, 1..j)
  BY <1>1 DEF LeavesThe
<1>6. ASSUME next.error = "OutOfBoundsURL", LeavesThe(steps)
      PROVE  Outcome(next) = IF LeavesThe(steps) THEN Unresolved("OutOfBoundsURL")
                             ELSE Resolved(Destination(steps))
  <2> HIDE DEF next
  <2> QED  BY <1>6 DEF Outcome
<1>7. CASE c = "" /\ r.error = "OutOfBoundsURL"
  <2>1. next = r
    BY <1>7 DEF ResolveComponent
  <2>2. PICK j \in 1..(M - 1) : Rises(steps, 1..j)
    BY <1>7 DEF Walked
  <2>3. LeavesThe(steps)
    BY <1>1, <1>5, <2>2
  <2> QED  BY <1>6, <1>7, <2>1, <2>3
<1>8. CASE c = "" /\ r.error = "none"
  <2>1. PICK p : Places(p, steps, M - 1) /\ r.path = NamesAt(p, steps)
    BY <1>8 DEF Walked
  <2>2. ~IsName(c) /\ c # ".."
    BY <1>8 DEF IsName
  <2>3. Places(p, steps, M)
    <3> HIDE DEF M
    <3> QED  BY <1>1, <2>1, <2>2, PlacesDot
  <2>4. ~LeavesThe(steps)
    BY <1>5, <2>3 DEF Places
  <2>5. next = [r EXCEPT !.path = Append(@, c), !.ends = FALSE]
    BY <1>8 DEF ResolveComponent, Dots
  <2>6. next.error = "none" /\ next.path = Append(r.path, "") /\ next.ends = FALSE
    BY <1>8, <2>5 DEF ResolverStates
  <2>7. Append(r.path, c) # <<>> /\ Append(r.path, c) = Append(r.path, "")
    <3>1. r.path \in Seq(T) /\ c \in T
      BY <1>2, <1>4
    <3>2. Append(r.path, "") = Append(r.path, c)
      BY <1>8
    <3> HIDE DEF c
    <3>3. Len(Append(r.path, c)) = Len(r.path) + 1 /\ Len(r.path) \in Nat
      BY <3>1, AppendOf, SeqElements
    <3>4. Len(<<>>) = 0 /\ \A n \in Nat : n + 1 # 0
      OBVIOUS
    <3> QED  BY <3>2, <3>3, <3>4
  <2>8. Outcome(next) = Resolved(Append(r.path, ""))
    <3> HIDE DEF next
    <3> QED  BY <2>6, <2>7 DEF Outcome
  <2>9. Destination(steps) =
          IF NamesAt(p, steps) = <<>> THEN EmptyPath ELSE Append(NamesAt(p, steps), "")
    BY <1>2, <2>2, <2>3, DestinationIs
  <2>10. Append(<<>>, "") = EmptyPath
    BY EmptyAndName DEF EmptyPath
  <2>11. Destination(steps) = Append(r.path, "")
    BY <2>1, <2>9, <2>10
  <2> QED  BY <2>4, <2>8, <2>11
<1>9. CASE c # ""
  <2>1. IsName(c) \/ c \in Dots
    BY <1>9 DEF IsName
  <2>2. Walked(next, steps, M) /\ (next.error = "none" => (next.ends <=> c \in Dots))
    BY <1>1, <2>1, WalkFurther
  <2>3. CASE next.error = "OutOfBoundsURL"
    <3>1. LeavesThe(steps)
      BY <1>5, <2>2, <2>3 DEF Walked
    <3> QED  BY <1>6, <2>3, <3>1
  <2>4. CASE next.error = "none"
    <3>1. PICK p : Places(p, steps, M) /\ next.path = NamesAt(p, steps)
      BY <2>2, <2>4 DEF Walked
    <3>2. ~LeavesThe(steps)
      BY <1>5, <3>1 DEF Places
    <3>3. IsName(c) <=> ~ (c \in Dots)
      BY <1>9 DEF IsName
    <3>4. Destination(steps) =
            IF next.path = <<>> THEN EmptyPath
            ELSE IF IsName(c) THEN next.path ELSE Append(next.path, "")
      BY <1>2, <3>1, DestinationIs
    <3> HIDE DEF next
    <3>5. Outcome(next) = Resolved(Destination(steps))
      BY <2>2, <2>4, <3>3, <3>4 DEF Outcome
    <3> QED  BY <3>2, <3>5 DEF next
  <2> QED  BY <1>4, <2>3, <2>4
<1> QED
  BY <1>4, <1>7, <1>8, <1>9

IsRelative(url) == url.path # EmptyPath /\ Head(url.path) # ""

\* The resolver accepts the relative links that stay inside and takes them where
\* RFC 3986 does.
THEOREM ResolverIsExact ==
    ASSUME NEW url \in ProperUrls, NEW zimPath \in ProperPaths,
           IsRelative(url)
    PROVE  ResolveLinkTarget(url, zimPath) =
             IF LeadsOutside(url, zimPath) THEN Unresolved("OutOfBoundsURL")
             ELSE Resolved(Target(url, zimPath))
<1> DEFINE path == url.path
           components == DecodeUrl(path)
           front == Front(zimPath)
           C == Len(components)
           steps == front \o components
           T == STRING \cup {Encoded[c] : c \in DOMAIN Encoded}
<1>1. path \in Seq(STRING) /\ path # <<>> /\ Len(url.marks) < 2
  BY DEF ProperUrls, Urls
<1>2. StripFragmentAndOrSearchComponent(url) = path
  BY <1>1 DEF StripFragmentAndOrSearchComponent
<1>3. components \in Seq(T) /\ components # <<>> /\ C = Len(path) /\ C \in Nat \ {0}
  <2> DEFINE n == Len(path)
  <2>1. n \in Nat \ {0} /\ DOMAIN path = 1..n /\ \A i \in 1..n : path[i] \in STRING
    BY <1>1
  <2>2. components \in [1..n -> T]
    BY <2>1 DEF DecodeUrl
  <2> HIDE DEF components, n, T
  <2>3. components \in Seq(T) /\ Len(components) = n
    BY <2>1, <2>2, SeqOfFunction
  <2> QED  BY <2>1, <2>3 DEF n
<1>4. NoneEmptyInside(components)
  <2>1. \A n \in 1..(Len(path) - 1) : components[n] # ""
    BY DEF ProperUrls, IsRelative
  <2> HIDE DEF components
  <2> QED  BY <1>3, <2>1 DEF NoneEmptyInside
<1>5. front \in Seq(T) /\ AllNames(front)
  <2>1. /\ zimPath \in Seq(STRING) /\ zimPath # <<>>
        /\ \A n \in 1..(Len(zimPath) - 1) : IsName(zimPath[n])
    BY DEF ProperPaths
  <2>2. /\ front \in Seq(STRING) /\ Len(front) = Len(zimPath) - 1
        /\ \A n \in 1..(Len(zimPath) - 1) : front[n] = zimPath[n]
    BY <2>1, FrontOf
  <2> HIDE DEF front
  <2>3. front \in Seq(T)
    BY <2>2
  <2> QED  BY <2>1, <2>2, <2>3 DEF AllNames
<1> HIDE DEF T
<1>a. path # EmptyPath /\ Head(path) # ""
  BY DEF IsRelative
<1>6. PICK f : /\ Resolves(f, front, components, T)
               /\ ResolveLinkTarget(url, zimPath) = Outcome(f[C])
  BY <1>2, <1>3, <1>5, <1>a, ResolverOutcome
<1> HIDE DEF front, components
<1>7. /\ steps \in Seq(T) /\ Len(steps) = Len(front) + C /\ Len(front) \in Nat
      /\ steps[Len(front) + C] = components[C] /\ steps # <<>>
  <2>1. C \in 1..C /\ Len(front) \in Nat
    <3>1. Len(front) \in Nat
      BY <1>5, SeqElements
    <3> HIDE DEF C
    <3> QED  BY <1>3, <3>1
  <2>2. /\ steps \in Seq(T) /\ Len(steps) = Len(front) + C
        /\ steps[Len(front) + C] = components[C]
    <3>1. steps \in Seq(T) /\ Len(steps) = Len(front) + C
      BY <1>3, <1>5, ConcatenationOf
    <3>2. steps[Len(front) + C] = components[C]
      BY <1>3, <1>5, <2>1, EndOfConcatenation
    <3> QED  BY <3>1, <3>2
  <2>3. Len(front) + C # 0
    <3> HIDE DEF C
    <3> QED  BY <1>3, <2>1
  <2>4. Len(<<>>) = 0
    OBVIOUS
  <2> HIDE DEF steps
  <2> QED  BY <2>1, <2>2, <2>3, <2>4
<1>8. Walked(f[C - 1], steps, Len(front) + (C - 1))
  BY <1>3, <1>4, <1>5, <1>6, WalkedSoFar
<1> HIDE DEF C
<1>9. Len(front) + (C - 1) = Len(steps) - 1
  BY <1>3, <1>7
<1>10. f[C - 1] \in ResolverStates(T) /\ f[C] = ResolveComponent(f[C - 1], components[C])
  <2>1. C \in 1..C /\ C - 1 \in 0..C
    BY <1>3
  <2> QED  BY <1>6, <2>1 DEF Resolves, C
<1>11. steps = Steps(url, zimPath)
  BY DEF Steps, front, components
<1>12. STRING \subseteq T
  BY DEF T
<1> HIDE DEF steps
<1>13. Outcome(f[C]) = IF LeavesThe(steps) THEN Unresolved("OutOfBoundsURL")
                       ELSE Resolved(Destination(steps))
  BY <1>7, <1>8, <1>9, <1>10, <1>12, Arrival
<1>14. LeavesThe(steps) <=> LeadsOutside(url, zimPath)
  BY <1>11 DEF LeavesThe, LeadsOutside
<1>15. Target(url, zimPath) = Destination(steps)
  BY <1>11 DEF Target
<1> QED
  BY <1>6, <1>13, <1>14, <1>15

-----------------------------------------------------------------------------
(* Links that are adapted when the namespaces go.                          *)

\* Positions of the names left after F names, k times up and n names.
UpDown(F, k, n) == [a \in 1..(F - k + n) |-> IF a <= F - k THEN a ELSE a + k + k]

LEMMA UpDownTypes ==
    ASSUME NEW F \in Nat, NEW k \in 0..F, NEW n \in Nat
    PROVE  /\ UpDown(F, k, n) \in Seq(Nat) /\ Len(UpDown(F, k, n)) = F - k + n
           /\ F - k + n \in Nat
           /\ \A a \in 1..(F - k + n) :
                UpDown(F, k, n)[a] = IF a <= F - k THEN a ELSE a + k + k
<1> DEFINE N == F - k + n
           f == UpDown(F, k, n)
<1>1. N \in Nat /\ f \in [1..N -> Nat]
  BY DEF UpDown
<1>2. f \in Seq(Nat) /\ Len(f) = N
  <2> HIDE DEF f, N
  <2> QED  BY <1>1, SeqOfFunction
<1> QED
  BY <1>1, <1>2 DEF UpDown

LEMMA OnlyUp ==
    ASSUME NEW F \in Nat, NEW k \in 0..F
    PROVE  /\ UpDown(F, k, 0) \in Seq(Nat) /\ Len(UpDown(F, k, 0)) = F - k
           /\ F - k \in Nat /\ \A a \in 1..(F - k) : UpDown(F, k, 0)[a] = a
<1> DEFINE f == UpDown(F, k, 0)
           N == F - k
<1>1. N \in Nat /\ N + 0 = N /\ 0 \in Nat
  OBVIOUS
<1>2. f = [a \in 1..(N + 0) |-> IF a <= N THEN a ELSE a + k + k]
  BY DEF UpDown
<1> HIDE DEF f, N
<1>3. f = [a \in 1..N |-> a]
  BY <1>1, <1>2
<1>4. f \in [1..N -> Nat] /\ \A a \in 1..N : f[a] = a
  BY <1>1, <1>3
<1>5. f \in Seq(Nat) /\ Len(f) = N
  BY <1>1, <1>4, SeqOfFunction
<1> QED
  BY <1>1, <1>4, <1>5 DEF f, N

\* A step up takes the last of the names that are left.
LEMMA UpOnce ==
    ASSUME NEW F \in Nat, NEW k \in 1..F
    PROVE  UpDown(F, k - 1, 0) # <<>> /\ Front(UpDown(F, k - 1, 0)) = UpDown(F, k, 0)
<1> DEFINE j == k - 1
           u == UpDown(F, j, 0)
           r == UpDown(F, k, 0)
           M == F - j
           N == F - k
<1>1. N \in Nat /\ j \in 0..F /\ k \in 0..F /\ M = N + 1
  OBVIOUS
<1>2. u \in Seq(Nat) /\ Len(u) = M /\ \A a \in 1..M : u[a] = a
  <2>1. j \in 0..F
    BY <1>1
  <2> HIDE DEF j
  <2> QED  BY <2>1, OnlyUp
<1>3. r \in Seq(Nat) /\ Len(r) = N /\ \A a \in 1..N : r[a] = a
  BY <1>1, OnlyUp
<1> HIDE DEF u, r, N, M, j
<1>4. u # <<>> /\ Len(u) - 1 = N
  BY <1>1, <1>2
<1>5. Front(u) \in Seq(Nat) /\ Len(Front(u)) = N /\ \A a \in 1..N : Front(u)[a] = u[a]
  BY <1>2, <1>4, FrontOf
<1>6. \A a \in 1..N : a \in 1..M
  BY <1>1
<1>7. Front(u) = r
  BY <1>2, <1>3, <1>5, <1>6, SameSequence
<1> QED
  BY <1>4, <1>7 DEF u, r, j

LEMMA UpSteps ==
    ASSUME NEW steps, NEW F \in Nat, NEW k \in 0..F,
           \A i \in 1..F : IsName(steps[i]),
           \A j \in 1..k : steps[F + j] = ".."
    PROVE  Places(UpDown(F, k, 0), steps, F + k)
<1> DEFINE Q == {j \in 0..k : Places(UpDown(F, j, 0), steps, F + j)}
<1>0. k \in Nat
  OBVIOUS
<1>1. 0 \in Q
  <2> DEFINE id == [i \in 1..F |-> i]
  <2>1. Places(id, steps, F)
    BY PlacesOfNames
  <2>2. UpDown(F, 0, 0) = id
    <3>1. F - 0 + 0 = F /\ \A a \in 1..F : a <= F - 0
      OBVIOUS
    <3> QED  BY <3>1 DEF UpDown
  <2>3. F + 0 = F /\ 0 \in 0..k
    OBVIOUS
  <2> HIDE DEF id
  <2> QED  BY <2>1, <2>2, <2>3
<1>2. ASSUME NEW j \in 1..k, j - 1 \in Q PROVE j \in Q
  <2>1. j \in 1..F /\ F + j \in Nat \ {0} /\ F + j - 1 = F + (j - 1) /\ j \in 0..k
    OBVIOUS
  <2>2. Places(UpDown(F, j - 1, 0), steps, F + j - 1) /\ steps[F + j] = ".."
    BY <1>2, <2>1
  <2>3. /\ UpDown(F, j - 1, 0) # <<>>
        /\ Front(UpDown(F, j - 1, 0)) = UpDown(F, j, 0)
    BY <2>1, UpOnce
  <2>4. Places(UpDown(F, j, 0), steps, F + j)
    BY <2>1, <2>2, <2>3, PlacesUp
  <2> QED  BY <2>1, <2>4
<1>3. k \in 0..k
  OBVIOUS
<1>4. k \in Q
  <2> HIDE DEF Q
  <2> QED  BY <1>0, <1>1, <1>2, <1>3, UpTo
<1> QED
  BY <1>4

\* More steps up than there are names lead outside.
LEMMA UpTooFar ==
    ASSUME NEW steps, NEW F \in Nat,
           \A i \in 1..F : IsName(steps[i]),
           \A j \in 1..(F + 1) : steps[F + j] = ".."
    PROVE  Rises(steps, 1..(F + (F + 1)))
<1>1. F \in 0..F /\ \A j \in 1..F : j \in 1..(F + 1)
  OBVIOUS
<1>2. Places(UpDown(F, F, 0), steps, F + F)
  BY <1>1, UpSteps
<1>3. UpDown(F, F, 0) = <<>>
  <2>1. UpDown(F, F, 0) \in Seq(Nat) /\ Len(UpDown(F, F, 0)) = F - F + 0
    BY <1>1, UpDownTypes
  <2>2. F - F + 0 = 0
    OBVIOUS
  <2> QED  BY <2>1, <2>2
<1>4. F + (F + 1) \in Nat \ {0} /\ F + (F + 1) - 1 = F + F /\ F + 1 \in 1..(F + 1)
  OBVIOUS
<1>5. steps[F + (F + 1)] = ".."
  BY <1>4
<1> QED
  BY <1>2, <1>3, <1>4, <1>5, PlacesUp

\* A name more is the last of them.
LEMMA DownOnce ==
    ASSUME NEW F \in Nat, NEW k \in 0..F, NEW n \in Nat \ {0}
    PROVE  Append(UpDown(F, k, n - 1), F + k + n) = UpDown(F, k, n)
<1> DEFINE j == n - 1
           m == F + k + n
           u == UpDown(F, k, j)
           r == UpDown(F, k, n)
           K == F - k
           M == K + j
           N == K + n
<1>1. /\ k \in Nat /\ K \in Nat /\ j \in Nat /\ n \in Nat /\ m \in Nat /\ M \in Nat /\ N = M + 1
      /\ ~ (N <= K) /\ N + k + k = m
  OBVIOUS
<1>2. /\ u \in Seq(Nat) /\ Len(u) = M
      /\ \A a \in 1..M : u[a] = IF a <= K THEN a ELSE a + k + k
  <2> HIDE DEF j
  <2> QED  BY <1>1, UpDownTypes
<1>3. /\ r \in Seq(Nat) /\ Len(r) = N
      /\ \A a \in 1..N : r[a] = IF a <= K THEN a ELSE a + k + k
  BY <1>1, UpDownTypes
<1> HIDE DEF u, r, j, m, K, M, N
<1>4. /\ Append(u, m) \in Seq(Nat) /\ Len(Append(u, m)) = M + 1 /\ Append(u, m)[M + 1] = m
      /\ \A a \in 1..M : Append(u, m)[a] = u[a]
  BY <1>1, <1>2, AppendOf
<1>5. N \in 1..N /\ \A a \in 1..N : a \in 1..M \/ a = N
  BY <1>1
<1>6. r[N] = m
  BY <1>1, <1>3, <1>5
<1>7. \A a \in 1..M : a \in 1..N
  BY <1>1
<1>8. \A a \in 1..N : Append(u, m)[a] = r[a]
  BY <1>1, <1>2, <1>3, <1>4, <1>5, <1>6, <1>7
<1>9. Append(u, m) = r
  BY <1>1, <1>3, <1>4, <1>8, SameSequence
<1> QED
  BY <1>9 DEF u, r, j, m

\* Names, k steps up and names again.
LEMMA DownSteps ==
    ASSUME NEW steps, NEW F \in Nat, NEW k \in 0..F, NEW n \in Nat,
           \A i \in 1..F : IsName(steps[i]),
           \A i \in 1..k : steps[F + i] = "..",
           \A i \in 1..n : IsName(steps[F + k + i])
    PROVE  Places(UpDown(F, k, n), steps, F + k + n)
<1> DEFINE Q == {j \in 0..n : Places(UpDown(F, k, j), steps, F + k + j)}
<1>1. 0 \in Q
  <2>1. F + k + 0 = F + k /\ 0 \in 0..n
    OBVIOUS
  <2>2. Places(UpDown(F, k, 0), steps, F + k)
    BY UpSteps
  <2> QED  BY <2>1, <2>2
<1>2. ASSUME NEW j \in 1..n, j - 1 \in Q PROVE j \in Q
  <2>1. j \in Nat \ {0} /\ F + k + j \in Nat \ {0} /\ F + k + j - 1 = F + k + (j - 1) /\ j \in 0..n
    OBVIOUS
  <2>2. Places(UpDown(F, k, j - 1), steps, F + k + j - 1) /\ IsName(steps[F + k + j])
    BY <1>2, <2>1
  <2>3. Places(Append(UpDown(F, k, j - 1), F + k + j), steps, F + k + j)
    BY <2>1, <2>2, PlacesName
  <2>4. Append(UpDown(F, k, j - 1), F + k + j) = UpDown(F, k, j)
    BY <2>1, DownOnce
  <2> QED  BY <2>1, <2>3, <2>4
<1>3. n \in 0..n
  OBVIOUS
<1>4. n \in Q
  <2> HIDE DEF Q
  <2> QED  BY <1>1, <1>2, <1>3, UpTo
<1> QED
  BY <1>4

Components == STRING \cup {Encoded[c] : c \in DOMAIN Encoded}

LEMMA Decoded ==
    ASSUME NEW link \in Seq(STRING)
    PROVE  DecodeUrl(link) \in Seq(Components) /\ Len(DecodeUrl(link)) = Len(link)
<1> DEFINE n == Len(link)
           d == DecodeUrl(link)
<1>1. n \in Nat /\ DOMAIN link = 1..n /\ \A i \in 1..n : link[i] \in STRING
  BY SeqElements
<1>2. d \in [1..n -> Components]
  BY <1>1 DEF DecodeUrl, Components
<1> HIDE DEF d, n
<1>3. d \in Seq(Components) /\ Len(d) = n
  BY <1>1, <1>2, SeqOfFunction
<1> QED
  BY <1>3 DEF d, n

\* A link that goes k times up and then down to a file.
GoesUp(link, k) ==
    /\ k < Len(link)
    /\ \A i \in 1..k : DecodeUrl(link)[i] = ".."
    /\ \A i \in (k + 1)..Len(link) : IsName(DecodeUrl(link)[i])

LEMMA WiderSeq ==
    ASSUME NEW S, NEW T, S \subseteq T, NEW s \in Seq(S)
    PROVE  s \in Seq(T)
  OBVIOUS

\* The directory of the entry and then the link.
LEMMA StepsOf ==
    ASSUME NEW path \in ProperPaths, NEW link \in Seq(STRING)
    PROVE  LET F == Len(path) - 1
               steps == Steps([path |-> link], path)
           IN  /\ F \in Nat /\ Len(link) \in Nat
               /\ steps \in Seq(Components) /\ Len(steps) = F + Len(link)
               /\ DOMAIN steps = 1..(F + Len(link))
               /\ \A i \in 1..F : steps[i] = path[i] /\ IsName(steps[i])
               /\ \A i \in 1..Len(link) : steps[F + i] = DecodeUrl(link)[i]
<1> DEFINE front == Front(path)
           d == DecodeUrl(link)
           F == Len(path) - 1
           L == Len(link)
           steps == front \o d
<1>1. F \in Nat /\ path # <<>> /\ path \in Seq(STRING) /\ \A i \in 1..F : IsName(path[i])
  <2>1. path # <<>> /\ path \in Seq(STRING) /\ \A i \in 1..(Len(path) - 1) : IsName(path[i])
    BY DEF ProperPaths
  <2>2. Len(path) \in Nat \ {0}
    BY <2>1
  <2> QED  BY <2>1, <2>2
<1>2. front \in Seq(Components) /\ Len(front) = F /\ \A i \in 1..F : front[i] = path[i]
  <2>1. front \in Seq(STRING) /\ Len(front) = F /\ \A i \in 1..F : front[i] = path[i]
    BY <1>1, FrontOf
  <2>2. STRING \subseteq Components
    BY DEF Components
  <2> HIDE DEF front, F
  <2>3. front \in Seq(Components)
    BY <2>1, <2>2, WiderSeq
  <2> QED  BY <2>1, <2>3
<1>3. d \in Seq(Components) /\ Len(d) = L /\ L \in Nat
  <2>1. L \in Nat
    BY SeqElements
  <2> QED  BY <2>1, Decoded
<1> HIDE DEF F, front, d, L
<1>4. /\ steps \in Seq(Components) /\ Len(steps) = F + L
      /\ \A i \in 1..F : steps[i] = path[i]
      /\ \A i \in 1..L : steps[F + i] = d[i]
  <2>1. front \in Seq(Components) /\ d \in Seq(Components)
    BY <1>2, <1>3
  <2>2. /\ steps \in Seq(Components) /\ Len(steps) = Len(front) + Len(d)
        /\ \A i \in 1..Len(front) : steps[i] = front[i]
        /\ \A i \in 1..Len(d) : steps[Len(front) + i] = d[i]
    BY <2>1, ConcatenationOf
  <2> HIDE DEF steps
  <2> QED  BY <1>2, <1>3, <2>2
<1>5. steps = Steps([path |-> link], path)
  BY DEF Steps, steps, front, d
<1> HIDE DEF steps
<1>6. DOMAIN steps = 1..(F + L)
  BY <1>4, SeqElements
<1> QED
  BY <1>1, <1>3, <1>4, <1>5, <1>6 DEF F, L, d

\* Where it leads.
LEMMA LinkTargetIs ==
    ASSUME NEW path \in ProperPaths, NEW link \in Seq(STRING), NEW k \in 0..(Len(path) - 1),
           GoesUp(link, k)
    PROVE  LET F == Len(path) - 1
               N == F - k + (Len(link) - k)
           IN  /\ LinkTarget(link, path) \in Seq(Components)
               /\ Len(LinkTarget(link, path)) = N
               /\ \A a \in 1..N : LinkTarget(link, path)[a] =
                    IF a <= F - k THEN path[a] ELSE DecodeUrl(link)[a - F + k + k]
<1> DEFINE d == DecodeUrl(link)
           F == Len(path) - 1
           L == Len(link)
           n == L - k
           N == F - k + n
           steps == Steps([path |-> link], path)
           p == UpDown(F, k, n)
<1>1. /\ F \in Nat /\ L \in Nat
      /\ steps \in Seq(Components) /\ Len(steps) = F + L
      /\ \A i \in 1..F : steps[i] = path[i] /\ IsName(steps[i])
      /\ \A i \in 1..L : steps[F + i] = d[i]
  BY StepsOf
<1>2. /\ k < L
      /\ \A i \in 1..k : d[i] = ".."
      /\ \A i \in (k + 1)..L : IsName(d[i])
  BY DEF GoesUp
<1>3. k \in 0..F /\ k \in Nat
  BY <1>1
<1> HIDE DEF F, d, L
<1>4. n \in Nat \ {0} /\ F + k + n = F + L /\ N \in Nat \ {0} /\ k + n = L /\ n \in 1..n
  BY <1>1, <1>2, <1>3
<1> HIDE DEF n, steps
<1>5. \A i \in 1..k : steps[F + i] = ".."
  <2>1. \A i \in 1..k : i \in 1..L
    BY <1>1, <1>2, <1>3
  <2> QED  BY <1>1, <1>2, <2>1
<1>6. \A i \in 1..n : IsName(steps[F + k + i])
  <2>1. \A i \in 1..n : k + i \in 1..L /\ k + i \in (k + 1)..L /\ F + k + i = F + (k + i)
    BY <1>1, <1>2, <1>3, <1>4
  <2> QED  BY <1>1, <1>2, <2>1
<1>7. Places(p, steps, Len(steps))
  BY <1>1, <1>3, <1>4, <1>5, <1>6, DownSteps
<1>8. /\ Len(p) = N
      /\ \A a \in 1..N : p[a] = IF a <= F - k THEN a ELSE a + k + k
  <2>1. F \in Nat /\ k \in 0..F /\ n \in Nat
    BY <1>1, <1>3, <1>4
  <2> QED  BY <2>1, UpDownTypes
<1> HIDE DEF p
<1>9. /\ NamesAt(p, steps) \in Seq(Components) /\ Len(NamesAt(p, steps)) = N
      /\ \A a \in 1..N : NamesAt(p, steps)[a] = steps[p[a]]
  <2>1. Len(steps) \in 0..Len(steps)
    BY <1>1
  <2> QED  BY <1>1, <1>7, <1>8, <2>1, NamesAtTypes
<1>10. NamesAt(p, steps) # <<>>
  BY <1>4, <1>9
<1>11. IsName(Last(steps))
  <2>1. Last(steps) = steps[F + k + n]
    BY <1>1, <1>4 DEF Last
  <2> QED  BY <1>4, <1>6, <2>1
<1>12. Destination(steps) = NamesAt(p, steps)
  BY <1>1, <1>7, <1>10, <1>11, DestinationIs
<1>13. LinkTarget(link, path) = Destination(steps)
  BY DEF LinkTarget, Target, steps
<1>14. ASSUME NEW a \in 1..N
       PROVE  NamesAt(p, steps)[a] = IF a <= F - k THEN path[a] ELSE d[a - F + k + k]
  <2>1. CASE a <= F - k
    <3>1. p[a] = a /\ a \in 1..F
      BY <1>1, <1>3, <1>4, <1>8, <2>1
    <3> QED  BY <1>1, <1>9, <2>1, <3>1
  <2>2. CASE ~ (a <= F - k)
    <3>1. p[a] = a + k + k
      BY <1>8, <2>2
    <3> DEFINE i == a - F + k + k
    <3>2. i \in 1..L /\ a + k + k = F + i
      BY <1>1, <1>3, <1>4, <2>2
    <3> HIDE DEF i
    <3>3. NamesAt(p, steps)[a] = steps[p[a]] /\ p[a] = F + i
      BY <1>9, <3>1, <3>2
    <3>4. steps[F + i] = d[i]
      BY <1>1, <3>2
    <3>5. NamesAt(p, steps)[a] = d[i]
      BY <3>3, <3>4, Zenon
    <3> QED  BY <2>2, <3>5 DEF i
  <2> QED  BY <2>1, <2>2
<1> QED
  BY <1>9, <1>12, <1>13, <1>14 DEF F, L, n, d

LEMMA TailOf ==
    ASSUME NEW T, NEW s \in Seq(T), s # <<>>
    PROVE  /\ Tail(s) \in Seq(T) /\ Len(Tail(s)) = Len(s) - 1
           /\ \A n \in 1..(Len(s) - 1) : Tail(s)[n] = s[n + 1]
  OBVIOUS

LEMMA DecodedAlike ==
    ASSUME NEW link \in Seq(STRING), NEW other \in Seq(STRING),
           NEW i \in 1..Len(link), NEW j \in 1..Len(other), link[i] = other[j]
    PROVE  DecodeUrl(link)[i] = DecodeUrl(other)[j]
<1>1. i \in DOMAIN link /\ j \in DOMAIN other
  OBVIOUS
<1> QED
  BY <1>1 DEF DecodeUrl

LEMMA ProperTail ==
    ASSUME NEW path \in ProperPaths, Len(path) > 1
    PROVE  /\ Tail(path) \in ProperPaths /\ Len(Tail(path)) = Len(path) - 1
           /\ \A n \in 1..(Len(path) - 1) : Tail(path)[n] = path[n + 1]
<1> DEFINE t == Tail(path)
           M == Len(path)
<1>1. path \in Seq(STRING) /\ path # <<>> /\ \A n \in 1..(M - 1) : IsName(path[n])
  BY DEF ProperPaths
<1>2. M \in Nat /\ M > 1
  BY <1>1
<1>3. t \in Seq(STRING) /\ Len(t) = M - 1 /\ \A n \in 1..(M - 1) : t[n] = path[n + 1]
  BY <1>1, TailOf
<1> HIDE DEF t, M
<1>4. t # <<>>
  BY <1>2, <1>3
<1>5. \A n \in 1..(Len(t) - 1) : IsName(t[n])
  <2>1. \A n \in 1..(M - 1 - 1) : n \in 1..(M - 1) /\ n + 1 \in 1..(M - 1)
    BY <1>2
  <2> QED  BY <1>1, <1>3, <2>1
<1>6. t \in ProperPaths
  BY <1>3, <1>4, <1>5 DEF ProperPaths
<1> QED
  BY <1>3, <1>6 DEF t, M

\* A link that does not go up to the namespace needs no change.
LEMMA LinkBelow ==
    ASSUME NEW path \in ProperPaths, NEW link \in Seq(STRING), NEW k \in Nat,
           k < Len(path) - 1, GoesUp(link, k)
    PROVE  LinkTarget(link, Tail(path)) = Tail(LinkTarget(link, path))
<1> DEFINE F == Len(path) - 1
           G == Len(Tail(path)) - 1
           n == Len(link) - k
           d == DecodeUrl(link)
           t == LinkTarget(link, path)
           r == LinkTarget(link, Tail(path))
<1>1. Len(path) \in Nat /\ Len(link) \in Nat /\ k < Len(link)
  BY DEF ProperPaths, GoesUp
<1>2. /\ Tail(path) \in ProperPaths /\ Len(Tail(path)) = Len(path) - 1
      /\ \A a \in 1..(Len(path) - 1) : Tail(path)[a] = path[a + 1]
  BY <1>1, ProperTail
<1>3. F \in Nat /\ F > k /\ G = F - 1 /\ k \in 0..F /\ k \in 0..G /\ n \in Nat \ {0}
  BY <1>1, <1>2
<1>4. /\ t \in Seq(Components) /\ Len(t) = F - k + n
      /\ \A a \in 1..(F - k + n) : t[a] = IF a <= F - k THEN path[a] ELSE d[a - F + k + k]
  <2> HIDE DEF t, d
  <2> QED  BY <1>3, LinkTargetIs DEF t, d
<1>5. /\ r \in Seq(Components) /\ Len(r) = G - k + n
      /\ \A a \in 1..(G - k + n) :
           r[a] = IF a <= G - k THEN Tail(path)[a] ELSE d[a - G + k + k]
  <2> HIDE DEF r, d
  <2> QED  BY <1>2, <1>3, LinkTargetIs DEF r, d
<1>6. \A a \in 1..F : Tail(path)[a] = path[a + 1]
  BY <1>2
<1> HIDE DEF F, G, n, d, t, r
<1>7. t # <<>>
  BY <1>3, <1>4
<1>8. /\ Tail(t) \in Seq(Components) /\ Len(Tail(t)) = Len(t) - 1
      /\ \A a \in 1..(Len(t) - 1) : Tail(t)[a] = t[a + 1]
  BY <1>4, <1>7, TailOf
<1>9. Len(r) = Len(t) - 1 /\ G - k + n = F - k + n - 1
  BY <1>3, <1>4, <1>5
<1>10. ASSUME NEW a \in 1..(G - k + n) PROVE r[a] = Tail(t)[a]
  <2>1. /\ a \in 1..(Len(t) - 1) /\ a + 1 \in 1..(F - k + n)
        /\ (a <= G - k <=> a + 1 <= F - k)
        /\ (a <= G - k => a \in 1..F)
        /\ a - G + k + k = a + 1 - F + k + k
    BY <1>3, <1>4
  <2>2. Tail(t)[a] = t[a + 1]
    BY <1>8, <2>1
  <2>3. PICK b \in 1..(F - k + n) : b = a + 1
    BY <2>1
  <2>4. t[b] = IF b <= F - k THEN path[b] ELSE d[b - F + k + k]
    BY <1>4
  <2>5. r[a] = IF a <= G - k THEN Tail(path)[a] ELSE d[a - G + k + k]
    BY <1>5
  <2>6. Tail(t)[a] = t[b]
    BY <2>2, <2>3
  <2>7. CASE a <= G - k
    <3>1. b <= F - k /\ Tail(path)[a] = path[b]
      BY <1>6, <2>1, <2>3, <2>7
    <3> QED  BY <2>4, <2>5, <2>6, <2>7, <3>1
  <2>8. CASE ~ (a <= G - k)
    <3>1. ~ (b <= F - k) /\ a - G + k + k = b - F + k + k
      BY <1>3, <2>1, <2>3, <2>8
    <3> QED  BY <2>4, <2>5, <2>6, <2>8, <3>1
  <2> QED  BY <2>7, <2>8
<1>11. r = Tail(t)
  BY <1>5, <1>8, <1>9, <1>10, SameSequence
<1> QED
  BY <1>11 DEF r, t

LEMMA PositionsAcross ==
    ASSUME NEW j \in Nat, NEW N \in Nat, NEW a \in 1..(N - j)
    PROVE  /\ a + 1 \in 1..(N - j + 1) /\ a + j \in (j + 1)..N
           /\ a + j + 2 = a + 1 + j + 1
  OBVIOUS

\* The link goes k times up to the namespace and `new` is without the last of
\* these steps and without the namespace.
IsShortened(new, link, k, path) ==
    /\ Len(path) > 1 /\ k = Len(path) - 1
    /\ GoesUp(link, k) /\ k + 1 < Len(link)
    /\ Len(new) = Len(link) - 2
    /\ \A i \in 1..(k - 1) : new[i] = link[i]
    /\ \A i \in k..Len(new) : new[i] = link[i + 2]

\* This is what a link has to become that does.
LEMMA LinkAcross ==
    ASSUME NEW path \in ProperPaths, NEW link \in Seq(STRING), NEW new \in Seq(STRING),
           NEW k, IsShortened(new, link, k, path)
    PROVE  LinkTarget(new, Tail(path)) = Tail(LinkTarget(link, path))
<1> DEFINE L == Len(link)
           N == Len(new)
           j == k - 1
           G == Len(Tail(path)) - 1
           d == DecodeUrl(link)
           e == DecodeUrl(new)
           P == Len(path)
           t == LinkTarget(link, path)
           r == LinkTarget(new, Tail(path))
<1>1. P > 1 /\ k = P - 1 /\ k + 1 < L /\ N = L - 2 /\ GoesUp(link, k)
  BY DEF IsShortened
<1>2. P \in Nat /\ L \in Nat /\ N \in Nat
  BY DEF ProperPaths
<1>3. Tail(path) \in ProperPaths /\ Len(Tail(path)) = P - 1
  BY ProperTail DEF IsShortened
<1>4. /\ k \in Nat \ {0} /\ j \in Nat /\ k = j + 1 /\ G = j
      /\ k \in 0..(P - 1) /\ j \in 0..G /\ j < N
  <2> HIDE DEF L, N, P
  <2> QED  BY <1>1, <1>2, <1>3
<1>5. /\ \A i \in 1..k : d[i] = ".."
      /\ \A i \in (k + 1)..L : IsName(d[i])
  BY DEF GoesUp, IsShortened
<1>6. (\A i \in 1..j : e[i] = d[i]) /\ \A i \in k..N : e[i] = d[i + 2]
  <2> HIDE DEF d, e, j, N, L, P
  <2>1. \A i \in 1..j : i \in 1..L /\ i \in 1..N
    BY <1>1, <1>2, <1>4
  <2>2. \A i \in k..N : i + 2 \in 1..L /\ i \in 1..N
    BY <1>1, <1>2, <1>4
  <2> QED  BY <2>1, <2>2, DecodedAlike DEF IsShortened, d, e, L, N, j
<1>7. GoesUp(new, j)
  <2> HIDE DEF d, e, j, N, L, P
  <2>1. \A i \in 1..j : i \in 1..k
    BY <1>4
  <2>2. \A i \in (j + 1)..N : i \in k..N /\ i + 2 \in (k + 1)..L
    BY <1>1, <1>2, <1>4
  <2>3. \A i \in 1..j : e[i] = ".."
    BY <1>5, <1>6, <2>1
  <2>4. \A i \in (j + 1)..N : IsName(e[i])
    BY <1>5, <1>6, <2>2
  <2> QED  BY <1>4, <2>3, <2>4 DEF GoesUp, e, N
<1>8. /\ t \in Seq(Components) /\ Len(t) = P - 1 - k + (L - k)
      /\ \A a \in 1..(P - 1 - k + (L - k)) :
           t[a] = IF a <= P - 1 - k THEN path[a]
                  ELSE d[a - (P - 1) + k + k]
  <2> HIDE DEF t, d, L, P
  <2> QED  BY <1>1, <1>4, LinkTargetIs DEF t, d, L, P
<1>9. /\ r \in Seq(Components) /\ Len(r) = G - j + (N - j)
      /\ \A a \in 1..(G - j + (N - j)) :
           r[a] = IF a <= G - j THEN Tail(path)[a] ELSE e[a - G + j + j]
  <2> HIDE DEF r, e, N, j, P
  <2> QED  BY <1>3, <1>4, <1>7, LinkTargetIs DEF r, e, N
<1> HIDE DEF L, N, P, j, G, d, e, t, r
<1>10. /\ t \in Seq(Components) /\ Len(t) = L - k
      /\ \A a \in 1..(L - k) : t[a] = d[a + k]
  <2>1. /\ P - 1 - k + (L - k) = L - k
        /\ \A a \in 1..(L - k) : /\ ~ (a <= P - 1 - k)
                                 /\ a - (P - 1) + k + k = a + k
    BY <1>1, <1>2, <1>4
  <2> QED  BY <1>8, <2>1
<1>11. /\ r \in Seq(Components) /\ Len(r) = N - j
       /\ \A a \in 1..(N - j) : r[a] = e[a + j]
  <2>1. /\ G - j + (N - j) = N - j
        /\ \A a \in 1..(N - j) : ~ (a <= G - j) /\ a - G + j + j = a + j
    BY <1>2, <1>4
  <2> QED  BY <1>9, <2>1
<1>12. t # <<>> /\ Len(t) - 1 = N - j
  BY <1>1, <1>2, <1>4, <1>10
<1>13. /\ Tail(t) \in Seq(Components) /\ Len(Tail(t)) = N - j
       /\ \A a \in 1..(N - j) : Tail(t)[a] = t[a + 1]
  BY <1>10, <1>12, TailOf
<1>14. /\ Len(t) = N - j + 1
       /\ \A i \in 1..(N - j + 1) : t[i] = d[i + j + 1]
       /\ \A i \in (j + 1)..N : e[i] = d[i + 2]
  <2>1. /\ L - k = N - j + 1 /\ (j + 1)..N = k..N
        /\ \A i \in 1..(N - j + 1) : i + k = i + j + 1
    BY <1>1, <1>2, <1>4
  <2> QED  BY <1>6, <1>10, <2>1
<1>15. ASSUME NEW a \in 1..(N - j) PROVE r[a] = Tail(t)[a]
  <2>1. /\ a + 1 \in 1..(N - j + 1) /\ a + j \in (j + 1)..N
        /\ a + j + 2 = a + 1 + j + 1
    BY <1>2, <1>4, PositionsAcross, Zenon
  <2>2. r[a] = d[a + j + 2]
    BY <1>11, <1>14, <2>1, Zenon
  <2>3. Tail(t)[a] = d[a + 1 + j + 1]
    BY <1>13, <1>14, <2>1, Zenon
  <2> QED  BY <2>1, <2>2, <2>3, Zenon
<1>16. r = Tail(t)
  BY <1>11, <1>13, <1>15, SameSequence
<1> QED
  BY <1>16 DEF r, t

LEMMA BeginsWith ==
    ASSUME NEW T, NEW s \in Seq(T), NEW t \in Seq(T)
    PROVE  IsPrefix(s, t) <=> Len(s) <= Len(t) /\ \A i \in 1..Len(s) : s[i] = t[i]
<1> DEFINE m == Len(s)
<1>1. m \in Nat /\ Len(t) \in Nat
  OBVIOUS
<1>2. SubSeq(s, 1, m) \in Seq(T) /\ Len(SubSeq(s, 1, m)) = m
      /\ \A i \in 1..m : SubSeq(s, 1, m)[i] = s[i]
  OBVIOUS
<1>3. CASE m <= Len(t)
  <2> DEFINE u == SubSeq(t, 1, m)
  <2>1. u \in Seq(T) /\ Len(u) = m /\ \A i \in 1..m : u[i] = t[i]
    <3> HIDE DEF m
    <3> QED  BY <1>1, <1>3
  <2>2. IsPrefix(s, t) <=> SubSeq(s, 1, m) = u
    BY <1>3 DEF IsPrefix
  <2> HIDE DEF u, m
  <2>3. (\A i \in 1..m : s[i] = t[i]) => SubSeq(s, 1, m) = u
    BY <1>2, <2>1, SameSequence
  <2>4. SubSeq(s, 1, m) = u => \A i \in 1..m : s[i] = t[i]
    BY <1>2, <2>1
  <2> QED  BY <1>3, <2>2, <2>3, <2>4 DEF m
<1>4. CASE ~ (m <= Len(t))
  BY <1>4 DEF IsPrefix
<1> QED
  BY <1>3, <1>4

LEMMA Tuples ==
    ASSUME NEW T, NEW a \in T, NEW b \in T, NEW c \in T
    PROVE  /\ <<a>> \in Seq(T) /\ Len(<<a>>) = 1 /\ <<a>>[1] = a
           /\ <<a, b>> \in Seq(T) /\ Len(<<a, b>>) = 2 /\ <<a, b>>[1] = a /\ <<a, b>>[2] = b
           /\ <<a, b, c>> \in Seq(T) /\ Len(<<a, b, c>>) = 3
           /\ <<a, b, c>>[1] = a /\ <<a, b, c>>[2] = b /\ <<a, b, c>>[3] = c
  OBVIOUS

\* What is replaced in the first and in the second place.
IsDeep(link, ns) == Len(link) > 3 /\ link[1] = ".." /\ link[2] = ".." /\ link[3] = ns
IsFlat(link, ns) == Len(link) > 2 /\ link[1] = ".." /\ link[2] = ns

LEMMA ReplacedDeep ==
    ASSUME NEW link \in Seq(STRING), NEW ns
    PROVE  Replaced(link, <<"..", "..", ns>>, <<"..">>) =
             IF IsDeep(link, ns) THEN <<"..">> \o SubSeq(link, 4, Len(link)) ELSE link
<1> DEFINE T == STRING \cup {"..", ns}
           s == <<"..", "..", ns>>
<1>1. s \in Seq(T) /\ Len(s) = 3 /\ s[1] = ".." /\ s[2] = ".." /\ s[3] = ns /\ Len(link) \in Nat
      /\ link \in Seq(T)
  <2>1. ".." \in T /\ ns \in T /\ STRING \subseteq T
    OBVIOUS
  <2> HIDE DEF T
  <2> QED  BY <2>1, Tuples, WiderSeq, SeqElements, Zenon
<1> HIDE DEF s, T
<1>2. \A i \in 1..3 : i = 1 \/ i = 2 \/ i = 3
  OBVIOUS
<1>3. 1 \in 1..3 /\ 2 \in 1..3 /\ 3 \in 1..3 /\ 3 + 1 = 4
  OBVIOUS
<1>4. IsPrefix(s, link) <=> Len(s) <= Len(link) /\ \A i \in 1..Len(s) : s[i] = link[i]
  <2>1. s \in Seq(T) /\ link \in Seq(T)
    BY <1>1, Zenon
  <2> QED  BY <2>1, BeginsWith
<1>5. Len(s) < Len(link) /\ IsPrefix(s, link) <=> IsDeep(link, ns)
  <2>1. (\A i \in 1..Len(s) : s[i] = link[i]) <=> link[1] = ".." /\ link[2] = ".." /\ link[3] = ns
    BY <1>1, <1>2, <1>3
  <2>2. Len(s) < Len(link) <=> Len(link) > 3
    BY <1>1
  <2>3. Len(s) < Len(link) => Len(s) <= Len(link)
    BY <1>1
  <2> QED  BY <1>4, <2>1, <2>2, <2>3 DEF IsDeep
<1>6. Replaced(link, s, <<"..">>) =
        IF IsDeep(link, ns) THEN <<"..">> \o SubSeq(link, Len(s) + 1, Len(link)) ELSE link
  BY <1>5, Zenon DEF Replaced
<1>7. Len(s) + 1 = 4
  BY <1>1, <1>3
<1> QED
  BY <1>6, <1>7 DEF s

LEMMA ReplacedFlat ==
    ASSUME NEW link \in Seq(STRING), NEW ns
    PROVE  Replaced(link, <<"..", ns>>, <<>>) =
             IF IsFlat(link, ns) THEN SubSeq(link, 3, Len(link)) ELSE link
<1> DEFINE T == STRING \cup {"..", ns}
           s == <<"..", ns>>
           r == SubSeq(link, 3, Len(link))
<1>1. s \in Seq(T) /\ Len(s) = 2 /\ s[1] = ".." /\ s[2] = ns /\ Len(link) \in Nat
      /\ link \in Seq(T)
  <2>1. ".." \in T /\ ns \in T /\ STRING \subseteq T
    OBVIOUS
  <2> HIDE DEF T
  <2> QED  BY <2>1, Tuples, WiderSeq, SeqElements, Zenon
<1>2. <<>> \o r = r
  <2>1. r \in Seq(STRING)
    BY <1>1
  <2> HIDE DEF r
  <2> QED  BY <2>1
<1> HIDE DEF s, T
<1>3. \A i \in 1..2 : i = 1 \/ i = 2
  OBVIOUS
<1>4. 1 \in 1..2 /\ 2 \in 1..2 /\ 2 + 1 = 3
  OBVIOUS
<1>5. IsPrefix(s, link) <=> Len(s) <= Len(link) /\ \A i \in 1..Len(s) : s[i] = link[i]
  <2>1. s \in Seq(T) /\ link \in Seq(T)
    BY <1>1, Zenon
  <2> QED  BY <2>1, BeginsWith
<1>6. Len(s) < Len(link) /\ IsPrefix(s, link) <=> IsFlat(link, ns)
  <2>1. (\A i \in 1..Len(s) : s[i] = link[i]) <=> link[1] = ".." /\ link[2] = ns
    BY <1>1, <1>3, <1>4
  <2>2. Len(s) < Len(link) <=> Len(link) > 2
    BY <1>1
  <2>3. Len(s) < Len(link) => Len(s) <= Len(link)
    BY <1>1
  <2> QED  BY <1>5, <2>1, <2>2, <2>3 DEF IsFlat
<1>7. Replaced(link, s, <<>>) =
        IF IsFlat(link, ns) THEN <<>> \o SubSeq(link, Len(s) + 1, Len(link)) ELSE link
  BY <1>6, Zenon DEF Replaced
<1>8. Len(s) + 1 = 3
  BY <1>1, <1>4
<1> QED
  BY <1>2, <1>7, <1>8 DEF s

\* One round for a link that has nothing to replace, and for one that has.
LEMMA NotPatched ==
    ASSUME NEW link \in Seq(STRING), NEW ns, ~IsDeep(link, ns), ~IsFlat(link, ns)
    PROVE  Patched(link, ns) = link
<1>1. Replaced(link, <<"..", "..", ns>>, <<"..">>) = link
  BY ReplacedDeep
<1>2. Replaced(link, <<"..", ns>>, <<>>) = link
  BY ReplacedFlat
<1> QED
  BY <1>1, <1>2, Zenon DEF Patched

LEMMA FlatPatched ==
    ASSUME NEW link \in Seq(STRING), NEW ns, ~IsDeep(link, ns), IsFlat(link, ns)
    PROVE  Patched(link, ns) = SubSeq(link, 3, Len(link))
<1>1. Replaced(link, <<"..", "..", ns>>, <<"..">>) = link
  BY ReplacedDeep
<1>2. Replaced(link, <<"..", ns>>, <<>>) = SubSeq(link, 3, Len(link))
  BY ReplacedFlat
<1> QED
  BY <1>1, <1>2, Zenon DEF Patched

\* The elements of what remains.
LEMMA RestOf ==
    ASSUME NEW T, NEW s \in Seq(T), NEW m \in Nat, m < Len(s)
    PROVE  /\ SubSeq(s, m + 1, Len(s)) \in Seq(T)
           /\ Len(SubSeq(s, m + 1, Len(s))) = Len(s) - m
           /\ \A i \in 1..(Len(s) - m) : SubSeq(s, m + 1, Len(s))[i] = s[i + m]
<1> DEFINE L == Len(s)
           r == SubSeq(s, m + 1, L)
<1>1. L \in Nat /\ m + 1 \in 1..L /\ L \in 1..L /\ L - (m + 1) + 1 = L - m
      /\ \A i \in 1..(L - m) : m + 1 + i - 1 = i + m
  <2>1. L \in Nat
    OBVIOUS
  <2>2. m < L
    OBVIOUS
  <2> HIDE DEF L
  <2> QED  BY <2>1, <2>2
<1>2. r \in Seq(T)
  <2> HIDE DEF L
  <2> QED  BY <1>1 DEF L
<1>3. Len(r) = L - (m + 1) + 1
  <2> HIDE DEF L
  <2> QED  BY <1>1
<1>4. \A i \in 1..(L - (m + 1) + 1) : r[i] = s[m + 1 + i - 1]
  <2> HIDE DEF L
  <2> QED  BY <1>1
<1> QED
  BY <1>1, <1>2, <1>3, <1>4

LEMMA DeepPatched ==
    ASSUME NEW link \in Seq(STRING), NEW ns, IsDeep(link, ns), link[4] # ns
    PROVE  /\ Patched(link, ns) = <<"..">> \o SubSeq(link, 4, Len(link))
           /\ Patched(link, ns) \in Seq(STRING)
           /\ Len(Patched(link, ns)) = Len(link) - 2
           /\ Patched(link, ns)[1] = ".."
           /\ \A i \in 2..(Len(link) - 2) : Patched(link, ns)[i] = link[i + 2]
<1> DEFINE L == Len(link)
           u == SubSeq(link, 3 + 1, L)
           r == <<"..">> \o u
<1>1. L \in Nat /\ L > 3
  BY DEF IsDeep
<1>2. u \in Seq(STRING) /\ Len(u) = L - 3 /\ \A i \in 1..(L - 3) : u[i] = link[i + 3]
  BY <1>1, RestOf
<1> HIDE DEF u
<1>3. /\ r \in Seq(STRING) /\ Len(r) = 1 + Len(u) /\ r[1] = ".."
      /\ \A i \in 1..Len(u) : r[1 + i] = u[i]
  <2>1. <<"..">> \in Seq(STRING) /\ Len(<<"..">>) = 1 /\ <<"..">>[1] = ".." /\ 1 \in 1..1
    <3>1. 1 \in 1..1 /\ 1 \in 1..Len(link)
      BY <1>1
    <3>2. link[1] \in STRING /\ link[1] = ".."
      BY <3>1, SeqElements DEF IsDeep
    <3>3. ".." \in STRING
      BY <3>2, Zenon
    <3> QED  BY <3>1, <3>3, Tuples, Zenon
  <2> QED  BY <1>2, <2>1, ConcatenationOf
<1> HIDE DEF r, L
<1>4. Len(r) = L - 2 /\ \A i \in 2..(L - 2) : r[i] = link[i + 2]
  <2>1. Len(r) = L - 2
    BY <1>1, <1>2, <1>3
  <2>2. ASSUME NEW i \in 2..(L - 2) PROVE r[i] = link[i + 2]
    <3>1. PICK n \in 1..(L - 3) : i = 1 + n
      BY <1>1
    <3>2. r[1 + n] = link[n + 3] /\ n + 3 = i + 2
      BY <1>2, <1>3, <3>1
    <3> QED  BY <3>1, <3>2
  <2> QED  BY <2>1, <2>2
<1>5. ~IsFlat(r, ns)
  <2>1. CASE Len(r) > 2
    <3>1. 2 \in 2..(L - 2) /\ 2 + 2 = 4
      BY <1>1, <1>4, <2>1
    <3>2. r[2] = link[4]
      BY <1>4, <3>1
    <3> QED  BY <3>2 DEF IsFlat
  <2>2. CASE ~ (Len(r) > 2)
    BY <2>2 DEF IsFlat
  <2> QED  BY <2>1, <2>2
<1>6. Replaced(link, <<"..", "..", ns>>, <<"..">>) = r
  <2>1. Replaced(link, <<"..", "..", ns>>, <<"..">>) = <<"..">> \o SubSeq(link, 4, Len(link))
    BY ReplacedDeep
  <2>2. 3 + 1 = 4
    OBVIOUS
  <2> QED  BY <2>1, <2>2 DEF r, u, L
<1>7. Replaced(r, <<"..", ns>>, <<>>) = r
  BY <1>3, <1>5, ReplacedFlat
<1>8. Patched(link, ns) = r
  BY <1>6, <1>7, Zenon DEF Patched
<1>9. r = <<"..">> \o SubSeq(link, 4, Len(link))
  <2>1. 3 + 1 = 4
    OBVIOUS
  <2> QED  BY <2>1 DEF r, u, L
<1> QED
  BY <1>3, <1>4, <1>8, <1>9 DEF L

LEMMA PlainLinkGoesUp ==
    ASSUME NEW link \in Seq(STRING), IsPlainLink(link)
    PROVE  \E k \in Nat :
             /\ GoesUp(link, k)
             /\ \A i \in 1..k : link[i] = ".."
             /\ \A i \in (k + 1)..Len(link) : IsName(link[i])
<1> DEFINE L == Len(link)
           d == DecodeUrl(link)
<1>1. L \in Nat /\ DOMAIN link = 1..L
  BY SeqElements
<1>2. PICK k \in 0..(L - 1) : /\ \A i \in 1..k : link[i] = ".."
                              /\ \A i \in (k + 1)..L : IsName(link[i])
  BY DEF IsPlainLink
<1>3. \A i \in DOMAIN link : d[i] # link[i] =>
        {link[i], d[i]} \cap (Dots \cup {""} \cup Namespaces) = {}
  BY DEF IsPlainLink
<1> HIDE DEF d, L
<1>4. k \in Nat /\ k < L
  BY <1>1
<1>5. ASSUME NEW i \in 1..k PROVE d[i] = ".."
  <2>1. i \in DOMAIN link
    BY <1>1, <1>4
  <2>2. link[i] \in Dots
    BY <1>2 DEF Dots
  <2> QED  BY <1>2, <1>3, <2>1, <2>2
<1>6. ASSUME NEW i \in (k + 1)..L PROVE IsName(d[i])
  <2>1. i \in DOMAIN link
    BY <1>1, <1>4
  <2>2. CASE d[i] = link[i]
    BY <1>2, <2>2
  <2>3. CASE d[i] # link[i]
    BY <1>3, <2>1, <2>3 DEF IsName
  <2> QED  BY <2>2, <2>3
<1>7. GoesUp(link, k)
  BY <1>4, <1>5, <1>6 DEF GoesUp, d, L
<1> QED
  BY <1>2, <1>4, <1>7 DEF L

\* Who stays inside does not go up further than to the namespace.
LEMMA StaysInside ==
    ASSUME NEW path \in ProperPaths, NEW link \in Seq(STRING), NEW k \in Nat,
           GoesUp(link, k), ~LeadsOutside([path |-> link], path)
    PROVE  k <= Len(path) - 1
<1> DEFINE F == Len(path) - 1
           L == Len(link)
           d == DecodeUrl(link)
           steps == Steps([path |-> link], path)
<1>1. /\ F \in Nat /\ L \in Nat /\ DOMAIN steps = 1..(F + L)
      /\ \A i \in 1..F : IsName(steps[i])
      /\ \A i \in 1..L : steps[F + i] = d[i]
  BY StepsOf
<1>2. k < L /\ \A i \in 1..k : d[i] = ".."
  BY DEF GoesUp
<1>3. ~ (\E j \in DOMAIN steps : Rises(steps, 1..j))
  BY DEF LeadsOutside
<1> HIDE DEF F, L, d, steps
<1> SUFFICES ASSUME k > F PROVE FALSE
  BY <1>1 DEF F
<1>4. \A i \in 1..(F + 1) : i \in 1..k /\ i \in 1..L
  BY <1>1, <1>2
<1>5. \A i \in 1..(F + 1) : steps[F + i] = ".."
  BY <1>1, <1>2, <1>4
<1>6. Rises(steps, 1..(F + (F + 1)))
  BY <1>1, <1>5, UpTooFar
<1>7. F + (F + 1) \in 1..(F + L)
  BY <1>1, <1>2
<1> QED
  BY <1>1, <1>3, <1>6, <1>7

\* All rounds.
LEMMA NeverPatched ==
    ASSUME NEW link \in Seq(STRING),
           \A ns \in Namespaces : ~IsDeep(link, ns) /\ ~IsFlat(link, ns)
    PROVE  PatchedLink(link) = link
<1>1. \A ns \in Namespaces : Patched(link, ns) = link
  BY NotPatched
<1>2. "A" \in Namespaces /\ "I" \in Namespaces /\ "J" \in Namespaces /\ "-" \in Namespaces
  BY Zenon DEF Namespaces
<1> QED
  BY <1>1, <1>2, Zenon DEF PatchedLink

LEMMA PatchedOnce ==
    ASSUME NEW link, NEW new, NEW ns \in Namespaces, Patched(link, ns) = new,
           \A other \in Namespaces \ {ns} : Patched(link, other) = link,
           \A other \in Namespaces : Patched(new, other) = new
    PROVE  PatchedLink(link) = new
<1>1. ns = "A" \/ ns = "I" \/ ns = "J" \/ ns = "-"
  BY Zenon DEF Namespaces
<1>2. "A" \in Namespaces /\ "I" \in Namespaces /\ "J" \in Namespaces /\ "-" \in Namespaces
  BY Zenon DEF Namespaces
<1>3. /\ "A" # "I" /\ "A" # "J" /\ "A" # "-"
      /\ "I" # "J" /\ "I" # "-" /\ "J" # "-"
  OBVIOUS
<1>4. CASE ns = "A"
  <2>1. Patched(link, "A") = new /\ Patched(new, "I") = new /\ Patched(new, "J") = new
        /\ Patched(new, "-") = new
    BY <1>2, <1>4, Zenon
  <2> QED  BY <2>1, Zenon DEF PatchedLink
<1>5. CASE ns = "I"
  <2>1. Patched(link, "A") = link
    BY <1>2, <1>3, <1>5, Zenon
  <2>2. Patched(link, "I") = new /\ Patched(new, "J") = new /\ Patched(new, "-") = new
    BY <1>2, <1>5, Zenon
  <2> QED  BY <2>1, <2>2, Zenon DEF PatchedLink
<1>6. CASE ns = "J"
  <2>1. Patched(link, "A") = link /\ Patched(link, "I") = link
    BY <1>2, <1>3, <1>6, Zenon
  <2>2. Patched(link, "J") = new /\ Patched(new, "-") = new
    BY <1>2, <1>6, Zenon
  <2> QED  BY <2>1, <2>2, Zenon DEF PatchedLink
<1>7. CASE ns = "-"
  <2>1. Patched(link, "A") = link /\ Patched(link, "I") = link /\ Patched(link, "J") = link
    BY <1>2, <1>3, <1>7, Zenon
  <2>2. Patched(link, "-") = new
    BY <1>7, Zenon
  <2> QED  BY <2>1, <2>2, Zenon DEF PatchedLink
<1> QED
  BY <1>1, <1>4, <1>5, <1>6, <1>7

\* Links that zimrecreate adapts lead where they led: on the page without its
\* namespace (PatchItem::getPath()), the patched link leads to what the old one led
\* to, without its namespace.
THEOREM PatchedLinksLead ==
    ASSUME NEW paths, paths \subseteq OldPaths, NEW path \in paths,
           NEW link \in Seq(STRING), IsAdapted(link, path, paths)
    PROVE  LinkTarget(PatchedLink(link), Tail(path)) = Tail(LinkTarget(link, path))
<1> DEFINE F == Len(path) - 1
           L == Len(link)
           d == DecodeUrl(link)
           target == LinkTarget(link, path)
<1>1. /\ path \in ProperPaths /\ Len(path) > 1 /\ Len(path) <= 3 /\ Len(path) \in Nat
      /\ target \in ProperPaths /\ Len(target) > 1 /\ L \in Nat
  <2>1. path \in ProperPaths /\ Len(path) > 1 /\ target \in ProperPaths /\ Len(target) > 1
    BY DEF IsAdapted, IsFollowed, OldPaths
  <2>2. Len(path) \in Nat /\ L \in Nat
    BY <2>1, SeqElements DEF ProperPaths
  <2> QED  BY <2>1, <2>2 DEF IsAdapted
<1>2. IsPlainLink(link) /\ ~LeadsOutside([path |-> link], path)
  BY DEF IsAdapted, IsFollowed
<1>3. target[1] \in Namespaces /\ \A n \in 2..Len(target) : target[n] \notin Namespaces
  BY DEF IsAdapted, IsFollowed
<1>4. PICK k \in Nat : /\ GoesUp(link, k)
                       /\ \A i \in 1..k : link[i] = ".."
                       /\ \A i \in (k + 1)..L : IsName(link[i])
  BY <1>2, PlainLinkGoesUp
<1>5. k <= F /\ (F = 1 \/ F = 2) /\ k < L
  <2>1. k < L
    BY <1>4 DEF GoesUp
  <2>2. k <= F
    BY <1>1, <1>2, <1>4, StaysInside
  <2>3. \A n \in Nat : n > 1 /\ n <= 3 => n - 1 = 1 \/ n - 1 = 2
    OBVIOUS
  <2>4. F = 1 \/ F = 2
    BY <1>1, <2>3, Zenon
  <2> QED  BY <2>1, <2>2, <2>4, Zenon
<1>6. /\ Len(target) = F - k + (L - k)
      /\ \A a \in 1..(F - k + (L - k)) :
           target[a] = IF a <= F - k THEN path[a] ELSE d[a - F + k + k]
  <2>1. k \in 0..(Len(path) - 1)
    BY <1>1, <1>5
  <2> QED  BY <1>1, <1>4, <2>1, LinkTargetIs
<1>7. \A i \in 1..L : link[i] \in Namespaces \/ d[i] \in Namespaces => d[i] = link[i]
  <2>1. DOMAIN link = 1..L
    BY SeqElements
  <2> QED  BY <1>2, <2>1 DEF IsPlainLink
<1> HIDE DEF F, L, d, target
<1>8. ".." \notin Namespaces
  BY DEF Namespaces
<1>9. ~IsName("..")
  BY DEF IsName, Dots
<1>10. CASE k < F
  <2>1. \A ns \in Namespaces : ~IsDeep(link, ns)
    <3>1. CASE k = 0
      <4>1. 1 \in (k + 1)..L
        BY <1>1, <1>5, <3>1
      <4>2. link[1] # ".."
        BY <1>4, <1>9, <4>1
      <4> QED  BY <4>2 DEF IsDeep
    <3>2. CASE k = 1
      <4>1. L > 3 => 2 \in (k + 1)..L
        BY <1>1, <1>5, <3>2
      <4>2. L > 3 => link[2] # ".."
        BY <1>4, <1>9, <4>1
      <4> QED  BY <4>2 DEF IsDeep, L
    <3> QED  BY <1>5, <1>10, <3>1, <3>2
  <2>2. \A ns \in Namespaces : ~IsFlat(link, ns)
    <3>1. CASE k = 0
      <4>1. 1 \in (k + 1)..L
        BY <1>1, <1>5, <3>1
      <4>2. link[1] # ".."
        BY <1>4, <1>9, <4>1
      <4> QED  BY <4>2 DEF IsFlat
    <3>2. CASE k = 1 /\ L > 2
      <4>1. F = 2 /\ 2 \in 1..L /\ 2 \in 1..(F - k + (L - k)) /\ ~ (2 <= F - k)
            /\ 2 - F + k + k = 2
        BY <1>1, <1>5, <1>10, <3>2
      <4>2. target[2] = d[2]
        BY <1>6, <4>1
      <4>3. 2 \in 2..Len(target)
        BY <1>6, <4>1
      <4>4. d[2] \notin Namespaces
        BY <1>3, <4>2, <4>3
      <4>5. link[2] \notin Namespaces
        BY <1>7, <4>1, <4>4
      <4> QED  BY <4>5 DEF IsFlat
    <3>3. CASE ~ (L > 2)
      BY <3>3 DEF IsFlat, L
    <3> QED  BY <1>5, <1>10, <3>1, <3>2, <3>3
  <2>3. PatchedLink(link) = link
    BY <2>1, <2>2, NeverPatched
  <2>4. LinkTarget(link, Tail(path)) = Tail(target)
    BY <1>1, <1>4, <1>10, LinkBelow DEF F, target
  <2> QED  BY <2>3, <2>4 DEF target
<1>11. CASE k = F
  <2> DEFINE ns == link[k + 1]
             new == PatchedLink(link)
  <2>1. Len(target) = L - k /\ \A a \in 1..(L - k) : target[a] = d[a + k]
    <3>1. F - k + (L - k) = L - k /\ \A a \in 1..(L - k) :
             ~ (a <= F - k) /\ a - F + k + k = a + k
      BY <1>1, <1>5, <1>11
    <3> QED  BY <1>6, <3>1
  <2>2. L > k + 1
    BY <1>1, <2>1
  <2>3. k + 1 \in 1..L /\ k + 2 \in 1..L /\ 1 \in 1..(L - k) /\ 2 \in 1..(L - k) /\ 1 + k = k + 1
        /\ 2 + k = k + 2 /\ 2 \in 2..Len(target) /\ k + 2 \in (k + 1)..L
    BY <1>1, <2>1, <2>2
  <2>4. ns \in Namespaces
    <3>1. d[k + 1] \in Namespaces
      BY <1>3, <2>1, <2>3
    <3> QED  BY <1>7, <2>3, <3>1
  <2>5. link[k + 2] \notin Namespaces /\ link[k + 2] # ".."
    <3>1. d[k + 2] \notin Namespaces
      BY <1>3, <2>1, <2>3
    <3>2. link[k + 2] \notin Namespaces
      BY <1>7, <2>3, <3>1
    <3>3. link[k + 2] # ".."
      BY <1>4, <1>9, <2>3
    <3> QED  BY <3>2, <3>3
  <2>6. /\ new \in Seq(STRING) /\ Len(new) = L - 2
        /\ \A i \in 1..(k - 1) : new[i] = link[i]
        /\ \A i \in k..(L - 2) : new[i] = link[i + 2]
    <3> HIDE DEF ns, new
    <3>1. CASE F = 1
      <4> DEFINE r == SubSeq(link, 3, L)
      <4>1. link[1] = ".." /\ link[2] = ns /\ L > 2 /\ ns # ".." /\ link[3] # ".."
        <5>1. k = 1 /\ 1 \in 1..k /\ k + 1 = 2 /\ k + 2 = 3
          BY <1>11, <3>1
        <5>2. L > 2 /\ link[2] = ns /\ link[3] # ".."
          BY <2>2, <2>5, <5>1 DEF ns
        <5>3. link[1] = ".."
          BY <1>4, <5>1
        <5> QED  BY <1>8, <2>4, <5>2, <5>3
      <4>2. r \in Seq(STRING) /\ Len(r) = L - 2 /\ \A i \in 1..(L - 2) : r[i] = link[i + 2]
        <5>1. 2 + 1 = 3 /\ 2 \in Nat
          OBVIOUS
        <5>2. 2 < Len(link)
          BY <4>1 DEF L
        <5> QED  BY <5>1, <5>2, RestOf DEF L
      <4> HIDE DEF r
      <4>3. r[1] # ".."
        <5>1. 1 \in 1..(L - 2) /\ 1 + 2 = 3
          BY <1>1, <4>1
        <5> QED  BY <4>1, <4>2, <5>1
      <4>4. Patched(link, ns) = r
        <5>1. IsFlat(link, ns)
          BY <4>1 DEF IsFlat, L
        <5>2. ~IsDeep(link, ns)
          BY <4>1 DEF IsDeep
        <5> QED  BY <5>1, <5>2, FlatPatched DEF r, L
      <4>5. ASSUME NEW other \in Namespaces \ {ns} PROVE Patched(link, other) = link
        <5>1. ~IsDeep(link, other) /\ ~IsFlat(link, other)
          BY <4>1 DEF IsDeep, IsFlat
        <5> QED  BY <5>1, NotPatched
      <4>6. ASSUME NEW other \in Namespaces PROVE Patched(r, other) = r
        <5>1. ~IsDeep(r, other) /\ ~IsFlat(r, other)
          BY <4>3 DEF IsDeep, IsFlat
        <5> QED  BY <4>2, <5>1, NotPatched
      <4>7. new = r
        BY <2>4, <4>4, <4>5, <4>6, PatchedOnce, Zenon DEF new
      <4>8. k = 1 /\ \A i : ~ (i \in 1..(k - 1))
        BY <1>11, <3>1
      <4> QED  BY <4>2, <4>7, <4>8
    <3>2. CASE F = 2
      <4> DEFINE r == Patched(link, ns)
      <4>1. link[1] = ".." /\ link[2] = ".." /\ link[3] = ns /\ L > 3 /\ ns # ".."
            /\ link[4] \notin Namespaces /\ link[4] # ".."
        <5>1. k = 2 /\ 1 \in 1..k /\ 2 \in 1..k /\ k + 1 = 3 /\ k + 2 = 4
          BY <1>11, <3>2
        <5>2. L > 3 /\ link[3] = ns /\ link[4] \notin Namespaces /\ link[4] # ".."
          BY <2>2, <2>5, <5>1 DEF ns
        <5>3. link[1] = ".." /\ link[2] = ".."
          BY <1>4, <5>1
        <5> QED  BY <1>8, <2>4, <5>2, <5>3
      <4>2. /\ r \in Seq(STRING) /\ Len(r) = L - 2 /\ r[1] = ".."
            /\ \A i \in 2..(L - 2) : r[i] = link[i + 2]
        <5>1. IsDeep(link, ns)
          BY <4>1 DEF IsDeep, L
        <5>2. link[4] # ns
          BY <2>4, <4>1
        <5> QED  BY <5>1, <5>2, DeepPatched DEF L
      <4> HIDE DEF r
      <4>3. r[2] \notin Namespaces /\ r[2] # ".."
        <5>1. 2 \in 2..(L - 2) /\ 2 + 2 = 4
          BY <1>1, <4>1
        <5>2. r[2] = link[4]
          BY <4>2, <5>1
        <5> QED  BY <4>1, <5>2
      <4>4. ASSUME NEW other \in Namespaces \ {ns} PROVE Patched(link, other) = link
        <5>1. ~IsDeep(link, other) /\ ~IsFlat(link, other)
          BY <1>8, <4>1 DEF IsDeep, IsFlat
        <5> QED  BY <5>1, NotPatched
      <4>5. ASSUME NEW other \in Namespaces PROVE Patched(r, other) = r
        <5>1. ~IsDeep(r, other) /\ ~IsFlat(r, other)
          BY <4>3 DEF IsDeep, IsFlat
        <5> QED  BY <4>2, <5>1, NotPatched
      <4>6. Patched(link, ns) = r
        BY DEF r
      <4>7. new = r
        BY <2>4, <4>4, <4>5, <4>6, PatchedOnce, Zenon DEF new
      <4>8. k = 2 /\ \A i \in 1..(k - 1) : i = 1
        BY <1>11, <3>2
      <4> QED  BY <4>1, <4>2, <4>7, <4>8
    <3> QED  BY <1>5, <3>1, <3>2
  <2>7. IsShortened(new, link, k, path)
    <3> HIDE DEF new
    <3> QED  BY <1>1, <1>4, <1>11, <2>2, <2>6 DEF IsShortened, F, L
  <2>8. LinkTarget(new, Tail(path)) = Tail(target)
    <3> HIDE DEF new
    <3> QED  BY <1>1, <2>6, <2>7, LinkAcross DEF target
  <2> QED  BY <2>8 DEF target
<1>12. k < F \/ k = F
  BY <1>5
<1> QED
  BY <1>10, <1>11, <1>12
=============================================================================
