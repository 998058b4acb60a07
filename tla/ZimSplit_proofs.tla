--------------------------- MODULE ZimSplit_proofs ---------------------------
(***************************************************************************)
(* The parts that zimsplit writes, proved for every archive, every size of *)
(* a part, every size of the buffer and any number of letters.             *)
(***************************************************************************)
EXTENDS ZimSplit, WellFoundedInduction, TLAPS

(***************************************************************************)
(* The inductive invariant.                                                *)
(***************************************************************************)

\* Everything up to the position is in the parts, toCopy reaches up to the
\* offset the loop is at, and only the last part grows.
Cursor ==
    /\ position + toCopy = last
    /\ parts = <<>> => position = 0 /\ currentPartSize = 0
    /\ parts # <<>> => /\ position = parts[Len(parts)].to
                       /\ currentPartSize = position - parts[Len(parts)].from

Chained ==
    \A k \in 1..Len(parts) : parts[k].from = IF k = 1 THEN 0 ELSE parts[k - 1].to

Control ==
    /\ pc # "exit" => first_index < Letters
    /\ pc = "check" => parts = <<>> /\ last = 0
    /\ pc = "new_file" =>
          \/ parts = <<>> /\ last = 0
          \/ parts # <<>> /\ toCopy > 0
    /\ pc = "offset" => parts # <<>> /\ toCopy = 0
    /\ pc = "copy" => parts # <<>> /\ toCopy > 0
    /\ pc = "exit" /\ exitCode = 0 => parts # <<>> /\ position = filesize

\* A part may span the bytes between two offsets: it begins at a chunk, and is
\* too large only if it is that chunk.
RightlyCut(from, to) ==
    /\ from \in ChunkStarts
    /\ to - from > maxPartSize => to = Following(from)

\* The chunk at the end of a part would have made it too large.
NoRoom(from, to) ==
    /\ to \in ChunkStarts
    /\ (to - from) + ChunkSize(to) > maxPartSize

\* All parts but the last are finished. The last one is when a new file is
\* begun for the next chunk; before, it is on its way to the offset `last`.
Cuts ==
    /\ \A k \in 1..Len(parts) : k < Len(parts) =>
          RightlyCut(parts[k].from, parts[k].to) /\ NoRoom(parts[k].from, parts[k].to)
    /\ parts # <<>> =>
          \/ pc = "exit" /\ exitCode # 0
          \/ /\ pc = "new_file"
             /\ RightlyCut(parts[Len(parts)].from, position)
             /\ NoRoom(parts[Len(parts)].from, position)
             /\ last = Following(position)
          \/ /\ pc # "new_file"
             /\ RightlyCut(parts[Len(parts)].from, last)

\* The order of the names: by the first letter, then by the second.
Before(n, m) == n[1] < m[1] \/ (n[1] = m[1] /\ n[2] < m[2])

\* The suffix to come is behind those that were used.
Names ==
    /\ \A k, m \in 1..Len(parts) : k < m => Before(parts[k].name, parts[m].name)
    /\ pc # "exit" => \A k \in 1..Len(parts) : Before(parts[k].name, suffix)

IInv == TypeOK /\ Cursor /\ Chained /\ Control /\ Cuts /\ Names

(***************************************************************************)
(* Offsets and chunks.                                                     *)
(***************************************************************************)

Archive ==
    /\ filesize \in Nat \ {0}
    /\ clusterOffsets \subseteq 1..(filesize - 1)
    /\ maxPartSize \in Nat

\* A set of numbers that is not empty has a least element: < is well-founded.
LEMMA LeastNumber ==
    ASSUME NEW S, S \subseteq Nat, S # {}
    PROVE  Min(S) \in S /\ \A x \in S : Min(S) <= x
<1> DEFINE R == {p \in Nat \X Nat : p[1] < p[2]}
<1>1. \E x \in S : \A y \in S : ~ (<<y, x>> \in R)
  <2>1. IsWellFoundedOn(R, Nat)
    BY NatLessThanWellFounded DEF OpToRel
  <2> QED  BY <2>1, WFMin, Zenon
<1>2. \A x, y \in Nat : y < x => <<y, x>> \in R
  OBVIOUS
<1> HIDE DEF R
<1>3. PICK x \in S : \A y \in S : ~ (y < x)
  BY <1>1, <1>2
<1>4. \A y \in S : x =< y
  BY <1>3
<1> QED  BY <1>3, <1>4 DEF Min

\* A chunk is not empty and ends at an offset, at the latest at the end of the
\* archive; no chunk starts inside it.
LEMMA ChunkEnds ==
    ASSUME Archive, NEW o \in ChunkStarts
    PROVE  /\ o \in 0..(filesize - 1)
           /\ Following(o) \in Offsets
           /\ Following(o) \in (o + 1)..filesize
           /\ ChunkSize(o) = Following(o) - o
           /\ ChunkSize(o) \in 1..filesize
<1> DEFINE S == {x \in Offsets : x > o}
<1>1. /\ filesize \in Nat /\ o \in Nat /\ o < filesize
      /\ Offsets \subseteq Nat /\ filesize \in Offsets
      /\ \A x \in Offsets : x <= filesize
  BY DEF Archive, ChunkStarts, Offsets
<1>2. S \subseteq Nat /\ S # {}
  <2>1. S \subseteq Offsets
    OBVIOUS
  <2>2. filesize \in S
    BY <1>1
  <2> QED  BY <1>1, <2>1, <2>2
<1>3. Min(S) \in S /\ \A x \in S : Min(S) <= x
  BY <1>2, LeastNumber, Zenon
<1>4. Following(o) = Min(S)
  BY DEF Following
<1>5. Following(o) \in Offsets /\ Following(o) > o
  BY <1>3, <1>4
<1>6. Following(o) \in (o + 1)..filesize
  <2>1. Following(o) \in Nat /\ Following(o) <= filesize
    BY <1>1, <1>5, Zenon
  <2>. HIDE DEF S
  <2> QED  BY <1>1, <1>5, <2>1
<1>7. ChunkSize(o) = Following(o) - o
  BY DEF ChunkSize
<1> HIDE DEF S
<1> QED  BY <1>1, <1>5, <1>6, <1>7 DEF Archive

\* Where a chunk ends, the next one starts or the archive ends.
LEMMA NextChunk ==
    ASSUME Archive, NEW o \in ChunkStarts
    PROVE  Following(o) # filesize => Following(o) \in ChunkStarts
BY ChunkEnds DEF ChunkStarts, Archive

-----------------------------------------------------------------------------
(***************************************************************************)
(* Each step keeps the invariant.                                          *)
(***************************************************************************)

LEMMA ArchiveTyped ==
    TypeOK => Archive
<1> SUFFICES ASSUME TypeOK PROVE Archive
  OBVIOUS
<1>1. filesize \in Nat \ {0} /\ maxPartSize \in Nat
  <2>1. filesize \in 1..MaxFileSize /\ maxPartSize \in MaxPartSizes
    BY DEF TypeOK
  <2> QED  BY <2>1, PartSizesAssumption, FileSizeAssumption
<1>2. clusterOffsets \subseteq 1..(filesize - 1)
  BY DEF TypeOK
<1> QED  BY <1>1, <1>2 DEF Archive

\* An element of a sequence.
LEMMA ElementOf ==
    ASSUME NEW S, NEW q \in Seq(S), NEW n \in 1..Len(q)
    PROVE  q[n] \in S
OBVIOUS

LEMMA InitInv == Init => IInv
<1> SUFFICES ASSUME Init PROVE IInv
  OBVIOUS
<1>1. TypeOK
  BY LettersAssumption, FileSizeAssumption DEF Init, TypeOK
<1>2. Cursor /\ Chained /\ Control /\ Cuts /\ Names
  BY LettersAssumption DEF Init, Cursor, Chained, Control, Cuts, Names
<1> QED  BY <1>1, <1>2 DEF IInv

\* The invariant does not say anything of the archive that a step changes.
LEMMA InputStays ==
    ASSUME UNCHANGED input
    PROVE  /\ ChunkStarts' = ChunkStarts
           /\ \A o : Following(o)' = Following(o)
           /\ \A from, to : RightlyCut(from, to)' = RightlyCut(from, to)
           /\ \A from, to : NoRoom(from, to)' = NoRoom(from, to)
BY DEF input, ChunkStarts, Following, Offsets, RightlyCut, NoRoom, ChunkSize

LEMMA CheckSizesKeeps ==
    ASSUME IInv, CheckSizes PROVE IInv'
<1> USE DEF IInv
<1>0. parts = <<>> /\ parts' = <<>>
  BY DEF CheckSizes, Control
<1>1. TypeOK'
  BY DEF TypeOK, CheckSizes, Exit, input, suffix
<1>2. Cursor'
  BY DEF Cursor, CheckSizes, input, suffix
<1>3. Chained'
  BY <1>0 DEF Chained
<1>4. Control'
  <2>1. pc' = "new_file" \/ (pc' = "exit" /\ exitCode' = -1)
    BY DEF CheckSizes, Exit
  <2>2. last' = 0 /\ first_index' < Letters
    BY DEF CheckSizes, Control, suffix
  <2>3. exitCode' = -1 => exitCode' # 0
    OBVIOUS
  <2> QED  BY <1>0, <2>1, <2>2, <2>3 DEF Control
<1>5. Cuts'
  BY <1>0 DEF Cuts
<1>6. Names'
  BY <1>0 DEF Names
<1> QED  BY <1>1, <1>2, <1>3, <1>4, <1>5, <1>6

\* The indices of the next suffix are in their ranges, and it comes later.
LEMMA SuffixMovesOn ==
    ASSUME TypeOK, Control, NewFile
    PROVE  /\ first_index \in 0..(Letters - 1)
           /\ first_index' \in 0..Letters /\ second_index' \in 0..(Letters - 1)
           /\ Before(suffix, suffix')
<1>1. /\ first_index \in 0..(Letters - 1) /\ second_index \in 0..(Letters - 1)
      /\ Letters \in Nat \ {0}
  <2>1. first_index < Letters
    BY DEF Control, NewFile
  <2>2. first_index \in 0..Letters /\ second_index \in 0..(Letters - 1)
    BY DEF TypeOK
  <2> QED  BY <2>1, <2>2, LettersAssumption
<1>2. CASE second_index + 1 > Letters - 1
  <2>1. second_index' = 0 /\ first_index' = first_index + 1
    BY <1>2 DEF NewFile
  <2> QED  BY <1>1, <2>1 DEF Before, suffix
<1>3. CASE ~ (second_index + 1 > Letters - 1)
  <2>1. second_index' = second_index + 1 /\ first_index' = first_index
    BY <1>3 DEF NewFile
  <2> QED  BY <1>1, <1>3, <2>1 DEF Before, suffix
<1> QED  BY <1>2, <1>3

LEMMA BeforeTransitive ==
    ASSUME NEW l \in Nat \X Nat, NEW m \in Nat \X Nat, NEW n \in Nat \X Nat,
           Before(l, m), Before(m, n)
    PROVE  Before(l, n)
BY DEF Before

\* There are no suffixes left and zimsplit exits with an error.
LEMMA NoSuffixKeeps ==
    ASSUME IInv, NewFile, first_index' > Letters - 1 PROVE IInv'
<1> USE DEF IInv
<1>1. /\ UNCHANGED <<input, parts, currentPartSize, position, last, toCopy>>
      /\ pc' = "exit" /\ exitCode' = -1
  BY DEF NewFile, Exit
<1>2. TypeOK'
  BY <1>1, SuffixMovesOn DEF TypeOK, input
<1>3. Cursor' /\ Chained'
  BY <1>1 DEF Cursor, Chained
<1>4. exitCode' # 0
  BY <1>1
<1>5. Control'
  BY <1>1, <1>4 DEF Control
<1>6. Cuts'
  <2>1. \A k \in 1..Len(parts) : k < Len(parts) =>
          RightlyCut(parts[k].from, parts[k].to)' /\ NoRoom(parts[k].from, parts[k].to)'
    BY <1>1, InputStays DEF Cuts
  <2> QED  BY <1>1, <1>4, <2>1 DEF Cuts
<1>7. Names'
  BY <1>1 DEF Names
<1> QED  BY <1>2, <1>3, <1>5, <1>6, <1>7

\* A new file begins where the one before it ends, for the chunk that has no
\* room there.
LEMMA NewPartKeeps ==
    ASSUME IInv, NewFile, ~ (first_index' > Letters - 1) PROVE IInv'
<1> USE DEF IInv
<1> DEFINE n == Len(parts)
           Part == [name : (0..(Letters - 1)) \X (0..(Letters - 1)),
                    from : 0..filesize, to : 0..filesize]
<1>1. /\ UNCHANGED input /\ currentPartSize' = 0
      /\ position' = position /\ last' = last /\ toCopy' = toCopy
      /\ exitCode' = exitCode
      /\ pc' \in {"offset", "copy"} /\ (pc' = "offset" <=> toCopy = 0)
      /\ pc = "new_file"
  BY DEF NewFile, suffix
<1>2. /\ filesize \in Nat \ {0} /\ maxPartSize \in Nat /\ position \in 0..filesize
      /\ Letters \in Nat \ {0}
  BY ArchiveTyped, LettersAssumption DEF TypeOK, Archive
<1>3. parts \in Seq(Part)
  BY DEF TypeOK
<1>4. PICK part \in Part : /\ part.from = position /\ part.to = position
                           /\ part.name = suffix
                           /\ parts' = Append(parts, part)
  <2> DEFINE p == [name |-> suffix, from |-> position, to |-> position]
  <2>1. suffix \in (0..(Letters - 1)) \X (0..(Letters - 1))
    BY SuffixMovesOn DEF suffix, TypeOK
  <2>2. p \in Part
    BY <2>1 DEF TypeOK
  <2>3. parts' = Append(parts, p)
    BY DEF NewFile, suffix
  <2>4. p.from = position /\ p.to = position /\ p.name = suffix
    OBVIOUS
  <2> QED  BY <2>2, <2>3, <2>4, Zenon
<1> HIDE DEF Part
<1>5. /\ n \in Nat /\ Len(parts') = n + 1 /\ parts'[n + 1] = part /\ parts' # <<>>
      /\ \A k \in 1..n : parts'[k] = parts[k]
      /\ parts = <<>> <=> n = 0
  BY <1>3, <1>4
<1>6. TypeOK'
  <2>1. parts' \in Seq(Part)
    BY <1>3, <1>4
  <2>2. /\ pc' \in {"check", "new_file", "offset", "copy", "exit"}
        /\ currentPartSize' \in 0..filesize
    BY <1>1, <1>2
  <2> QED  BY <1>1, <2>1, <2>2, SuffixMovesOn DEF TypeOK, input, Part
<1>7. Cursor'
  BY <1>1, <1>2, <1>4, <1>5 DEF Cursor
<1>8. Chained'
  <2> SUFFICES ASSUME NEW k \in 1..(n + 1)
               PROVE  parts'[k].from = IF k = 1 THEN 0 ELSE parts'[k - 1].to
    BY <1>4 DEF Chained
  <2>1. CASE k \in 1..n
    BY <1>4, <2>1 DEF Chained
  <2>2. CASE k = n + 1
    BY <1>4, <1>5, <2>2 DEF Cursor
  <2> QED  BY <1>4, <2>1, <2>2
<1>9. Control'
  <2>1. pc' # "exit" /\ pc' # "check" /\ pc' # "new_file"
    BY <1>1
  <2>2. pc' = "copy" => toCopy' > 0
    BY <1>1, <1>2 DEF TypeOK
  <2>3. pc' = "offset" => toCopy' = 0
    BY <1>1
  <2>4. first_index' < Letters
    BY SuffixMovesOn, <1>2
  <2> QED  BY <1>4, <2>1, <2>2, <2>3, <2>4 DEF Control
<1>10. Cuts'
  <2>0. Archive
    BY ArchiveTyped
  <2>1. ASSUME NEW k \in 1..n
        PROVE  /\ RightlyCut(parts[k].from, parts[k].to)'
               /\ NoRoom(parts[k].from, parts[k].to)'
    <3>1. RightlyCut(parts[k].from, parts[k].to) /\ NoRoom(parts[k].from, parts[k].to)
      <4>1. CASE k < n
        BY <1>4, <4>1 DEF Cuts
      <4>2. CASE k = n
        <5>1. parts # <<>>
          BY <4>2
        <5> QED  BY <1>1, <4>2, <5>1 DEF Cuts, Cursor
      <4> QED  BY <1>4, <4>1, <4>2
    <3>2. parts'[k] = parts[k]
      BY <1>4
    <3> QED  BY <1>1, <3>1, <3>2, InputStays
  <2>2. RightlyCut(position, last)
    <3>1. CASE parts = <<>>
      BY <1>1, <1>2, <3>1 DEF Cursor, Control, RightlyCut, ChunkStarts, TypeOK
    <3>2. CASE parts # <<>>
      BY <1>1, <3>2, <2>0 DEF Cuts, NoRoom, RightlyCut
    <3> QED  BY <3>1, <3>2
  <2>3. RightlyCut(position, last)'
    BY <1>1, <2>2, InputStays
  <2>4. pc' # "new_file"
    BY <1>1
  <2> QED  BY <1>1, <1>4, <1>5, <2>1, <2>3, <2>4 DEF Cuts
<1>11. Names'
  <2>1. \A k \in 1..n : Before(parts[k].name, suffix)
    BY <1>1 DEF Names
  <2>2. Before(suffix, suffix')
    BY SuffixMovesOn
  <2>3. \A k \in 1..n : Before(parts[k].name, suffix')
    <3> SUFFICES ASSUME NEW k \in 1..n PROVE Before(parts[k].name, suffix')
      OBVIOUS
    <3>1. parts[k].name \in (0..(Letters - 1)) \X (0..(Letters - 1))
      <4>1. parts[k] \in Part
        BY <1>3, ElementOf
      <4> QED  BY <4>1 DEF Part
    <3>2. suffix \in Nat \X Nat /\ suffix' \in Nat \X Nat
      <4>1. first_index \in Nat /\ first_index' \in Nat /\ second_index' \in Nat
        BY <1>2, SuffixMovesOn
      <4>2. second_index \in Nat
        BY <1>2 DEF TypeOK
      <4> QED  BY <4>1, <4>2 DEF suffix
    <3> QED  BY <1>2, <2>1, <2>2, <3>1, <3>2, BeforeTransitive
  <2> QED  BY <1>4, <1>5, <2>1, <2>2, <2>3 DEF Names
<1> QED  BY <1>6, <1>7, <1>8, <1>9, <1>10, <1>11

\* The loop goes on to the next offset. A chunk that has no room in the part
\* was not to be added to it; any other keeps the part rightly cut.
LEMMA NextOffsetKeeps ==
    ASSUME IInv, NextOffset PROVE IInv'
<1> USE DEF IInv
<1> DEFINE from == parts[Len(parts)].from
<1>1. /\ UNCHANGED input /\ UNCHANGED suffix
      /\ exitCode' = exitCode /\ parts' = parts
      /\ currentPartSize' = currentPartSize /\ position' = position
      /\ toCopy' = ChunkSize(last) /\ last' = Following(last)
      /\ pc = "offset" /\ pc' \in {"new_file", "copy"}
  BY DEF NextOffset
<1>2. pc' = "new_file" <=>
          currentPartSize > 0 /\ currentPartSize + ChunkSize(last) > maxPartSize
  BY DEF NextOffset
<1>3. /\ filesize \in Nat \ {0} /\ maxPartSize \in Nat /\ last \in Nat
      /\ currentPartSize \in Nat /\ Archive
  BY ArchiveTyped DEF TypeOK, Archive
<1>4. last \in ChunkStarts
  BY <1>3 DEF NextOffset, TypeOK, ChunkStarts, Offsets
<1>5. /\ Following(last) \in Offsets /\ Following(last) \in 0..filesize
      /\ ChunkSize(last) = Following(last) - last
      /\ ChunkSize(last) \in 1..filesize
  BY <1>3, <1>4, ChunkEnds
<1>6. /\ parts # <<>> /\ toCopy = 0 /\ position = last
      /\ currentPartSize = last - from
      /\ RightlyCut(from, last)
  BY <1>1, <1>3 DEF Cursor, Control, Cuts, TypeOK
<1>7. from \in Nat
  BY <1>3, <1>6, ChunkEnds DEF RightlyCut
<1> HIDE DEF from
<1>8. TypeOK'
  <2>1. last' \in (clusterOffsets \cup {0, filesize})
    BY <1>1, <1>5 DEF Offsets
  <2>2. toCopy' \in 0..filesize
    BY <1>1, <1>3, <1>5
  <2>3. pc' \in {"check", "new_file", "offset", "copy", "exit"}
    BY <1>1
  <2> QED  BY <1>1, <2>1, <2>2, <2>3 DEF TypeOK, input, suffix
<1>9. Cursor'
  <2>1. position' + toCopy' = last'
    BY <1>1, <1>3, <1>5, <1>6
  <2> QED  BY <1>1, <2>1 DEF Cursor
<1>10. Chained'
  BY <1>1 DEF Chained
<1>11. Control'
  <2>1. toCopy' > 0
    BY <1>1, <1>3, <1>5
  <2> QED  BY <1>1, <1>6, <2>1 DEF Control, suffix
<1>12. Cuts'
  <2>1. \A k \in 1..Len(parts) : k < Len(parts) =>
          RightlyCut(parts[k].from, parts[k].to)' /\ NoRoom(parts[k].from, parts[k].to)'
    BY <1>1, InputStays DEF Cuts
  <2>2. CASE pc' = "new_file"
    <3>1. NoRoom(from, last)
      BY <1>2, <1>4, <1>6, <2>2 DEF NoRoom
    <3>2. RightlyCut(from, position)' /\ NoRoom(from, position)'
      BY <1>1, <1>6, <3>1, InputStays DEF from
    <3>3. last' = Following(position)'
      BY <1>1, <1>6, InputStays
    <3> QED  BY <1>1, <2>1, <2>2, <3>2, <3>3 DEF Cuts, from
  <2>3. CASE pc' # "new_file"
    <3>1. RightlyCut(from, Following(last))
      <4>1. CASE from = last
        BY <1>4, <4>1 DEF RightlyCut
      <4>2. CASE from # last
        <5>1. currentPartSize > 0 /\ currentPartSize + ChunkSize(last) <= maxPartSize
          BY <1>2, <1>3, <1>5, <1>6, <1>7, <2>3, <4>2
        <5>2. Following(last) - from <= maxPartSize
          BY <1>3, <1>5, <1>6, <1>7, <5>1
        <5> QED  BY <1>3, <1>5, <1>6, <1>7, <5>2 DEF RightlyCut
      <4> QED  BY <4>1, <4>2
    <3>2. RightlyCut(from, last)'
      BY <1>1, <3>1, InputStays DEF from
    <3> QED  BY <1>1, <2>1, <2>3, <3>2 DEF Cuts, from
  <2> QED  BY <2>2, <2>3
<1>13. Names'
  BY <1>1 DEF Names
<1> QED  BY <1>8, <1>9, <1>10, <1>11, <1>12, <1>13

\* A round of the copying moves bytes of the chunk to the last part, and to no
\* other.
LEMMA CopyOutKeeps ==
    ASSUME IInv, CopyOut PROVE IInv'
<1> USE DEF IInv
<1> DEFINE Part == [name : (0..(Letters - 1)) \X (0..(Letters - 1)),
                    from : 0..filesize, to : 0..filesize]
<1>1. /\ UNCHANGED input /\ UNCHANGED suffix
      /\ exitCode' = exitCode /\ last' = last
      /\ currentPartSize' = currentPartSize + Batch /\ position' = position + Batch
      /\ toCopy' = toCopy - Batch
      /\ parts' = [parts EXCEPT ![Len(parts)].to = @ + Batch]
      /\ pc' = IF toCopy' = 0 THEN "offset" ELSE "copy"
      /\ pc = "copy"
  BY DEF CopyOut
<1>2. /\ filesize \in Nat \ {0} /\ toCopy \in Nat /\ position \in Nat
      /\ currentPartSize \in Nat /\ last \in Nat /\ Archive
      /\ last <= filesize
  BY ArchiveTyped DEF TypeOK, Archive
<1>3. parts # <<>> /\ toCopy > 0
  BY <1>1 DEF Control
<1>4. Batch \in 1..toCopy
  BY <1>2, <1>3, BufferSizeAssumption DEF Batch
<1>5. PICK n \in Nat : n = Len(parts)
  BY DEF TypeOK
<1>6. /\ parts \in Seq(Part) /\ n \in 1..n /\ parts[n] \in Part
      /\ parts[n].to = position /\ currentPartSize = position - parts[n].from
      /\ position + toCopy = last
  <2>1. parts \in Seq(Part) /\ n \in 1..n
    BY <1>3, <1>5 DEF TypeOK
  <2>2. parts[n] \in Part
    BY <1>5, <2>1, ElementOf
  <2> QED  BY <1>3, <1>5, <2>1, <2>2 DEF Cursor
<1>7. PICK part \in Part : /\ part.name = parts[n].name /\ part.from = parts[n].from
                           /\ part.to = position + Batch
                           /\ parts' = [parts EXCEPT ![n] = part]
  <2> DEFINE p == [parts[n] EXCEPT !.to = @ + Batch]
  <2>1. position + Batch \in 0..filesize
    BY <1>2, <1>4, <1>6
  <2>2. p \in Part /\ p.name = parts[n].name /\ p.from = parts[n].from
        /\ p.to = position + Batch
    BY <1>6, <2>1
  <2>3. parts' = [parts EXCEPT ![n] = p]
    BY <1>1, <1>5
  <2> QED  BY <2>2, <2>3, Zenon
<1>8. parts[n].from \in Nat /\ part.from \in Nat /\ parts[n].from <= position
  BY <1>2, <1>6, <1>7
<1> HIDE DEF Part
<1>9. /\ parts' \in Seq(Part) /\ Len(parts') = n /\ parts'[n] = part /\ parts' # <<>>
      /\ \A k \in 1..n : k # n => parts'[k] = parts[k]
  BY <1>5, <1>6, <1>7
<1>10. TypeOK'
  <2>1. /\ position' \in 0..filesize /\ toCopy' \in 0..filesize
        /\ currentPartSize' \in 0..filesize
    <3>1. position + Batch \in 0..filesize /\ toCopy - Batch \in 0..filesize
      BY <1>2, <1>4, <1>6
    <3>2. currentPartSize + Batch <= position + Batch
      BY <1>2, <1>4, <1>6, <1>8
    <3> QED  BY <1>1, <1>2, <1>4, <3>1, <3>2
  <2>2. pc' \in {"check", "new_file", "offset", "copy", "exit"}
    BY <1>1
  <2> QED  BY <1>1, <1>9, <2>1, <2>2 DEF TypeOK, input, suffix, Part
<1>11. Cursor'
  <2>1. position' + toCopy' = last'
    BY <1>1, <1>2, <1>4, <1>6
  <2>2. currentPartSize' = position' - part.from
    <3>1. position' = position + Batch /\ currentPartSize' = currentPartSize + Batch
      BY <1>1
    <3>2. currentPartSize = position - part.from
      BY <1>6, <1>7
    <3>3. position \in Nat /\ part.from \in Nat /\ Batch \in Int
      BY <1>2, <1>4, <1>8
    <3> QED  BY <3>1, <3>2, <3>3
  <2> QED  BY <1>1, <1>7, <1>9, <2>1, <2>2 DEF Cursor
<1>12. Chained'
  <2>1. \A k \in 1..n : parts'[k].from = parts[k].from
    BY <1>7, <1>9
  <2>2. \A k \in 1..n : k # n => parts'[k].to = parts[k].to
    BY <1>9
  <2> SUFFICES ASSUME NEW k \in 1..n
               PROVE  parts'[k].from = IF k = 1 THEN 0 ELSE parts'[k - 1].to
    BY <1>9 DEF Chained
  <2>3. parts[k].from = IF k = 1 THEN 0 ELSE parts[k - 1].to
    BY <1>5 DEF Chained
  <2>4. k # 1 => k - 1 \in 1..n /\ k - 1 # n
    OBVIOUS
  <2> QED  BY <2>1, <2>2, <2>3, <2>4
<1>13. Control'
  <2>1. /\ pc' = "offset" \/ pc' = "copy"
        /\ pc' = "offset" => toCopy' = 0
        /\ pc' = "copy" => toCopy' # 0
    BY <1>1
  <2>2. toCopy' \in Nat
    BY <1>1, <1>2, <1>4
  <2>3. pc' = "copy" => toCopy' > 0
    BY <2>1, <2>2
  <2> QED  BY <1>1, <1>9, <2>1, <2>3 DEF Control, suffix
<1>14. Cuts'
  <2>1. ASSUME NEW k \in 1..n, k < n
        PROVE  RightlyCut(parts[k].from, parts[k].to)' /\ NoRoom(parts[k].from, parts[k].to)'
    <3>1. RightlyCut(parts[k].from, parts[k].to) /\ NoRoom(parts[k].from, parts[k].to)
      BY <1>5, <2>1 DEF Cuts
    <3>2. parts'[k] = parts[k]
      BY <1>9, <2>1
    <3> QED  BY <1>1, <3>1, <3>2, InputStays
  <2>2. RightlyCut(parts[n].from, last)
    BY <1>1, <1>3, <1>5 DEF Cuts
  <2>3. RightlyCut(part.from, last)'
    BY <1>1, <1>7, <2>2, InputStays
  <2>4. pc' # "new_file"
    BY <1>1
  <2> QED  BY <1>9, <2>1, <2>3, <2>4 DEF Cuts
<1>15. Names'
  <2>1. \A k \in 1..n : parts'[k].name = parts[k].name
    BY <1>7, <1>9
  <2> QED  BY <1>1, <1>5, <1>9, <2>1 DEF Names
<1> QED  BY <1>10, <1>11, <1>12, <1>13, <1>14, <1>15

\* zimsplit ends: by an error, or behind the last offset.
LEMMA EndKeeps ==
    ASSUME IInv, CopyFails \/ EndOfOffsets PROVE IInv'
<1> USE DEF IInv
<1>1. /\ UNCHANGED <<input, suffix, parts, currentPartSize, position, last, toCopy>>
      /\ pc' = "exit" /\ pc # "new_file"
      /\ exitCode' = -2 \/ (exitCode' = 0 /\ pc = "offset" /\ last = filesize)
  BY DEF CopyFails, EndOfOffsets, Exit
<1>2. exitCode' \in {0, -1, -2}
  BY <1>1
<1>3. TypeOK'
  BY <1>1, <1>2 DEF TypeOK, input, suffix
<1>4. Cursor' /\ Chained'
  BY <1>1 DEF Cursor, Chained
<1>5. Control'
  <2>1. exitCode' = -2 => exitCode' # 0
    OBVIOUS
  <2>2. exitCode' = 0 => parts # <<>> /\ toCopy = 0 /\ last = filesize
    BY <1>1, <2>1 DEF Control
  <2>3. exitCode' = 0 => position = filesize
    BY <2>2, ArchiveTyped DEF Cursor, TypeOK, Archive
  <2>4. filesize' = filesize
    BY <1>1 DEF input
  <2> QED  BY <1>1, <2>2, <2>3, <2>4 DEF Control
<1>6. Cuts'
  <2>1. \A k \in 1..Len(parts) : k < Len(parts) =>
          RightlyCut(parts[k].from, parts[k].to)' /\ NoRoom(parts[k].from, parts[k].to)'
    BY <1>1, InputStays DEF Cuts
  <2>2. ASSUME parts # <<>>, exitCode' = 0
        PROVE  RightlyCut(parts[Len(parts)].from, last)'
    <3>1. pc = "offset" \/ exitCode' = -2
      BY <1>1
    <3>2. pc = "offset"
      BY <2>2, <3>1
    <3>3. RightlyCut(parts[Len(parts)].from, last)
      BY <2>2, <3>2 DEF Cuts
    <3> QED  BY <1>1, <3>3, InputStays
  <2> QED  BY <1>1, <2>1, <2>2 DEF Cuts
<1>7. Names'
  BY <1>1 DEF Names
<1> QED  BY <1>3, <1>4, <1>5, <1>6, <1>7

LEMMA StutterKeeps ==
    ASSUME IInv, UNCHANGED vars PROVE IInv'
<1> USE DEF IInv
<1>1. UNCHANGED <<input, suffix>> /\ UNCHANGED <<pc, exitCode, parts>>
      /\ UNCHANGED <<currentPartSize, position, last, toCopy>>
  BY DEF vars, input, suffix
<1>2. TypeOK'
  BY DEF TypeOK, vars
<1>3. Cursor' /\ Chained' /\ Names'
  BY <1>1 DEF Cursor, Chained, Names
<1>4. Control'
  BY DEF Control, vars
<1>5. Cuts'
  <2>1. \A k \in 1..Len(parts) : k < Len(parts) =>
          RightlyCut(parts[k].from, parts[k].to)' /\ NoRoom(parts[k].from, parts[k].to)'
    BY <1>1, InputStays DEF Cuts
  <2>2. RightlyCut(parts[Len(parts)].from, last) =>
            RightlyCut(parts[Len(parts)].from, last)'
    BY <1>1, InputStays
  <2>3. RightlyCut(parts[Len(parts)].from, position)
            /\ NoRoom(parts[Len(parts)].from, position)
            /\ last = Following(position) =>
            /\ RightlyCut(parts[Len(parts)].from, position)'
            /\ NoRoom(parts[Len(parts)].from, position)'
            /\ last' = Following(position)'
    BY <1>1, InputStays
  <2> QED  BY <1>1, <2>1, <2>2, <2>3 DEF Cuts
<1> QED  BY <1>2, <1>3, <1>4, <1>5

LEMMA Invariance == Spec => []IInv
<1>1. Init => IInv
  BY InitInv
<1>2. IInv /\ [Next]_vars => IInv'
  <2> SUFFICES ASSUME IInv, [Next]_vars PROVE IInv'
    OBVIOUS
  <2>1. CASE CheckSizes
    BY <2>1, CheckSizesKeeps
  <2>2. CASE NewFile
    BY <2>2, NewPartKeeps, NoSuffixKeeps
  <2>3. CASE NextOffset
    BY <2>3, NextOffsetKeeps
  <2>4. CASE CopyOut
    BY <2>4, CopyOutKeeps
  <2>5. CASE CopyFails \/ EndOfOffsets
    BY <2>5, EndKeeps
  <2>6. CASE Finished \/ UNCHANGED vars
    BY <2>6, StutterKeeps DEF Finished
  <2> QED  BY <2>1, <2>2, <2>3, <2>4, <2>5, <2>6 DEF Next
<1> QED  BY <1>1, <1>2, PTL DEF Spec

-----------------------------------------------------------------------------
(***************************************************************************)
(* The theorems.                                                           *)
(***************************************************************************)

\* What zimsplit keeps is of its type: no part reaches beyond the archive, and
\* no suffix uses a letter that does not exist.
THEOREM TypeCorrect == Spec => []TypeOK
BY Invariance, PTL DEF IInv

\* The parts put together give the archive: whatever was written so far is a
\* prefix of it, without a gap and with nothing twice, and all of it if
\* zimsplit reports success.
THEOREM PartsGiveTheArchive == Spec => []PartsConcatenate
<1>1. IInv => PartsConcatenate
  <2> SUFFICES ASSUME IInv PROVE PartsConcatenate
    OBVIOUS
  <2>1. DOMAIN parts = 1..Len(parts)
    BY DEF IInv, TypeOK
  <2>2. pc = "exit" /\ exitCode = 0 => parts[Len(parts)].to = filesize
    BY DEF IInv, Control, Cursor
  <2> QED  BY <2>1, <2>2 DEF IInv, Chained, PartsConcatenate
<1> QED  BY <1>1, Invariance, PTL

\* When zimsplit reports success, every part begins at a chunk, is larger than
\* asked for only if it is one chunk, and had no room for the next chunk.
THEOREM SplitIsTight == Spec => []PartsWellCut
<1>1. IInv => PartsWellCut
  <2> SUFFICES ASSUME IInv, pc = "exit", exitCode = 0, NEW k \in DOMAIN parts
               PROVE  /\ parts[k].from \in ChunkStarts
                      /\ Size(parts[k]) > maxPartSize =>
                            parts[k].to = Following(parts[k].from)
                      /\ parts[k].to < filesize =>
                            Size(parts[k]) + ChunkSize(parts[k].to) > maxPartSize
    BY DEF PartsWellCut
  <2>1. k \in 1..Len(parts) /\ parts # <<>>
    <3>1. DOMAIN parts = 1..Len(parts)
      BY DEF IInv, TypeOK
    <3> QED  BY <3>1 DEF IInv, Control
  <2>2. CASE k < Len(parts)
    <3>1. RightlyCut(parts[k].from, parts[k].to) /\ NoRoom(parts[k].from, parts[k].to)
      BY <2>1, <2>2 DEF IInv, Cuts
    <3> QED  BY <3>1 DEF RightlyCut, NoRoom, Size
  <2>3. CASE k = Len(parts)
    <3>1. position = filesize /\ parts[k].to = filesize
      BY <2>1, <2>3 DEF IInv, Control, Cursor
    <3>2. last = filesize
      <4>1. /\ filesize \in Nat /\ toCopy \in Nat /\ last \in Nat /\ last <= filesize
        <5>1. filesize \in Nat /\ clusterOffsets \subseteq 1..(filesize - 1)
          BY ArchiveTyped DEF IInv, Archive
        <5>2. toCopy \in 0..filesize
          BY DEF IInv, TypeOK
        <5>3. last \in clusterOffsets \cup {0, filesize}
          BY DEF IInv, TypeOK
        <5> QED  BY <5>1, <5>2, <5>3
      <4> QED  BY <3>1, <4>1 DEF IInv, Cursor
    <3>3. RightlyCut(parts[k].from, last)
      BY <2>1, <2>3 DEF IInv, Cuts
    <3>4. ~ (filesize < filesize)
      BY ArchiveTyped DEF IInv, Archive
    <3> QED  BY <3>1, <3>2, <3>3, <3>4 DEF RightlyCut, Size
  <2>4. k < Len(parts) \/ k = Len(parts)
    BY <2>1
  <2> QED  BY <2>2, <2>3, <2>4
<1> QED  BY <1>1, Invariance, PTL

\* No part is written over an earlier one, and sorting the names puts the parts
\* in order, with any number of letters and of parts.
THEOREM NamesSort == Spec => []NamesInOrder
<1>1. IInv => NamesInOrder
  <2> SUFFICES ASSUME IInv PROVE NamesInOrder
    OBVIOUS
  <2>1. DOMAIN parts = 1..Len(parts)
    BY DEF IInv, TypeOK
  <2> QED  BY <2>1 DEF IInv, Names, Before, NamesInOrder
<1> QED  BY <1>1, Invariance, PTL

=============================================================================
