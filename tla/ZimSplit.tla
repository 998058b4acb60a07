------------------------------ MODULE ZimSplit ------------------------------
(***************************************************************************)
(* zimsplit (src/zimsplit.cpp): an archive is copied into parts that are   *)
(* no larger than asked for, as far as this is possible by cutting between *)
(* clusters only. A part is the interval of the archive's bytes that were  *)
(* copied to it; the archive is read from one position on, never rewound.  *)
(***************************************************************************)
EXTENDS Integers, Sequences, FiniteSets, SequencesExt

CONSTANTS
    MaxFileSize,    \* bound: sizes of the archives to choose from
    MaxPartSizes,   \* values of --size to choose from
    BufferSize,     \* BUFFER_SIZE
    Letters         \* the letters a suffix is made of; 26 in the code

ASSUME FileSizeAssumption == MaxFileSize \in Nat \ {0}
ASSUME PartSizesAssumption == MaxPartSizes \subseteq Nat
ASSUME BufferSizeAssumption == BufferSize \in Nat \ {0}
ASSUME LettersAssumption == Letters \in Nat \ {0}

VARIABLES
    filesize, clusterOffsets, maxPartSize, force,   \* the archive, the options
    pc, exitCode,
    parts,                          \* the parts written: name and bytes
    first_index, second_index,
    currentPartSize,
    position,                       \* of ifile
    last,                           \* the loop of run(): the previous offset,
    toCopy                          \* and what copy_out() has still to copy

input == <<filesize, clusterOffsets, maxPartSize, force>>
suffix == <<first_index, second_index>>
vars == <<filesize, clusterOffsets, maxPartSize, force, pc, exitCode, parts,
          first_index, second_index, currentPartSize, position, last, toCopy>>

\* Cluster offsets lie behind the header and before the end of the file.
Init ==
    /\ filesize \in 1..MaxFileSize
    /\ clusterOffsets \in SUBSET (1..(filesize - 1))
    /\ maxPartSize \in MaxPartSizes
    /\ force \in BOOLEAN
    /\ pc = "check"
    /\ exitCode = 0
    /\ parts = <<>>
    /\ first_index = 0
    /\ second_index = 0
    /\ currentPartSize = 0
    /\ position = 0
    /\ last = 0
    /\ toCopy = 0

TypeOK ==
    /\ filesize \in 1..MaxFileSize
    /\ clusterOffsets \in SUBSET (1..(filesize - 1))
    /\ maxPartSize \in MaxPartSizes
    /\ force \in BOOLEAN
    /\ pc \in {"check", "new_file", "offset", "copy", "exit"}
    /\ exitCode \in {0, -1, -2}
    /\ parts \in Seq([name : (0..(Letters - 1)) \X (0..(Letters - 1)),
                      from : 0..filesize, to : 0..filesize])
    /\ first_index \in 0..Letters
    /\ second_index \in 0..(Letters - 1)
    /\ currentPartSize \in 0..filesize
    /\ position \in 0..filesize
    /\ last \in clusterOffsets \cup {0, filesize}
    /\ toCopy \in 0..filesize

-----------------------------------------------------------------------------

\* getOffsets(): where the archive may be cut. The loops visit these offsets in
\* order; between two of them there is a chunk.
Offsets == clusterOffsets \cup {filesize}

Following(offset) == Min({o \in Offsets : o > offset})

ChunkStarts == {o \in Offsets \cup {0} : o < filesize}

ChunkSize(start) == Following(start) - start

Exit(code) == pc' = "exit" /\ exitCode' = code

\* check(): is there a chunk that does not fit into a part?
Check == \E o \in ChunkStarts : ChunkSize(o) > maxPartSize

\* docopt: a value converts to true if it holds anything, and a flag that was
\* not given holds false.
HoldsValue(flag) == flag \in BOOLEAN

\* main(): `!args["--force"] && app.check()`
CheckSizes ==
    /\ pc = "check"
    /\ IF ~HoldsValue(force) /\ Check
         THEN Exit(-1)
         ELSE pc' = "new_file" /\ UNCHANGED exitCode
    /\ UNCHANGED <<input, parts, suffix, currentPartSize, position, last, toCopy>>

\* Mutant of NewFile: the first letter does not move on.
NewFileNoCarry ==
    /\ pc = "new_file"
    /\ second_index' = IF second_index + 1 > Letters - 1 THEN 0 ELSE second_index + 1
    /\ first_index' = first_index
    /\ IF first_index' > Letters - 1
         THEN Exit(-1) /\ UNCHANGED <<parts, currentPartSize>>
         ELSE /\ parts' = Append(parts, [name |-> <<first_index, second_index>>,
                                         from |-> position, to |-> position])
              /\ currentPartSize' = 0
              /\ pc' = IF toCopy = 0 THEN "offset" ELSE "copy"
              /\ UNCHANGED exitCode
    /\ UNCHANGED <<input, position, last, toCopy>>

\* new_file() and get_new_suffix(): the indices move on to the next suffix
\* already, and the program exits if there will be none.
NewFile ==
    /\ pc = "new_file"
    /\ LET wraps == second_index + 1 > Letters - 1
       IN  /\ second_index' = IF wraps THEN 0 ELSE second_index + 1
           /\ first_index' = IF wraps THEN first_index + 1 ELSE first_index
    /\ IF first_index' > Letters - 1
         THEN Exit(-1) /\ UNCHANGED <<parts, currentPartSize>>
         ELSE /\ parts' = Append(parts, [name |-> <<first_index, second_index>>,
                                         from |-> position, to |-> position])
              /\ currentPartSize' = 0
              /\ pc' = IF toCopy = 0 THEN "offset" ELSE "copy"
              /\ UNCHANGED exitCode
    /\ UNCHANGED <<input, position, last, toCopy>>

\* Mutant of NextOffset: a part that is exactly full counts as too large.
NextOffsetEarly ==
    /\ pc = "offset"
    /\ last < filesize
    /\ toCopy' = ChunkSize(last)
    /\ last' = Following(last)
    /\ pc' = IF currentPartSize > 0 /\ currentPartSize + ChunkSize(last) >= maxPartSize
               THEN "new_file" ELSE "copy"
    /\ UNCHANGED <<input, exitCode, parts, suffix, currentPartSize, position>>

\* The loop of run(): a chunk that does not fit any more starts a new part.
NextOffset ==
    /\ pc = "offset"
    /\ last < filesize
    /\ toCopy' = ChunkSize(last)
    /\ last' = Following(last)
    /\ pc' = IF currentPartSize > 0 /\ currentPartSize + ChunkSize(last) > maxPartSize
               THEN "new_file" ELSE "copy"
    /\ UNCHANGED <<input, exitCode, parts, suffix, currentPartSize, position>>

Batch == IF toCopy < BufferSize THEN toCopy ELSE BufferSize

\* Mutants of CopyOut: batches of the full buffer; the loop ends with the last
\* batch that fills the buffer.
CopyFullBuffer ==
    /\ pc = "copy"
    /\ parts' = [parts EXCEPT ![Len(parts)].to = @ + BufferSize]
    /\ currentPartSize' = currentPartSize + Batch
    /\ position' = position + BufferSize
    /\ toCopy' = toCopy - Batch
    /\ pc' = IF toCopy' = 0 THEN "offset" ELSE "copy"
    /\ UNCHANGED <<input, exitCode, suffix, last>>

CopyFullOnly ==
    /\ pc = "copy"
    /\ IF toCopy < BufferSize
         THEN toCopy' = 0 /\ UNCHANGED <<parts, currentPartSize, position>>
         ELSE /\ parts' = [parts EXCEPT ![Len(parts)].to = @ + Batch]
              /\ currentPartSize' = currentPartSize + Batch
              /\ position' = position + Batch
              /\ toCopy' = toCopy - Batch
    /\ pc' = IF toCopy' = 0 THEN "offset" ELSE "copy"
    /\ UNCHANGED <<input, exitCode, suffix, last>>

\* One round of the loop of copy_out().
CopyOut ==
    /\ pc = "copy"
    /\ parts' = [parts EXCEPT ![Len(parts)].to = @ + Batch]
    /\ currentPartSize' = currentPartSize + Batch
    /\ position' = position + Batch
    /\ toCopy' = toCopy - Batch
    /\ pc' = IF toCopy' = 0 THEN "offset" ELSE "copy"
    /\ UNCHANGED <<input, exitCode, suffix, last>>

\* Reading the archive or writing the part fails and copy_out() throws.
CopyFails ==
    /\ pc = "copy"
    /\ Exit(-2)
    /\ UNCHANGED <<input, parts, suffix, currentPartSize, position, last, toCopy>>

EndOfOffsets ==
    /\ pc = "offset"
    /\ last = filesize
    /\ Exit(0)
    /\ UNCHANGED <<input, parts, suffix, currentPartSize, position, last, toCopy>>

Finished == pc = "exit" /\ UNCHANGED vars

Next ==
    \/ CheckSizes
    \/ NewFile
    \/ NextOffset
    \/ CopyOut
    \/ CopyFails
    \/ EndOfOffsets
    \/ Finished

Spec == Init /\ [][Next]_vars

-----------------------------------------------------------------------------
(* Properties. *)

Size(p) == p.to - p.from

\* The parts, one after the other, are always a prefix of the archive, and all
\* of it when zimsplit succeeds.
PartsConcatenate ==
    /\ \A k \in DOMAIN parts : parts[k].from = IF k = 1 THEN 0 ELSE parts[k - 1].to
    /\ pc = "exit" /\ exitCode = 0 => parts[Len(parts)].to = filesize

\* "Splits smartly": a part is too large only if it is a single chunk, parts
\* begin at an offset at which a reader may open them, and no part could have
\* taken in the first chunk of the one after it.
PartsWellCut ==
    pc = "exit" /\ exitCode = 0 =>
        \A k \in DOMAIN parts :
            /\ parts[k].from \in ChunkStarts
            /\ Size(parts[k]) > maxPartSize => parts[k].to = Following(parts[k].from)
            /\ parts[k].to < filesize =>
                  Size(parts[k]) + ChunkSize(parts[k].to) > maxPartSize

\* No part overwrites another, and the names sort in the order of the parts, so
\* that they can be put together again by their names.
NamesInOrder ==
    \A k, m \in DOMAIN parts : k < m =>
        \/ parts[k].name[1] < parts[m].name[1]
        \/ /\ parts[k].name[1] = parts[m].name[1]
           /\ parts[k].name[2] < parts[m].name[2]

=============================================================================
