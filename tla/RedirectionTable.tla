-------------------------- MODULE RedirectionTable --------------------------
(***************************************************************************)
(* RedirectionTable and test_redirect_loop() of src/zimcheck/checks.cpp:   *)
(* which entries of an archive can never be resolved, because the chain of *)
(* redirects that starts at them enters a cycle. The table is filled from  *)
(* the archive, then every entry is looked up; a lookup of an entry with   *)
(* unknown status follows the chain with two indices, one at twice the     *)
(* speed of the other, and then writes the answer along the chain.         *)
(***************************************************************************)
EXTENDS Integers

CONSTANT NumEntries     \* entries are 0..NumEntries-1, in path order

ASSUME NumEntriesAssumption == NumEntries \in Nat

Entries == 0..(NumEntries - 1)

NoTarget == -1          \* of an entry that is an item

VARIABLES
    target,             \* the archive: the entry each redirect points to
    redirTable, loopStatus, size,   \* the two vectors and their length
    pc, i,              \* the loops of test_redirect_loop()
    i1, i2, moveI1,     \* detectLoopStatus()
    s, cur,             \* resolveLoopStatus(): the status and its loop's i
    reported            \* entries for which REDIRECT_LOOP was reported

table == <<redirTable, loopStatus, size>>
detection == <<i1, i2, moveI1>>
marking == <<s, cur>>
vars == <<target, redirTable, loopStatus, size, pc, i, i1, i2, moveI1, s, cur,
          reported>>

LoopStatus == {"UNKNOWN", "LOOP", "NONLOOP"}

TypeOK ==
    /\ target \in [Entries -> Entries \cup {NoTarget}]
    /\ size \in 0..NumEntries
    /\ redirTable \in [0..(size - 1) -> Entries]
    /\ loopStatus \in [0..(size - 1) -> LoopStatus]
    /\ pc \in {"build", "query", "detect", "mark", "report", "done"}
    /\ pc # "build" => size = NumEntries
    /\ i \in 0..NumEntries
    /\ pc \in {"detect", "mark", "report"} => i \in Entries
    /\ pc = "detect" => i1 \in Entries /\ i2 \in Entries
    /\ moveI1 \in BOOLEAN
    /\ s \in LoopStatus
    /\ pc = "mark" => cur \in Entries
    /\ reported \in SUBSET Entries

Init ==
    /\ target \in [Entries -> Entries \cup {NoTarget}]
    /\ redirTable = [e \in {} |-> 0]
    /\ loopStatus = [e \in {} |-> "UNKNOWN"]
    /\ size = 0
    /\ pc = "build"
    /\ i = 0
    /\ i1 = 0
    /\ i2 = 0
    /\ moveI1 = FALSE
    /\ s = "UNKNOWN"
    /\ cur = 0
    /\ reported = {}

-----------------------------------------------------------------------------
(* Filling the table, one entry of archive.iterByPath() at a time. *)

PushBack(vector, x) ==
    [e \in 0..size |-> IF e = size THEN x ELSE vector[e]]

AddRedirectionEntry ==
    /\ pc = "build"
    /\ size < NumEntries
    /\ target[size] # NoTarget
    /\ redirTable' = PushBack(redirTable, target[size])
    /\ loopStatus' = PushBack(loopStatus, "UNKNOWN")
    /\ size' = size + 1
    /\ UNCHANGED <<target, pc, i, detection, marking, reported>>

\* Mutants of AddItem: the status is left open; the item is not its own target
\* because the index is taken after the entry was added.
AddItemUnknown ==
    /\ pc = "build"
    /\ size < NumEntries
    /\ target[size] = NoTarget
    /\ redirTable' = PushBack(redirTable, size)
    /\ loopStatus' = PushBack(loopStatus, "UNKNOWN")
    /\ size' = size + 1
    /\ UNCHANGED <<target, pc, i, detection, marking, reported>>

AddItemOffByOne ==
    /\ pc = "build"
    /\ size < NumEntries
    /\ target[size] = NoTarget
    /\ redirTable' = PushBack(redirTable, size + 1)
    /\ loopStatus' = PushBack(loopStatus, "NONLOOP")
    /\ size' = size + 1
    /\ UNCHANGED <<target, pc, i, detection, marking, reported>>

AddItem ==
    /\ pc = "build"
    /\ size < NumEntries
    /\ target[size] = NoTarget
    /\ redirTable' = PushBack(redirTable, size)
    /\ loopStatus' = PushBack(loopStatus, "NONLOOP")
    /\ size' = size + 1
    /\ UNCHANGED <<target, pc, i, detection, marking, reported>>

EndOfEntries ==
    /\ pc = "build"
    /\ size = NumEntries
    /\ pc' = "query"
    /\ UNCHANGED <<target, table, i, detection, marking, reported>>

-----------------------------------------------------------------------------
(* isInRedirectionLoop(i) for every i in turn. *)

Query ==
    /\ pc = "query"
    /\ i < size
    /\ IF loopStatus[i] = "UNKNOWN"
         THEN /\ pc' = "detect"
              /\ i1' = i
              /\ i2' = i
              /\ moveI1' = FALSE
         ELSE /\ pc' = "report"
              /\ UNCHANGED detection
    /\ UNCHANGED <<target, table, i, marking, reported>>

\* detectLoopStatus() returns to resolveLoopStatus().
Detected(status) ==
    /\ s' = status
    /\ cur' = i
    /\ pc' = "mark"
    /\ UNCHANGED detection

\* Mutant of DetectLoopStatus: i1 stays at the entry that was asked for.
DetectFromStart ==
    /\ pc = "detect"
    /\ \/ /\ loopStatus[i2] # "UNKNOWN"
          /\ Detected(loopStatus[i2])
       \/ /\ loopStatus[i2] = "UNKNOWN"
          /\ redirTable[i2] = i1
          /\ Detected("LOOP")
       \/ /\ loopStatus[i2] = "UNKNOWN"
          /\ redirTable[i2] # i1
          /\ i2' = redirTable[i2]
          /\ moveI1' = ~moveI1
          /\ UNCHANGED <<pc, i1, marking>>
    /\ UNCHANGED <<target, table, i, reported>>

\* One iteration of the loop of detectLoopStatus().
DetectLoopStatus ==
    /\ pc = "detect"
    /\ \/ /\ loopStatus[i2] # "UNKNOWN"
          /\ Detected(loopStatus[i2])
       \/ /\ loopStatus[i2] = "UNKNOWN"
          /\ redirTable[i2] = i1
          /\ Detected("LOOP")
       \/ /\ loopStatus[i2] = "UNKNOWN"
          /\ redirTable[i2] # i1
          /\ i2' = redirTable[i2]
          /\ i1' = IF moveI1 THEN redirTable[i1] ELSE i1
          /\ moveI1' = ~moveI1
          /\ UNCHANGED <<pc, marking>>
    /\ UNCHANGED <<target, table, i, reported>>

\* One iteration of the loop of resolveLoopStatus(), or its end.
ResolveLoopStatus ==
    /\ pc = "mark"
    /\ IF loopStatus[cur] = "UNKNOWN"
         THEN /\ loopStatus' = [loopStatus EXCEPT ![cur] = s]
              /\ cur' = redirTable[cur]
              /\ UNCHANGED pc
         ELSE /\ pc' = "report"
              /\ UNCHANGED <<loopStatus, cur>>
    /\ UNCHANGED <<target, redirTable, size, i, detection, s, reported>>

\* The answer of isInRedirectionLoop(i) is used and the loop moves on.
Report ==
    /\ pc = "report"
    /\ reported' = IF loopStatus[i] = "LOOP" THEN reported \cup {i} ELSE reported
    /\ i' = i + 1
    /\ pc' = "query"
    /\ UNCHANGED <<target, table, detection, marking>>

\* Mutant of EndOfQueries: the last entry may be left out.
EndBeforeLast ==
    /\ pc = "query"
    /\ i >= size - 1
    /\ pc' = "done"
    /\ UNCHANGED <<target, table, i, detection, marking, reported>>

EndOfQueries ==
    /\ pc = "query"
    /\ i >= size
    /\ pc' = "done"
    /\ UNCHANGED <<target, table, i, detection, marking, reported>>

Done == pc = "done" /\ UNCHANGED vars

Next ==
    \/ AddRedirectionEntry
    \/ AddItem
    \/ EndOfEntries
    \/ Query
    \/ DetectLoopStatus
    \/ ResolveLoopStatus
    \/ Report
    \/ EndOfQueries
    \/ Done

Spec == Init /\ [][Next]_vars

\* A single thread that runs.
FairSpec == Spec /\ WF_vars(Next)

-----------------------------------------------------------------------------
(* Properties. *)

\* A set of redirects that only point at each other: no item is reachable
\* from any of them.
Closed(S) == \A e \in S : target[e] \in S

InLoop(e) == \E S \in SUBSET Entries : e \in S /\ Closed(S)

\* Whatever the shape of the redirects (rings of any length, chains that run
\* into a ring or into an item, a redirect to itself), a status written to the
\* table, which later lookups take over without looking further, is right.
StatusSound ==
    pc # "build" =>
        \A e \in Entries :
            /\ loopStatus[e] = "LOOP" => InLoop(e)
            /\ loopStatus[e] = "NONLOOP" => ~InLoop(e)

\* test_redirect_loop() reports the entries that cannot be resolved, those on
\* a chain that leads into a ring included, and no other.
ReportedExactly ==
    pc = "done" => reported = {e \in Entries : InLoop(e)}

\* A known status is final, so that no entry is resolved twice.
StatusIsFinal ==
    [][\A e \in DOMAIN loopStatus :
          loopStatus[e] # "UNKNOWN" => loopStatus'[e] = loopStatus[e]]_vars

\* Every lookup ends, in particular those that start outside of the ring that
\* they run into.
Termination == <>(pc = "done")

=============================================================================
