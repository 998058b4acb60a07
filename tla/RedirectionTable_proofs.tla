----------------------- MODULE RedirectionTable_proofs ----------------------
(***************************************************************************)
(* The answers of RedirectionTable are right for every archive: what the   *)
(* run of RedirectionTable checks for all archives of five entries.        *)
(***************************************************************************)
EXTENDS RedirectionTable, TLAPS

-----------------------------------------------------------------------------
(* Being in a loop, seen from one redirect. *)

Redirects(e) == target[e] \in Entries

LEMMA LoopForward ==
    ASSUME NEW e \in Entries, InLoop(e)
    PROVE  Redirects(e) /\ InLoop(target[e])
<1>1. PICK S \in SUBSET Entries : e \in S /\ Closed(S)
  BY DEF InLoop
<1>2. target[e] \in S
  BY <1>1 DEF Closed
<1>3. QED
  BY <1>1, <1>2 DEF Redirects, InLoop

LEMMA LoopBackward ==
    ASSUME NEW e \in Entries, Redirects(e), InLoop(target[e])
    PROVE  InLoop(e)
<1>1. PICK S \in SUBSET Entries : target[e] \in S /\ Closed(S)
  BY DEF InLoop
<1>2. Closed(S \cup {e})
  BY <1>1 DEF Closed
<1>3. S \cup {e} \in SUBSET Entries
  OBVIOUS
<1>4. QED
  BY <1>2, <1>3 DEF InLoop

LEMMA LoopStep ==
    ASSUME NEW e \in Entries, Redirects(e)
    PROVE  InLoop(e) <=> InLoop(target[e])
  BY LoopForward, LoopBackward

-----------------------------------------------------------------------------
(* Type correctness. *)

LEMMA TypeInit == Init => TypeOK
<1> SUFFICES ASSUME Init PROVE TypeOK
  OBVIOUS
<1>1. 0..(size - 1) = {} /\ size \in 0..NumEntries /\ i \in 0..NumEntries
  BY NumEntriesAssumption DEF Init
<1>2. /\ redirTable \in [{} -> Entries]
      /\ loopStatus \in [{} -> LoopStatus]
  BY DEF Init
<1>3. QED
  BY <1>1, <1>2 DEF Init, TypeOK, LoopStatus

LEMMA TypeStep == TypeOK /\ [Next]_vars => TypeOK'
<1> SUFFICES ASSUME TypeOK, [Next]_vars PROVE TypeOK'
  OBVIOUS
<1> USE NumEntriesAssumption DEF table, detection, marking
<1>1. ASSUME NEW x \in Entries, NEW st \in LoopStatus,
             pc = "build", size < NumEntries,
             redirTable' = PushBack(redirTable, x),
             loopStatus' = PushBack(loopStatus, st),
             size' = size + 1,
             UNCHANGED <<target, pc, i, detection, marking, reported>>
      PROVE  TypeOK'
  <2>1. size' \in 0..NumEntries /\ size' - 1 = size
    BY <1>1 DEF TypeOK
  <2>2. /\ redirTable' \in [0..(size' - 1) -> Entries]
        /\ loopStatus' \in [0..(size' - 1) -> LoopStatus]
    <3>1. \A e \in 0..size : e # size => e \in 0..(size - 1)
      BY DEF TypeOK
    <3>2. QED
      BY <1>1, <2>1, <3>1 DEF TypeOK, PushBack
  <2>3. QED
    BY <1>1, <2>1, <2>2 DEF TypeOK
<1>2. CASE AddRedirectionEntry
  <2>1. target[size] \in Entries
    BY <1>2 DEF AddRedirectionEntry, TypeOK, Entries
  <2>2. QED
    BY <1>1, <1>2, <2>1 DEF AddRedirectionEntry, LoopStatus
<1>3. CASE AddItem
  <2>1. size \in Entries
    BY <1>3 DEF AddItem, TypeOK, Entries
  <2>2. QED
    BY <1>1, <1>3, <2>1 DEF AddItem, LoopStatus
<1>4. CASE EndOfEntries
  BY <1>4 DEF EndOfEntries, TypeOK
<1>5. CASE Query
  <2>1. i \in Entries
    BY <1>5 DEF Query, TypeOK, Entries
  <2>2. QED
    BY <1>5, <2>1 DEF Query, TypeOK
<1>6. CASE DetectLoopStatus
  <2>1. /\ size = NumEntries
        /\ redirTable \in [Entries -> Entries]
        /\ loopStatus \in [Entries -> LoopStatus]
        /\ i \in Entries /\ i1 \in Entries /\ i2 \in Entries
    BY <1>6 DEF DetectLoopStatus, TypeOK, Entries
  <2>2. QED
    BY <1>6, <2>1 DEF DetectLoopStatus, Detected, TypeOK, LoopStatus
<1>7. CASE ResolveLoopStatus
  <2>1. /\ size = NumEntries
        /\ redirTable \in [Entries -> Entries]
        /\ loopStatus \in [Entries -> LoopStatus]
        /\ cur \in Entries /\ i \in Entries
    BY <1>7 DEF ResolveLoopStatus, TypeOK, Entries
  <2>2. QED
    BY <1>7, <2>1 DEF ResolveLoopStatus, TypeOK
<1>8. CASE Report
  <2>1. i \in Entries /\ i + 1 \in 0..NumEntries
    BY <1>8 DEF Report, TypeOK, Entries
  <2>2. QED
    BY <1>8, <2>1 DEF Report, TypeOK
<1>9. CASE EndOfQueries
  BY <1>9 DEF EndOfQueries, TypeOK
<1>10. CASE UNCHANGED vars
  BY <1>10 DEF vars, TypeOK
<1>11. QED
  BY <1>2, <1>3, <1>4, <1>5, <1>6, <1>7, <1>8, <1>9, <1>10 DEF Next, Done

\* The table has an entry with a valid target for every index that is looked
\* up, so that no access to the two vectors is out of their bounds.
THEOREM TypeCorrect == Spec => []TypeOK
<1>1. QED
  BY TypeInit, TypeStep, PTL DEF Spec

-----------------------------------------------------------------------------
(* The invariant of detection and marking. *)

\* The table says what the archive says.
TableInv ==
    \A e \in 0..(size - 1) :
        /\ Redirects(e) => redirTable[e] = target[e]
        /\ ~Redirects(e) => loopStatus[e] = "NONLOOP"

StatusInv ==
    \A e \in 0..(size - 1) :
        /\ loopStatus[e] = "LOOP" => InLoop(e)
        /\ loopStatus[e] = "NONLOOP" => ~InLoop(e)

\* P: the redirects that i2 has passed since it was where i1 is now.
Passed(P) ==
    /\ i1 \in P \/ i1 = i2
    /\ \A x \in P : target[x] \in P \/ target[x] = i2

DetectInv ==
    pc = "detect" =>
        /\ InLoop(i) <=> InLoop(i2)
        /\ \E P \in SUBSET Entries : Passed(P)

MarkInv ==
    pc = "mark" =>
        /\ s \in {"LOOP", "NONLOOP"}
        /\ s = "LOOP" <=> InLoop(cur)
        /\ loopStatus[i] # "UNKNOWN" \/ cur = i

ReportInv ==
    /\ pc = "report" => loopStatus[i] # "UNKNOWN"
    /\ reported = {e \in Entries : e < i /\ InLoop(e)}
    /\ pc = "build" => i = 0
    /\ pc = "done" => i = NumEntries

Inv == TypeOK /\ TableInv /\ StatusInv /\ DetectInv /\ MarkInv /\ ReportInv

LEMMA InvInit == Init => Inv
<1> SUFFICES ASSUME Init PROVE Inv
  OBVIOUS
<1>1. 0..(size - 1) = {}
  BY DEF Init
<1>2. reported = {e \in Entries : e < i /\ InLoop(e)}
  BY NumEntriesAssumption DEF Init, Entries
<1>3. QED
  BY <1>1, <1>2, TypeInit
     DEF Init, Inv, TableInv, StatusInv, DetectInv, MarkInv, ReportInv

\* The archive does not change, and with it what is in a loop.
LEMMA SameArchive ==
    ASSUME TypeOK, [Next]_vars
    PROVE  /\ target' = target
           /\ \A e : InLoop(e)' <=> InLoop(e)
           /\ \A e : Redirects(e)' <=> Redirects(e)
<1>1. target' = target
  BY DEF Next, AddRedirectionEntry, AddItem, EndOfEntries, Query,
         DetectLoopStatus, ResolveLoopStatus, Report, EndOfQueries, Done, vars
<1>2. QED
  BY <1>1 DEF InLoop, Closed, Redirects

LEMMA InvStep == Inv /\ [Next]_vars => Inv'
<1> SUFFICES ASSUME Inv, [Next]_vars PROVE Inv'
  OBVIOUS
<1> USE NumEntriesAssumption DEF table, detection, marking
<1>0. /\ TypeOK /\ TypeOK' /\ target' = target
      /\ \A e : InLoop(e)' <=> InLoop(e)
      /\ \A e : Redirects(e)' <=> Redirects(e)
  BY TypeStep, SameArchive DEF Inv
<1>1. ASSUME pc # "build"
      PROVE  /\ size = NumEntries
             /\ 0..(size - 1) = Entries
             /\ redirTable \in [Entries -> Entries]
             /\ loopStatus \in [Entries -> LoopStatus]
             /\ \A e \in Entries : loopStatus[e] = "UNKNOWN" =>
                  /\ Redirects(e)
                  /\ redirTable[e] = target[e]
                  /\ InLoop(e) <=> InLoop(redirTable[e])
  <2>1. /\ size = NumEntries
        /\ 0..(size - 1) = Entries
        /\ redirTable \in [Entries -> Entries]
        /\ loopStatus \in [Entries -> LoopStatus]
    BY <1>0, <1>1 DEF TypeOK, Entries
  <2>2. \A e \in Entries : loopStatus[e] = "UNKNOWN" =>
            Redirects(e) /\ redirTable[e] = target[e]
    BY <2>1 DEF Inv, TableInv
  <2>3. QED
    BY <2>1, <2>2, LoopStep
<1>2. ASSUME NEW x \in Entries, NEW st \in LoopStatus,
             pc = "build", size < NumEntries,
             redirTable' = PushBack(redirTable, x),
             loopStatus' = PushBack(loopStatus, st),
             size' = size + 1,
             UNCHANGED <<pc, i, reported>>,
             IF Redirects(size) THEN x = target[size] /\ st = "UNKNOWN"
                                ELSE st = "NONLOOP"
      PROVE  Inv'
  <2>1. /\ size \in Entries
        /\ \A e \in 0..(size' - 1) : e = size \/ e \in 0..(size - 1)
        /\ \A e \in 0..(size' - 1) :
             /\ redirTable'[e] = IF e = size THEN x ELSE redirTable[e]
             /\ loopStatus'[e] = IF e = size THEN st ELSE loopStatus[e]
    BY <1>0, <1>2 DEF TypeOK, PushBack, Entries
  <2>2. TableInv'
    BY <1>0, <1>2, <2>1 DEF Inv, TableInv
  <2>3. StatusInv'
    BY <1>0, <1>2, <2>1, LoopForward DEF Inv, StatusInv
  <2>4. QED
    BY <1>0, <1>2, <2>2, <2>3 DEF Inv, DetectInv, MarkInv, ReportInv
<1>3. CASE AddRedirectionEntry
  <2>1. target[size] \in Entries
    BY <1>0, <1>3 DEF AddRedirectionEntry, TypeOK, Entries
  <2>2. QED
    BY <1>2, <1>3, <2>1 DEF AddRedirectionEntry, LoopStatus, Redirects
<1>4. CASE AddItem
  <2>1. size \in Entries /\ ~Redirects(size)
    BY <1>0, <1>4 DEF AddItem, TypeOK, Entries, Redirects, NoTarget
  <2>2. QED
    BY <1>2, <1>4, <2>1 DEF AddItem, LoopStatus
<1>5. CASE EndOfEntries
  BY <1>0, <1>5
     DEF EndOfEntries, Inv, TableInv, StatusInv, DetectInv, MarkInv, ReportInv
<1>6. CASE Query
  <2>1. pc # "build" /\ i \in Entries
    BY <1>0, <1>6 DEF Query, TypeOK, Entries
  <2>2. TableInv' /\ StatusInv'
    BY <1>0, <1>6 DEF Query, Inv, TableInv, StatusInv
  <2>3. DetectInv'
    <3>1. pc' = "detect" => i1' = i /\ i2' = i /\ i' = i
      BY <1>6 DEF Query
    <3>2. pc' = "detect" => Passed({})'
      BY <3>1 DEF Passed
    <3>3. QED
      BY <1>0, <3>1, <3>2 DEF DetectInv
  <2>4. MarkInv' /\ ReportInv'
    BY <1>0, <1>6 DEF Query, Inv, MarkInv, ReportInv
  <2>5. QED
    BY <1>0, <2>2, <2>3, <2>4 DEF Inv
<1>7. CASE DetectLoopStatus
  <2>1. /\ pc = "detect"
        /\ i \in Entries /\ i1 \in Entries /\ i2 \in Entries
        /\ InLoop(i) <=> InLoop(i2)
    BY <1>0, <1>7 DEF DetectLoopStatus, TypeOK, Inv, DetectInv
  <2>2. PICK P \in SUBSET Entries : Passed(P)
    BY <2>1 DEF Inv, DetectInv
  <2>3. TableInv' /\ StatusInv' /\ ReportInv'
    BY <1>0, <1>7
       DEF DetectLoopStatus, Detected, Inv, TableInv, StatusInv, ReportInv
  <2>4. CASE loopStatus[i2] # "UNKNOWN"
    <3>1. Detected(loopStatus[i2])
      BY <1>7, <2>4 DEF DetectLoopStatus
    <3>2. loopStatus[i2] \in {"LOOP", "NONLOOP"}
      BY <1>1, <2>1, <2>4 DEF LoopStatus
    <3>3. loopStatus[i2] = "LOOP" <=> InLoop(i)
      BY <1>1, <2>1, <3>2 DEF Inv, StatusInv
    <3>4. DetectInv' /\ MarkInv'
      BY <1>0, <1>7, <3>1, <3>2, <3>3
         DEF DetectLoopStatus, Detected, DetectInv, MarkInv
    <3>5. QED
      BY <1>0, <2>3, <3>4 DEF Inv
  <2>5. CASE loopStatus[i2] = "UNKNOWN" /\ redirTable[i2] = i1
    <3>1. Detected("LOOP")
      BY <1>7, <2>5 DEF DetectLoopStatus
    <3>2. target[i2] = i1
      BY <1>1, <2>1, <2>5
    <3>3. Closed(P \cup {i2})
      BY <2>2, <3>2 DEF Passed, Closed
    <3>4. InLoop(i2)
      BY <2>1, <3>3 DEF InLoop
    <3>5. DetectInv' /\ MarkInv'
      BY <1>0, <1>7, <2>1, <3>1, <3>4
         DEF DetectLoopStatus, Detected, DetectInv, MarkInv
    <3>6. QED
      BY <1>0, <2>3, <3>5 DEF Inv
  <2>6. CASE loopStatus[i2] = "UNKNOWN" /\ redirTable[i2] # i1
    <3>1. /\ i2' = redirTable[i2]
          /\ i1' = IF moveI1 THEN redirTable[i1] ELSE i1
          /\ pc' = "detect"
          /\ i' = i
      BY <1>7, <2>1, <2>6 DEF DetectLoopStatus
    <3>2. target[i2] = i2' /\ (InLoop(i2) <=> InLoop(i2'))
      BY <1>1, <2>1, <2>6, <3>1
    <3>0. PICK Q \in SUBSET Entries : Q = P \cup {i2}
      BY <2>1
    <3>3. i1 \in Q /\ \A x \in Q : target[x] \in Q \/ target[x] = i2'
      BY <2>2, <3>0, <3>2 DEF Passed
    <3>4. redirTable[i1] = target[i1]
      <4>1. Redirects(i1)
        <5>1. i2' \in Entries
          BY <1>1, <2>1, <3>1
        <5>2. QED
          BY <3>3, <5>1 DEF Redirects
      <4>2. i1 \in 0..(size - 1)
        BY <1>1, <2>1
      <4>3. QED
        BY <4>1, <4>2 DEF Inv, TableInv
    <3>5. \E R \in SUBSET Entries : Passed(R)'
      <4>1. i1' \in Q \/ i1' = i2'
        BY <3>1, <3>3, <3>4
      <4>2. Passed(Q)'
        BY <1>0, <3>3, <4>1 DEF Passed
      <4>3. QED
        BY <4>2
    <3>6. DetectInv' /\ MarkInv'
      <4>1. InLoop(i)' <=> InLoop(i2)'
        <5>1. InLoop(i)' <=> InLoop(i)
          BY <1>0, <3>1
        <5>2. InLoop(i2)' <=> InLoop(i2')
          BY <1>0
        <5>3. QED
          BY <2>1, <3>2, <5>1, <5>2
      <4>2. DetectInv'
        BY <3>5, <4>1 DEF DetectInv
      <4>3. MarkInv'
        BY <3>1 DEF MarkInv
      <4>4. QED
        BY <4>2, <4>3
    <3>7. QED
      BY <1>0, <2>3, <3>6 DEF Inv
  <2>7. QED
    BY <2>4, <2>5, <2>6
<1>8. CASE ResolveLoopStatus
  <2>1. /\ pc = "mark"
        /\ i \in Entries /\ cur \in Entries
        /\ s \in {"LOOP", "NONLOOP"}
        /\ s = "LOOP" <=> InLoop(cur)
        /\ loopStatus[i] # "UNKNOWN" \/ cur = i
    BY <1>0, <1>8 DEF ResolveLoopStatus, TypeOK, Inv, MarkInv
  <2>2. CASE loopStatus[cur] = "UNKNOWN"
    <3>1. /\ loopStatus' = [loopStatus EXCEPT ![cur] = s]
          /\ cur' = redirTable[cur]
          /\ pc' = "mark"
          /\ UNCHANGED <<redirTable, size, i, s, reported>>
      BY <1>8, <2>1, <2>2 DEF ResolveLoopStatus
    <3>2. InLoop(cur) <=> InLoop(redirTable[cur])
      BY <1>1, <2>1, <2>2
    <3>3. \A e \in Entries :
              loopStatus'[e] = IF e = cur THEN s ELSE loopStatus[e]
      BY <1>1, <2>1, <3>1
    <3>4. TableInv' /\ StatusInv'
      <4>1. Redirects(cur)
        BY <1>1, <2>1, <2>2
      <4>2. TableInv'
        BY <1>0, <1>1, <2>1, <3>1, <3>3, <4>1 DEF Inv, TableInv
      <4>3. StatusInv'
        BY <1>0, <1>1, <2>1, <3>1, <3>3 DEF Inv, StatusInv
      <4>4. QED
        BY <4>2, <4>3
    <3>5. MarkInv'
      BY <1>0, <2>1, <3>1, <3>2, <3>3 DEF MarkInv
    <3>6. DetectInv' /\ ReportInv'
      BY <1>0, <2>1, <3>1 DEF Inv, DetectInv, ReportInv
    <3>7. QED
      BY <1>0, <3>4, <3>5, <3>6 DEF Inv
  <2>3. CASE loopStatus[cur] # "UNKNOWN"
    BY <1>0, <1>8, <2>1, <2>3
       DEF ResolveLoopStatus, Inv, TableInv, StatusInv, DetectInv, MarkInv,
           ReportInv
  <2>4. QED
    BY <2>2, <2>3
<1>9. CASE Report
  <2>1. /\ pc = "report"
        /\ i \in Entries
        /\ loopStatus[i] # "UNKNOWN"
    BY <1>0, <1>9 DEF Report, TypeOK, Inv, ReportInv
  <2>2. loopStatus[i] = "LOOP" <=> InLoop(i)
    BY <1>1, <2>1 DEF Inv, StatusInv, LoopStatus
  <2>3. \A e \in Entries : e < i + 1 <=> e < i \/ e = i
    BY <2>1 DEF Entries
  <2>4. reported' = {e \in Entries : e < i + 1 /\ InLoop(e)}
    BY <1>9, <2>1, <2>2, <2>3 DEF Report, Inv, ReportInv
  <2>5. ReportInv'
    BY <1>0, <1>9, <2>4 DEF Report, ReportInv
  <2>6. TableInv' /\ StatusInv' /\ DetectInv' /\ MarkInv'
    BY <1>0, <1>9 DEF Report, Inv, TableInv, StatusInv, DetectInv, MarkInv
  <2>7. QED
    BY <1>0, <2>5, <2>6 DEF Inv
<1>10. CASE EndOfQueries
  <2>1. i = NumEntries
    BY <1>0, <1>10 DEF EndOfQueries, TypeOK
  <2>2. QED
    BY <1>0, <1>10, <2>1
       DEF EndOfQueries, Inv, TableInv, StatusInv, DetectInv, MarkInv, ReportInv
<1>11. CASE UNCHANGED vars
  BY <1>0, <1>11
     DEF vars, Inv, TableInv, StatusInv, DetectInv, MarkInv, ReportInv, Passed
<1>12. QED
  BY <1>3, <1>4, <1>5, <1>6, <1>7, <1>8, <1>9, <1>10, <1>11 DEF Next, Done

LEMMA Invariance == Spec => []Inv
<1>1. QED
  BY InvInit, InvStep, PTL DEF Spec

\* Every status in the table is right, whatever the redirects of the archive.
THEOREM StatusCorrect == Spec => []StatusSound
<1>1. Inv => StatusSound
  <2>1. Inv /\ pc # "build" => 0..(size - 1) = Entries
    BY DEF Inv, TypeOK, Entries
  <2>2. QED
    BY <2>1 DEF Inv, StatusInv, StatusSound
<1>2. QED
  BY <1>1, Invariance, PTL

\* test_redirect_loop() reports exactly the entries that cannot be resolved.
THEOREM ReportCorrect == Spec => []ReportedExactly
<1>1. Inv => ReportedExactly
  <2>1. \A e \in Entries : e < NumEntries
    BY NumEntriesAssumption DEF Entries
  <2>2. Inv /\ pc = "done" => reported = {e \in Entries : InLoop(e)}
    BY <2>1 DEF Inv, ReportInv
  <2>3. QED
    BY <2>2 DEF ReportedExactly
<1>2. QED
  BY <1>1, Invariance, PTL

\* No lookup overwrites a status that an earlier one has found.
THEOREM StatusFinal == Spec => StatusIsFinal
<1>1. TypeOK /\ [Next]_vars =>
        \A e \in DOMAIN loopStatus :
            loopStatus[e] # "UNKNOWN" => loopStatus'[e] = loopStatus[e]
  <2> SUFFICES ASSUME TypeOK, [Next]_vars, NEW e \in DOMAIN loopStatus,
                      loopStatus[e] # "UNKNOWN"
               PROVE  loopStatus'[e] = loopStatus[e]
    OBVIOUS
  <2>1. CASE AddRedirectionEntry \/ AddItem
    <3>1. e \in 0..size /\ e # size
      BY NumEntriesAssumption DEF TypeOK
    <3>2. QED
      BY <2>1, <3>1 DEF AddRedirectionEntry, AddItem, PushBack
  <2>2. CASE ResolveLoopStatus
    BY <2>2 DEF ResolveLoopStatus, TypeOK
  <2>3. QED
    BY <2>1, <2>2
       DEF Next, EndOfEntries, Query, DetectLoopStatus, Report, EndOfQueries,
           Done, vars, table
<1>2. QED
  BY <1>1, TypeCorrect, PTL DEF StatusIsFinal, Spec

=============================================================================
