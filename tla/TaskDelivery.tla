---------------------------- MODULE TaskDelivery ----------------------------
(***************************************************************************)
(* What test_articles() expects of the machinery that spreads the checking *)
(* of an archive's entries over threads (src/zimcheck/checks.cpp): every   *)
(* entry that the iteration yields is checked by one worker, once, and     *)
(* when TaskDispatcher::finish() returns nothing is left to be done, so    *)
(* that detect_redundant_articles() may read what the workers collected.   *)
(* Queues, locks and the condition variable do not appear.                 *)
(***************************************************************************)

CONSTANT Entries        \* the entries of the archive

VARIABLES pending,      \* entries handed over, not yet picked up by a worker
          active,       \* entries being checked
          checked,      \* entries whose check has returned
          outcome       \* how test_articles() stands

vars == <<pending, active, checked, outcome>>

Outcomes == {"open", "complete", "interrupted", "terminated"}

Handed == pending \cup active \cup checked

TypeOK ==
    /\ pending \in SUBSET Entries
    /\ active \in SUBSET Entries
    /\ checked \in SUBSET Entries
    /\ outcome \in Outcomes

Init ==
    /\ pending = {}
    /\ active = {}
    /\ checked = {}
    /\ outcome = "open"

-----------------------------------------------------------------------------

HandOver(e) ==
    /\ e \notin Handed
    /\ pending' = pending \cup {e}
    /\ UNCHANGED <<active, checked, outcome>>

Begin(e) ==
    /\ e \in pending
    /\ pending' = pending \ {e}
    /\ active' = active \cup {e}
    /\ UNCHANGED <<checked, outcome>>

End(e) ==
    /\ e \in active
    /\ active' = active \ {e}
    /\ checked' = checked \cup {e}
    /\ UNCHANGED <<pending, outcome>>

\* finish() returns after a complete iteration: every entry has been checked.
Complete ==
    /\ checked = Entries
    /\ outcome' = "complete"
    /\ UNCHANGED <<pending, active, checked>>

\* The iteration over the archive threw. The dispatcher's destructor still
\* waits for what had been handed over before the exception leaves.
Interrupt ==
    /\ pending = {}
    /\ active = {}
    /\ outcome' = "interrupted"
    /\ UNCHANGED <<pending, active, checked>>

\* A check threw inside its thread: std::terminate() ends the process.
Terminate ==
    /\ active # {}
    /\ outcome' = "terminated"
    /\ UNCHANGED <<pending, active, checked>>

Next ==
    /\ outcome = "open"
    /\ \/ \E e \in Entries : HandOver(e) \/ Begin(e) \/ End(e)
       \/ Complete
       \/ Interrupt
       \/ Terminate

Spec == Init /\ [][Next]_vars

=============================================================================
