----------------------- MODULE TaskDispatcher_proofs ------------------------
(***************************************************************************)
(* What the runs of TaskDispatcher check on small instances, proved for    *)
(* any archive, any number of streams and any queue bound.                 *)
(***************************************************************************)
EXTENDS TaskDispatcher, TLAPS

-----------------------------------------------------------------------------
(* Sequences used as queues. *)

LEMMA RangeAppend ==
    ASSUME NEW S, NEW q \in Seq(S), NEW x
    PROVE  Range(Append(q, x)) = Range(q) \cup {x}
<1>1. Range(q) \cup {x} \subseteq Range(Append(q, x))
  <2>1. \A i \in DOMAIN q : i \in DOMAIN Append(q, x) /\ Append(q, x)[i] = q[i]
    OBVIOUS
  <2>2. Len(q) + 1 \in DOMAIN Append(q, x) /\ Append(q, x)[Len(q) + 1] = x
    OBVIOUS
  <2>3. QED
    BY <2>1, <2>2, Zenon DEF Range
<1>2. Range(Append(q, x)) \subseteq Range(q) \cup {x}
  <2>1. \A i \in DOMAIN Append(q, x) :
            (i \in DOMAIN q /\ Append(q, x)[i] = q[i]) \/ Append(q, x)[i] = x
    OBVIOUS
  <2>2. QED
    BY <2>1, Zenon DEF Range
<1>3. QED
  BY <1>1, <1>2

LEMMA RangeTail ==
    ASSUME NEW S, NEW q \in Seq(S), q # <<>>
    PROVE  /\ Head(q) \in S
           /\ Tail(q) \in Seq(S)
           /\ Range(q) = {Head(q)} \cup Range(Tail(q))
<1>1. Head(q) \in S /\ Tail(q) \in Seq(S)
  OBVIOUS
<1>2. Head(q) \in Range(q)
  <2>1. 1 \in DOMAIN q /\ q[1] = Head(q)
    OBVIOUS
  <2>2. QED
    BY <2>1, Zenon DEF Range
<1>3. Range(Tail(q)) \subseteq Range(q)
  <2>1. \A i \in DOMAIN Tail(q) : i + 1 \in DOMAIN q /\ Tail(q)[i] = q[i + 1]
    OBVIOUS
  <2>2. QED
    BY <2>1, Zenon DEF Range
<1>4. Range(q) \subseteq {Head(q)} \cup Range(Tail(q))
  <2>1. \A i \in DOMAIN q :
            q[i] = Head(q) \/ (i - 1 \in DOMAIN Tail(q) /\ Tail(q)[i - 1] = q[i])
    OBVIOUS
  <2>2. QED
    BY <2>1, Zenon DEF Range
<1>5. QED
  BY <1>1, <1>2, <1>3, <1>4

LEMMA RangeEmpty == Range(<<>>) = {}
  BY DEF Range

-----------------------------------------------------------------------------
(* Where the threads are and what they hold there. *)

PlaceInv ==
    /\ mpc \in {"iterate", "add"} =>
         /\ taskStreams # <<>>
         /\ \A s \in Streams : expectingMoreTasks[s]
    /\ mpc = "add" => nextEntry <= NumEntries
    /\ mpc \in {"close", "join"} => taskStreams # <<>>
    /\ mpc = "done" => taskStreams = <<>>
    /\ \A s \in Streams : (wpc[s] = "check") <=> (task[s] # NoTask)

Base == TypeOK /\ PlaceInv

LEMMA RotatedType ==
    ASSUME NEW S, NEW q \in Seq(S), q # <<>>
    PROVE  /\ Append(Tail(q), Head(q)) \in Seq(S)
           /\ Append(Tail(q), Head(q)) # <<>>
           /\ Range(Append(Tail(q), Head(q))) = Range(q)
<1>1. /\ Head(q) \in S
      /\ Tail(q) \in Seq(S)
      /\ Range(q) = {Head(q)} \cup Range(Tail(q))
  BY RangeTail
<1>2. Append(Tail(q), Head(q)) \in Seq(S)
  BY <1>1
<1>3. Len(Append(Tail(q), Head(q))) = Len(Tail(q)) + 1
  BY <1>1
<1>4. Append(Tail(q), Head(q)) # <<>>
  <2>1. Len(Append(Tail(q), Head(q))) # 0
    BY <1>1, <1>3
  <2>2. Len(<<>>) = 0
    OBVIOUS
  <2>3. QED
    BY <2>1, <2>2, Zenon
<1>5. Range(Append(Tail(q), Head(q))) = Range(Tail(q)) \cup {Head(q)}
  BY <1>1, RangeAppend
<1>6. QED
  BY <1>1, <1>2, <1>4, <1>5, Zenon

LEMMA NoTaskType == NoTask \notin Entries
  BY DEF NoTask, Entries

LEMMA FrontType == Base /\ taskStreams # <<>> => FrontStream \in Streams
  BY RangeTail DEF Base, TypeOK, FrontStream

LEMMA NotifyType ==
    ASSUME TypeOK, NEW s \in Streams, NotifyOne(s)
    PROVE  waiters' \in [Streams -> SUBSET Sides]
  BY DEF TypeOK, NotifyOne

LEMMA BaseInit == Init => Base
<1> SUFFICES ASSUME Init PROVE Base
  OBVIOUS
<1>1. Streams # {}
  BY NumStreamsAssumption DEF Streams
<1>2. taskStreams \in Seq(Streams) /\ taskStreams # <<>>
  BY NumStreamsAssumption DEF Init, Streams
<1>3. TypeOK
  <2>1. 1 \in 1..(NumEntries + 1)
    BY NumEntriesAssumption
  <2>2. <<>> \in Seq(Entries)
    OBVIOUS
  <2>3. QED
    BY <1>2, <2>1, <2>2 DEF Init, TypeOK
<1>4. PlaceInv
  BY <1>2 DEF Init, PlaceInv
<1>5. QED
  BY <1>3, <1>4 DEF Base

LEMMA BaseStep == Base /\ [Next]_vars => Base'
<1> SUFFICES ASSUME Base, [Next]_vars PROVE Base'
  OBVIOUS
<1> USE NumEntriesAssumption
        DEF streamVars, workerVars, mainVars
<1>1. CASE Dispatch
  <2>1. taskStreams' \in Seq(Streams) /\ taskStreams' # <<>>
    <3>1. taskStreams \in Seq(Streams) /\ taskStreams # <<>>
      BY <1>1 DEF Dispatch, Base, TypeOK, PlaceInv
    <3>2. Rotated \in Seq(Streams) /\ Rotated # <<>>
      BY <3>1, RotatedType DEF Rotated
    <3>3. QED
      BY <1>1, <3>1, <3>2 DEF Dispatch
  <2>2. currentCluster' \in Nat \cup {NoCluster}
    BY <1>1, ClusterOfAssumption DEF Dispatch, Base, TypeOK, Entries
  <2>3. QED
    BY <1>1, <2>1, <2>2 DEF Dispatch, Base, TypeOK, PlaceInv
<1>2. CASE AddTaskWait
  BY <1>2, FrontType DEF AddTaskWait, WaitOn, Base, TypeOK, PlaceInv, Sides
<1>3. CASE AddTask
  <2>1. FrontStream \in Streams /\ nextEntry \in Entries
    BY <1>3, FrontType DEF AddTask, Base, TypeOK, PlaceInv, Entries
  <2>2. taskQueue' \in [Streams -> Seq(Entries)]
    BY <1>3, <2>1 DEF AddTask, Base, TypeOK
  <2>3. waiters' \in [Streams -> SUBSET Sides]
    BY <1>3, <2>1, NotifyType DEF AddTask, Base
  <2>4. QED
    BY <1>3, <2>1, <2>2, <2>3 DEF AddTask, Base, TypeOK, PlaceInv, Entries
<1>4. CASE EndOfEntries
  BY <1>4 DEF EndOfEntries, Base, TypeOK, PlaceInv
<1>5. CASE IterationThrows
  BY <1>5 DEF IterationThrows, Base, TypeOK, PlaceInv
<1>6. CASE NoMoreTasks
  <2>1. FrontStream \in Streams
    BY <1>6, FrontType DEF NoMoreTasks
  <2>2. waiters' \in [Streams -> SUBSET Sides]
    BY <1>6, <2>1, NotifyType DEF NoMoreTasks, Base
  <2>3. QED
    BY <1>6, <2>1, <2>2 DEF NoMoreTasks, Base, TypeOK, PlaceInv
<1>7. CASE Join
  <2>1. Tail(taskStreams) \in Seq(Streams)
    BY <1>7, RangeTail DEF Join, Base, TypeOK, PlaceInv
  <2>2. QED
    BY <1>7, <2>1 DEF Join, Base, TypeOK, PlaceInv
<1>8. ASSUME NEW s \in Streams, wpc[s] \in {"fetch", "wait"}, TakeTask(s),
             UNCHANGED <<expectingMoreTasks, mainVars, checked, terminated>>
      PROVE  Base'
  <2>1. CASE taskQueue[s] # <<>>
    <3>1. Head(taskQueue[s]) \in Entries /\ Tail(taskQueue[s]) \in Seq(Entries)
      BY <2>1, RangeTail DEF Base, TypeOK
    <3>2. waiters' \in [Streams -> SUBSET Sides]
      BY <1>8, <2>1, NotifyType DEF TakeTask, Base
    <3>3. QED
      <4>1. /\ wpc' = [wpc EXCEPT ![s] = "check"]
            /\ task' = [task EXCEPT ![s] = Head(taskQueue[s])]
            /\ taskQueue' = [taskQueue EXCEPT ![s] = Tail(@)]
        BY <1>8, <2>1 DEF TakeTask
      <4>2. TypeOK'
        BY <1>8, <3>1, <3>2, <4>1 DEF Base, TypeOK
      <4>3. PlaceInv'
        BY <1>8, <3>1, <4>1, NoTaskType DEF Base, TypeOK, PlaceInv
      <4>4. QED
        BY <4>2, <4>3 DEF Base
  <2>2. CASE taskQueue[s] = <<>>
    BY <1>8, <2>2, NoTaskType DEF TakeTask, Base, TypeOK, PlaceInv
  <2>3. QED
    BY <2>1, <2>2
<1>9. ASSUME NEW s \in Streams, GetNextTaskWait(s) PROVE Base'
  BY <1>9 DEF GetNextTaskWait, WaitOn, Base, TypeOK, PlaceInv, Sides
<1>10. ASSUME NEW s \in Streams, GetNextTask(s) PROVE Base'
  BY <1>8, <1>10 DEF GetNextTask
<1>11. ASSUME NEW s \in Streams, GetNextTaskResume(s) PROVE Base'
  BY <1>8, <1>11 DEF GetNextTaskResume
<1>12. ASSUME NEW s \in Streams, Check(s) PROVE Base'
  <2>1. checked' \in SUBSET Entries
    BY <1>12 DEF Check, Base, TypeOK, PlaceInv
  <2>2. QED
    BY <1>12, <2>1 DEF Check, Base, TypeOK, PlaceInv
<1>13. ASSUME NEW s \in Streams, CheckThrows(s) PROVE Base'
  BY <1>13 DEF CheckThrows, Base, TypeOK, PlaceInv
<1>14. ASSUME NEW s \in Streams, NEW side \in Sides, SpuriousWakeup(s, side)
       PROVE  Base'
  BY <1>14 DEF SpuriousWakeup, Base, TypeOK, PlaceInv
<1>15. CASE UNCHANGED vars
  BY <1>15 DEF vars, Base, TypeOK, PlaceInv
<1>16. QED
  BY <1>1, <1>2, <1>3, <1>4, <1>5, <1>6, <1>7, <1>9, <1>10, <1>11, <1>12,
     <1>13, <1>14, <1>15
     DEF Next, Main, Worker, Environment, Finished

\* Type correctness: every state of the streams, the workers and the main
\* thread has the shape the code's declarations give it.
THEOREM TypeCorrect == Spec => []TypeOK
<1>1. Spec => []Base
  BY BaseInit, BaseStep, PTL DEF Spec
<1>2. Base => TypeOK
  BY DEF Base
<1>3. QED
  BY <1>1, <1>2, PTL

-----------------------------------------------------------------------------
(* Who may be asleep on a stream's condition variable. *)

WaitOK(s) ==
    /\ "main" \in waiters[s] =>
         mpc = "add" /\ s = FrontStream /\ InIsBlocked(s)
    /\ "worker" \in waiters[s] =>
         wpc[s] = "wait" /\ OutIsBlocked(s)

WaitInv == \A s \in Streams : WaitOK(s)

LEMMA BlockedExclusion ==
    ASSUME NEW s \in Streams, OutIsBlocked(s), InIsBlocked(s)
    PROVE  FALSE
<1>1. Len(<<>>) = 0
  OBVIOUS
<1>2. Len(taskQueue[s]) = 0
  BY <1>1 DEF OutIsBlocked
<1>3. QED
  BY <1>2, MaxSizeAssumption DEF InIsBlocked

LEMMA OneWaiter == Base /\ WaitInv => OnlyOneSideWaits
  BY BlockedExclusion, Zenon DEF WaitInv, WaitOK, OnlyOneSideWaits, Sides

\* With one waiter at most, notify_one() releases all there is to release.
LEMMA NotifyReleases ==
    ASSUME Base, WaitInv, NEW s \in Streams, NotifyOne(s)
    PROVE  waiters' = [waiters EXCEPT ![s] = {}]
<1>1. waiters \in [Streams -> SUBSET Sides] /\ waiters[s] # Sides
  BY OneWaiter DEF Base, TypeOK, OnlyOneSideWaits
<1>2. CASE waiters[s] = {}
  BY <1>1, <1>2 DEF NotifyOne
<1>3. CASE waiters[s] # {}
  <2>1. PICK side \in waiters[s] : waiters' = [waiters EXCEPT ![s] = @ \ {side}]
    BY <1>3 DEF NotifyOne
  <2>2. waiters[s] \ {side} = {}
    BY <1>1, <2>1 DEF Sides
  <2>3. QED
    BY <2>1, <2>2
<1>4. QED
  BY <1>2, <1>3

LEMMA WaitStep == Base /\ WaitInv /\ [Next]_vars => WaitInv'
<1> SUFFICES ASSUME Base, WaitInv, [Next]_vars, NEW r \in Streams
             PROVE  WaitOK(r)'
  BY DEF WaitInv
<1> USE DEF streamVars, workerVars, mainVars
<1>0. /\ WaitOK(r)
      /\ waiters \in [Streams -> SUBSET Sides]
      /\ taskQueue \in [Streams -> Seq(Entries)]
      /\ wpc \in [Streams -> {"fetch", "wait", "check", "exited"}]
      /\ expectingMoreTasks \in [Streams -> BOOLEAN]
  BY DEF WaitInv, Base, TypeOK
<1>1. CASE Dispatch
  BY <1>0, <1>1 DEF Dispatch, WaitOK, InIsBlocked, OutIsBlocked
<1>2. CASE AddTaskWait
  BY <1>0, <1>2
     DEF AddTaskWait, WaitOn, WaitOK, InIsBlocked, OutIsBlocked, FrontStream
<1>3. CASE AddTask
  <2>1. FrontStream \in Streams
    BY <1>3, FrontType DEF AddTask, Base, PlaceInv
  <2>2. waiters' = [waiters EXCEPT ![FrontStream] = {}]
    BY <1>3, <2>1, NotifyReleases DEF AddTask
  <2>3. QED
    BY <1>0, <1>3, <2>1, <2>2 DEF AddTask, WaitOK, InIsBlocked, OutIsBlocked
<1>4. CASE EndOfEntries
  BY <1>0, <1>4 DEF EndOfEntries, WaitOK, InIsBlocked, OutIsBlocked
<1>5. CASE IterationThrows
  BY <1>0, <1>5 DEF IterationThrows, WaitOK, InIsBlocked, OutIsBlocked
<1>6. CASE NoMoreTasks
  <2>1. FrontStream \in Streams
    BY <1>6, FrontType DEF NoMoreTasks
  <2>2. waiters' = [waiters EXCEPT ![FrontStream] = {}]
    BY <1>6, <2>1, NotifyReleases DEF NoMoreTasks
  <2>3. QED
    BY <1>0, <1>6, <2>1, <2>2 DEF NoMoreTasks, WaitOK, InIsBlocked, OutIsBlocked
<1>7. CASE Join
  BY <1>0, <1>7 DEF Join, WaitOK, InIsBlocked, OutIsBlocked
<1>8. ASSUME NEW s \in Streams, TakeTask(s), "worker" \notin waiters[s],
             UNCHANGED <<expectingMoreTasks, mainVars, checked, terminated>>
      PROVE  WaitOK(r)'
  <2>1. CASE taskQueue[s] # <<>>
    <3>1. waiters' = [waiters EXCEPT ![s] = {}]
      BY <1>8, <2>1, NotifyReleases DEF TakeTask
    <3>2. QED
      BY <1>0, <1>8, <2>1, <3>1
         DEF TakeTask, WaitOK, InIsBlocked, OutIsBlocked, FrontStream
  <2>2. CASE taskQueue[s] = <<>>
    BY <1>0, <1>8, <2>2
       DEF TakeTask, WaitOK, InIsBlocked, OutIsBlocked, FrontStream
  <2>3. QED
    BY <2>1, <2>2
<1>9. ASSUME NEW s \in Streams, GetNextTaskWait(s) PROVE WaitOK(r)'
  BY <1>0, <1>9
     DEF GetNextTaskWait, WaitOn, WaitOK, InIsBlocked, OutIsBlocked, FrontStream
<1>10. ASSUME NEW s \in Streams, GetNextTask(s) PROVE WaitOK(r)'
  <2>1. "worker" \notin waiters[s]
    BY <1>10 DEF GetNextTask, WaitInv, WaitOK
  <2>2. QED
    BY <1>8, <1>10, <2>1 DEF GetNextTask
<1>11. ASSUME NEW s \in Streams, GetNextTaskResume(s) PROVE WaitOK(r)'
  BY <1>8, <1>11 DEF GetNextTaskResume
<1>12. ASSUME NEW s \in Streams, Check(s) PROVE WaitOK(r)'
  BY <1>0, <1>12 DEF Check, WaitOK, InIsBlocked, OutIsBlocked, FrontStream
<1>13. ASSUME NEW s \in Streams, CheckThrows(s) PROVE WaitOK(r)'
  BY <1>0, <1>13 DEF CheckThrows, WaitOK, InIsBlocked, OutIsBlocked, FrontStream
<1>14. ASSUME NEW s \in Streams, NEW side \in Sides, SpuriousWakeup(s, side)
       PROVE  WaitOK(r)'
  BY <1>0, <1>14
     DEF SpuriousWakeup, WaitOK, InIsBlocked, OutIsBlocked, FrontStream
<1>15. CASE UNCHANGED vars
  BY <1>0, <1>15 DEF vars, WaitOK, InIsBlocked, OutIsBlocked, FrontStream
<1>16. QED
  BY <1>1, <1>2, <1>3, <1>4, <1>5, <1>6, <1>7, <1>9, <1>10, <1>11, <1>12,
     <1>13, <1>14, <1>15
     DEF Next, Main, Worker, Environment, Finished

LEMMA WaitInit == Init => WaitInv
  BY DEF Init, WaitInv, WaitOK

LEMMA WaitInvariant == Spec => [](Base /\ WaitInv)
<1>1. Init => Base /\ WaitInv
  BY BaseInit, WaitInit
<1>2. Base /\ WaitInv /\ [Next]_vars => (Base /\ WaitInv)'
  BY BaseStep, WaitStep
<1>3. QED
  BY <1>1, <1>2, PTL DEF Spec

\* No lost wakeup: a thread sleeps on a stream's condition variable only while
\* its end of the queue is blocked, whatever wakes up spuriously.
THEOREM NoLostWakeup == Spec => []WaitersAreBlocked
<1>1. WaitInv => WaitersAreBlocked
  BY DEF WaitInv, WaitOK, WaitersAreBlocked
<1>2. QED
  BY <1>1, WaitInvariant, PTL

\* "Only the consumer or the producer waits on cv": the comment on
\* TaskStream::cv holds, so that one condition variable with notify_one()
\* serves both ends of a queue.
THEOREM OneCvSuffices == Spec => []OnlyOneSideWaits
<1>1. Base /\ WaitInv => OnlyOneSideWaits
  BY OneWaiter
<1>2. QED
  BY <1>1, WaitInvariant, PTL

-----------------------------------------------------------------------------
(* Where each entry is: in one queue once, or with one worker, or checked. *)

NoRepeats(q) == \A i, j \in DOMAIN q : q[i] = q[j] => i = j

OnceInv ==
    /\ \A s \in Streams : NoRepeats(taskQueue[s])
    /\ \A s, t \in Streams :
         s # t => Range(taskQueue[s]) \cap Range(taskQueue[t]) = {}
    /\ \A s, t \in Streams : task[s] \notin Range(taskQueue[t])
    /\ \A s, t \in Streams : s # t /\ task[s] # NoTask => task[s] # task[t]
    /\ \A s \in Streams : task[s] \notin checked
    /\ \A s \in Streams : Range(taskQueue[s]) \cap checked = {}
    /\ Queued \cup Held \cup checked = 1..(nextEntry - 1)

LEMMA NoRepeatsAppend ==
    ASSUME NEW S, NEW q \in Seq(S), NEW x, x \notin Range(q), NoRepeats(q)
    PROVE  NoRepeats(Append(q, x))
<1>1. \A i \in DOMAIN q : q[i] # x
  BY Zenon DEF Range
<1>2. \A i \in DOMAIN Append(q, x) :
          \/ i \in DOMAIN q /\ Append(q, x)[i] = q[i]
          \/ i = Len(q) + 1 /\ Append(q, x)[i] = x
  OBVIOUS
<1>3. QED
  BY <1>1, <1>2, Zenon DEF NoRepeats

LEMMA NoRepeatsTail ==
    ASSUME NEW S, NEW q \in Seq(S), q # <<>>, NoRepeats(q)
    PROVE  NoRepeats(Tail(q)) /\ Head(q) \notin Range(Tail(q))
<1>1. \A i \in DOMAIN Tail(q) : /\ i + 1 \in DOMAIN q
                                /\ Tail(q)[i] = q[i + 1]
                                /\ i \in Nat \ {0}
  OBVIOUS
<1>2. 1 \in DOMAIN q /\ q[1] = Head(q)
  OBVIOUS
<1>3. NoRepeats(Tail(q))
  <2>1. SUFFICES ASSUME NEW i \in DOMAIN Tail(q), NEW j \in DOMAIN Tail(q),
                        Tail(q)[i] = Tail(q)[j]
                 PROVE  i = j
    BY DEF NoRepeats
  <2>2. i + 1 = j + 1
    BY <1>1, <2>1, Zenon DEF NoRepeats
  <2>3. QED
    BY <1>1, <2>2
<1>4. ASSUME Head(q) \in Range(Tail(q)) PROVE FALSE
  <2>1. PICK i \in DOMAIN Tail(q) : Tail(q)[i] = Head(q)
    BY <1>4, Zenon DEF Range
  <2>2. i + 1 = 1
    BY <1>1, <1>2, <2>1, Zenon DEF NoRepeats
  <2>3. QED
    BY <1>1, <2>2
<1>5. QED
  BY <1>3, <1>4

LEMMA InQueued ==
    ASSUME NEW e
    PROVE  e \in Queued <=> \E s \in Streams : e \in Range(taskQueue[s])
  BY Zenon DEF Queued

LEMMA InHeld ==
    ASSUME NEW e
    PROVE  e \in Held <=> \E s \in Streams : e = task[s] /\ e # NoTask
  BY Zenon DEF Held

\* What the three steps that move an entry do to the places of entries.
LEMMA AddEffect ==
    ASSUME Base, WaitInv, OnceInv, AddTask
    PROVE  /\ FrontStream \in Streams
           /\ taskQueue' =
                [taskQueue EXCEPT ![FrontStream] = Append(@, nextEntry)]
           /\ Range(taskQueue'[FrontStream]) =
                Range(taskQueue[FrontStream]) \cup {nextEntry}
           /\ nextEntry \in Entries \ (Queued \cup Held \cup checked)
           /\ Queued' = Queued \cup {nextEntry}
           /\ Held' = Held
           /\ checked' = checked
           /\ nextEntry' = nextEntry + 1
<1>1. FrontStream \in Streams
  BY FrontType DEF AddTask, Base, PlaceInv
<1>2. taskQueue' = [taskQueue EXCEPT ![FrontStream] = Append(@, nextEntry)]
  BY DEF AddTask
<1>3. taskQueue[FrontStream] \in Seq(Entries) /\ DOMAIN taskQueue = Streams
  BY <1>1 DEF Base, TypeOK
<1>4. taskQueue'[FrontStream] = Append(taskQueue[FrontStream], nextEntry)
  BY <1>1, <1>2, <1>3
<1>5. Range(taskQueue'[FrontStream]) =
        Range(taskQueue[FrontStream]) \cup {nextEntry}
  BY <1>3, <1>4, RangeAppend
<1>6. \A s \in Streams : s # FrontStream => taskQueue'[s] = taskQueue[s]
  BY <1>2, <1>3
<1>7. Queued' = Queued \cup {nextEntry}
  BY <1>1, <1>5, <1>6, Zenon DEF Queued
<1>8. Held' = Held /\ checked' = checked /\ nextEntry' = nextEntry + 1
  BY DEF AddTask, Held, workerVars
<1>9. nextEntry \in Entries /\ nextEntry \notin 1..(nextEntry - 1)
  BY NumEntriesAssumption DEF AddTask, Base, TypeOK, PlaceInv, Entries
<1>10. nextEntry \in Entries \ (Queued \cup Held \cup checked)
  BY <1>9 DEF OnceInv
<1>11. QED
  BY <1>1, <1>2, <1>5, <1>7, <1>8, <1>10

LEMMA TakeEffect ==
    ASSUME Base, OnceInv, NEW s \in Streams, wpc[s] \in {"fetch", "wait"},
           taskQueue[s] # <<>>, TakeTask(s),
           UNCHANGED <<expectingMoreTasks, mainVars, checked, terminated>>
    PROVE  LET e == Head(taskQueue[s])
           IN  /\ taskQueue' = [taskQueue EXCEPT ![s] = Tail(@)]
               /\ Range(taskQueue'[s]) = Range(taskQueue[s]) \ {e}
               /\ e \in Range(taskQueue[s])
               /\ task' = [task EXCEPT ![s] = e]
               /\ e \in Entries
               /\ e \in Queued
               /\ Queued' = Queued \ {e}
               /\ Held' = Held \cup {e}
<1> DEFINE e == Head(taskQueue[s])
<1>1. /\ taskQueue' = [taskQueue EXCEPT ![s] = Tail(@)]
      /\ task' = [task EXCEPT ![s] = e]
  BY DEF TakeTask
<1>2. /\ taskQueue[s] \in Seq(Entries)
      /\ DOMAIN taskQueue = Streams
      /\ DOMAIN task = Streams
      /\ task[s] = NoTask
  BY DEF Base, TypeOK, PlaceInv
<1>3. /\ e \in Entries
      /\ Range(taskQueue[s]) = {e} \cup Range(Tail(taskQueue[s]))
  BY <1>2, RangeTail
<1>4. e \notin Range(Tail(taskQueue[s]))
  BY <1>2, NoRepeatsTail DEF OnceInv
<1>5. taskQueue'[s] = Tail(taskQueue[s])
  BY <1>1, <1>2
<1>6. Range(taskQueue'[s]) = Range(taskQueue[s]) \ {e} /\ e \in Range(taskQueue[s])
  BY <1>3, <1>4, <1>5
<1>7. \A t \in Streams : t # s => /\ taskQueue'[t] = taskQueue[t]
                                  /\ e \notin Range(taskQueue[t])
  BY <1>1, <1>2, <1>6 DEF OnceInv
<1>8. e \in Queued /\ Queued' = Queued \ {e}
  <2>1. ASSUME NEW f PROVE f \in Queued' <=> f \in Queued /\ f # e
    <3>1. f \in Queued' <=> \E t \in Streams : f \in Range(taskQueue'[t])
      BY Zenon DEF Queued
    <3>2. QED
      BY <1>6, <1>7, <3>1, InQueued
  <2>2. QED
    BY <1>6, <2>1, InQueued
<1>9. Held' = Held \cup {e}
  <2>1. e # NoTask
    BY <1>3, NoTaskType
  <2>2. task'[s] = e /\ \A t \in Streams : t # s => task'[t] = task[t]
    BY <1>1, <1>2
  <2>3. ASSUME NEW f PROVE f \in Held' <=> f \in Held \/ f = e
    <3>1. f \in Held' <=> \E t \in Streams : f = task'[t] /\ f # NoTask
      BY Zenon DEF Held
    <3>2. QED
      BY <1>2, <2>1, <2>2, <3>1, InHeld
  <2>4. QED
    BY <2>3
<1>10. QED
  BY <1>1, <1>3, <1>6, <1>8, <1>9

LEMMA CheckEffect ==
    ASSUME Base, OnceInv, NEW s \in Streams, Check(s)
    PROVE  /\ task[s] \in Held
           /\ task[s] \in Entries
           /\ Held' = Held \ {task[s]}
           /\ checked' = checked \cup {task[s]}
           /\ Queued' = Queued
<1>1. /\ task' = [task EXCEPT ![s] = NoTask]
      /\ checked' = checked \cup {task[s]}
      /\ taskQueue' = taskQueue
  BY DEF Check, streamVars
<1>2. task[s] # NoTask /\ task[s] \in Entries /\ DOMAIN task = Streams
  BY DEF Base, TypeOK, PlaceInv, Check
<1>3. task'[s] = NoTask /\ \A t \in Streams : t # s => task'[t] = task[t]
  BY <1>1, <1>2
<1>4. \A t \in Streams : t # s => task[t] # task[s]
  BY <1>2 DEF OnceInv
<1>5. ASSUME NEW f PROVE f \in Held' <=> f \in Held /\ f # task[s]
  <2>1. f \in Held' <=> \E t \in Streams : f = task'[t] /\ f # NoTask
    BY Zenon DEF Held
  <2>2. QED
    BY <1>2, <1>3, <1>4, <2>1, InHeld
<1>6. Queued' = Queued
  BY <1>1 DEF Queued
<1>7. QED
  BY <1>1, <1>2, <1>5, <1>6, InHeld

LEMMA OnceInit == Init => OnceInv
<1> SUFFICES ASSUME Init PROVE OnceInv
  OBVIOUS
<1>1. /\ \A s \in Streams : taskQueue[s] = <<>> /\ task[s] = NoTask
      /\ checked = {}
      /\ nextEntry = 1
  BY DEF Init
<1>2. Range(<<>>) = {} /\ NoRepeats(<<>>)
  BY RangeEmpty DEF NoRepeats
<1>3. Queued = {} /\ Held = {}
  BY <1>1, <1>2, Zenon DEF Queued, Held
<1>4. 1..(nextEntry - 1) = {}
  BY <1>1
<1>5. QED
  BY <1>1, <1>2, <1>3, <1>4 DEF OnceInv

LEMMA OnceStep == Base /\ WaitInv /\ OnceInv /\ [Next]_vars => OnceInv'
<1> SUFFICES ASSUME Base, WaitInv, OnceInv, [Next]_vars PROVE OnceInv'
  OBVIOUS
<1>0. /\ DOMAIN taskQueue = Streams
      /\ DOMAIN task = Streams
      /\ \A s \in Streams : taskQueue[s] \in Seq(Entries)
      /\ nextEntry \in Nat \ {0}
  BY NumEntriesAssumption DEF Base, TypeOK
<1>1. ASSUME UNCHANGED <<taskQueue, task, checked, nextEntry>> PROVE OnceInv'
  BY <1>1 DEF OnceInv, Queued, Held
<1>2. CASE AddTask
  <2>1. PICK q \in Streams : q = FrontStream
    BY <1>2, AddEffect
  <2>2. /\ taskQueue' = [taskQueue EXCEPT ![q] = Append(@, nextEntry)]
        /\ Range(taskQueue'[q]) = Range(taskQueue[q]) \cup {nextEntry}
        /\ nextEntry \in Entries
        /\ nextEntry \notin Queued \cup Held \cup checked
        /\ task' = task
        /\ checked' = checked
    BY <1>2, <2>1, AddEffect DEF AddTask, workerVars
  <2>3. \A s \in Streams : s # q => taskQueue'[s] = taskQueue[s]
    BY <1>0, <2>2
  <2>4. \A s \in Streams : /\ nextEntry \notin Range(taskQueue[s])
                           /\ nextEntry # task[s]
    BY <2>2, NoTaskType, InQueued, InHeld
  <2>5. NoRepeats(taskQueue'[q])
    <3>1. taskQueue'[q] = Append(taskQueue[q], nextEntry)
      BY <1>0, <2>2
    <3>2. QED
      BY <1>0, <2>4, <3>1, NoRepeatsAppend DEF OnceInv
  <2>6. (Queued \cup Held \cup checked)' = 1..(nextEntry' - 1)
    <3>1. (Queued \cup Held \cup checked)' =
            (Queued \cup Held \cup checked) \cup {nextEntry}
      BY <1>2, AddEffect
    <3>2. nextEntry' = nextEntry + 1
      BY <1>2, AddEffect
    <3>3. 1..(nextEntry' - 1) = 1..(nextEntry - 1) \cup {nextEntry}
      BY <1>0, <3>2
    <3>4. QED
      BY <3>1, <3>3 DEF OnceInv
  <2>7. \A s \in Streams : NoRepeats(taskQueue'[s])
    BY <2>3, <2>5 DEF OnceInv
  <2>8. /\ \A s, t \in Streams :
             s # t => Range(taskQueue'[s]) \cap Range(taskQueue'[t]) = {}
        /\ \A s, t \in Streams : task'[s] \notin Range(taskQueue'[t])
    <3>1. \A s \in Streams : Range(taskQueue'[s]) =
              Range(taskQueue[s]) \cup IF s = q THEN {nextEntry} ELSE {}
      BY <2>2, <2>3
    <3>2. \A s, t \in Streams :
              s # t => Range(taskQueue'[s]) \cap Range(taskQueue'[t]) = {}
      BY <2>4, <3>1 DEF OnceInv
    <3>3. \A s, t \in Streams : task'[s] \notin Range(taskQueue'[t])
      BY <2>2, <2>4, <3>1 DEF OnceInv
    <3>4. QED
      BY <3>2, <3>3
  <2>9. /\ \A s, t \in Streams :
             s # t /\ task'[s] # NoTask => task'[s] # task'[t]
        /\ \A s \in Streams : task'[s] \notin checked'
    BY <2>2 DEF OnceInv
  <2>10. \A s \in Streams : Range(taskQueue'[s]) \cap checked' = {}
    BY <2>2, <2>3 DEF OnceInv
  <2>11. QED
    BY <2>6, <2>7, <2>8, <2>9, <2>10, Zenon DEF OnceInv
<1>3. ASSUME NEW s \in Streams, wpc[s] \in {"fetch", "wait"}, TakeTask(s),
             UNCHANGED <<expectingMoreTasks, mainVars, checked, terminated>>
      PROVE  OnceInv'
  <2>1. CASE taskQueue[s] = <<>>
    BY <1>1, <1>3, <2>1 DEF TakeTask, mainVars
  <2>2. CASE taskQueue[s] # <<>>
    <3> DEFINE e == Head(taskQueue[s])
    <3>1. /\ taskQueue' = [taskQueue EXCEPT ![s] = Tail(@)]
          /\ Range(taskQueue'[s]) = Range(taskQueue[s]) \ {e}
          /\ e \in Range(taskQueue[s])
          /\ task' = [task EXCEPT ![s] = e]
          /\ Queued' \cup Held' = Queued \cup Held
          /\ checked' = checked
          /\ nextEntry' = nextEntry
      BY <1>3, <2>2, TakeEffect DEF mainVars
    <3>2. /\ \A t \in Streams : t # s => taskQueue'[t] = taskQueue[t]
          /\ \A t \in Streams : t # s => task'[t] = task[t]
          /\ task'[s] = e
      BY <1>0, <3>1
    <3>3. NoRepeats(taskQueue'[s])
      <4>1. taskQueue'[s] = Tail(taskQueue[s])
        BY <1>0, <3>1
      <4>2. QED
        BY <1>0, <2>2, <4>1, NoRepeatsTail DEF OnceInv
    <3> HIDE DEF e
    <3>4. \A t \in Streams : Range(taskQueue'[t]) \subseteq Range(taskQueue[t])
      BY <3>1, <3>2
    <3>5. \A t \in Streams : e \notin Range(taskQueue'[t])
      BY <3>1, <3>2 DEF OnceInv
    <3>6. /\ \A t \in Streams : NoRepeats(taskQueue'[t])
          /\ \A t, u \in Streams :
               t # u => Range(taskQueue'[t]) \cap Range(taskQueue'[u]) = {}
      BY <3>2, <3>3, <3>4 DEF OnceInv
    <3>7. \A t, u \in Streams : task'[t] \notin Range(taskQueue'[u])
      BY <3>2, <3>4, <3>5 DEF OnceInv
    <3>8. \A t, u \in Streams : t # u /\ task'[t] # NoTask => task'[t] # task'[u]
      BY <3>1, <3>2 DEF OnceInv
    <3>9. /\ \A t \in Streams : task'[t] \notin checked
          /\ \A t \in Streams : Range(taskQueue'[t]) \cap checked = {}
      BY <3>1, <3>2, <3>4 DEF OnceInv
    <3>10. (Queued \cup Held \cup checked)' = 1..(nextEntry' - 1)
      BY <3>1 DEF OnceInv
    <3>11. checked' = checked
      BY <3>1
    <3>12. QED
      BY <3>6, <3>7, <3>8, <3>9, <3>10, <3>11, Zenon DEF OnceInv
  <2>3. QED
    BY <2>1, <2>2
<1>4. ASSUME NEW s \in Streams, Check(s) PROVE OnceInv'
  <2>1. /\ task' = [task EXCEPT ![s] = NoTask]
        /\ taskQueue' = taskQueue
        /\ nextEntry' = nextEntry
        /\ checked' = checked \cup {task[s]}
        /\ task[s] # NoTask
    BY <1>4 DEF Check, streamVars, mainVars, Base, PlaceInv
  <2>2. task'[s] = NoTask /\ \A t \in Streams : t # s => task'[t] = task[t]
    BY <1>0, <2>1
  <2>3. \A t \in Streams : NoTask \notin Range(taskQueue[t])
    <3>1. \A t \in Streams : Range(taskQueue[t]) \subseteq Queued
      BY InQueued
    <3>2. NoTask \notin 1..(nextEntry - 1)
      BY DEF NoTask
    <3>3. QED
      BY <3>1, <3>2 DEF OnceInv
  <2>4. NoTask \notin checked
    BY NoTaskType DEF Base, TypeOK
  <2>5. (Queued \cup Held \cup checked)' = Queued \cup Held \cup checked
    BY <1>4, CheckEffect
  <2>6. \A t \in Streams : task'[t] \notin checked'
    BY <2>1, <2>2, <2>4 DEF OnceInv
  <2>7. \A t, u \in Streams :
            t # u /\ task'[t] # NoTask => task'[t] # task'[u]
    BY <2>2 DEF OnceInv
  <2>8. QED
    BY <2>1, <2>2, <2>3, <2>5, <2>6, <2>7 DEF OnceInv
<1>5. QED
  BY <1>1, <1>2, <1>3, <1>4
     DEF Next, Main, Worker, Environment, Finished, Dispatch, AddTaskWait,
         EndOfEntries, IterationThrows, NoMoreTasks, Join, GetNextTaskWait,
         GetNextTask, GetNextTaskResume, CheckThrows, SpuriousWakeup,
         streamVars, workerVars, mainVars, vars

-----------------------------------------------------------------------------
(* Which streams are given the entries of a cluster. The entries that the  *)
(* rotation leaves behind have clusters that are not to come again.        *)

ApartInv ==
    \A s, t \in Streams : s # t =>
        \A e \in InStream(s), f \in InStream(t) : ClusterOf[e] # ClusterOf[f]

AffinityInv ==
    /\ ApartInv
    /\ mpc \in {"iterate", "add"} =>
         \A s \in Streams : s # FrontStream =>
             \A e \in InStream(s) : ClusterOf[e] # currentCluster
    /\ mpc = "add" => currentCluster = ClusterOf[nextEntry]
    /\ mpc = "iterate" => currentCluster = IF nextEntry = 1 THEN NoCluster
                                           ELSE ClusterOf[nextEntry - 1]

LEMMA InStreamEarlier ==
    ASSUME OnceInv, NEW s \in Streams, NEW e \in InStream(s)
    PROVE  e \in 1..(nextEntry - 1)
<1>1. e \in Queued \/ e \in Held
  BY InQueued, InHeld DEF InStream
<1> QED  BY <1>1 DEF OnceInv

\* A cluster other than that of the entry before is one of no entry so far.
LEMMA NewCluster ==
    ASSUME ClusterOrder, NEW n \in Entries, n > 1,
           ClusterOf[n - 1] # ClusterOf[n], NEW e \in 1..(n - 1)
    PROVE  ClusterOf[e] # ClusterOf[n]
<1>1. CASE e = n - 1
  BY <1>1
<1>2. CASE e # n - 1
  <2>1. e \in Entries /\ n - 1 \in Entries /\ e < n - 1 /\ n - 1 < n
    BY <1>2, NumEntriesAssumption DEF Entries
  <2>2. ClusterOf[e] = ClusterOf[n] => ClusterOf[n - 1] = ClusterOf[e]
    BY <2>1 DEF ClusterOrder
  <2> QED  BY <2>2
<1> QED  BY <1>1, <1>2

\* A step after which no stream has an entry it did not have.
LEMMA NothingAdded ==
    ASSUME AffinityInv, \A s \in Streams : InStream(s)' \subseteq InStream(s),
           \/ UNCHANGED <<mpc, taskStreams, currentCluster, nextEntry>>
           \/ mpc' \notin {"iterate", "add"}
    PROVE  AffinityInv'
<1>1. ApartInv'
  BY Zenon DEF AffinityInv, ApartInv
<1>2. CASE UNCHANGED <<mpc, taskStreams, currentCluster, nextEntry>>
  BY <1>1, <1>2 DEF AffinityInv, FrontStream
<1>3. CASE mpc' \notin {"iterate", "add"}
  BY <1>1, <1>3 DEF AffinityInv
<1> QED  BY <1>2, <1>3

LEMMA AffinityInit == Init => AffinityInv
<1> SUFFICES ASSUME Init PROVE AffinityInv
  OBVIOUS
<1>1. \A s \in Streams : InStream(s) = {}
  BY RangeEmpty DEF Init, InStream
<1> QED  BY <1>1 DEF Init, AffinityInv, ApartInv

LEMMA AffinityStep ==
    ASSUME ClusterOrder
    PROVE  Base /\ WaitInv /\ OnceInv /\ AffinityInv /\ [Next]_vars => AffinityInv'
<1> SUFFICES ASSUME Base, WaitInv, OnceInv, AffinityInv, [Next]_vars
             PROVE  AffinityInv'
  OBVIOUS
<1>0. /\ task \in [Streams -> Entries \cup {NoTask}] /\ DOMAIN taskQueue = Streams
      /\ nextEntry \in Nat
  BY DEF Base, TypeOK
<1>1. CASE Dispatch
  <2>1. /\ \A s \in Streams : InStream(s)' = InStream(s)
        /\ nextEntry \in Entries /\ nextEntry' = nextEntry
        /\ mpc = "iterate" /\ mpc' = "add"
    BY <1>1, <1>0 DEF Dispatch, streamVars, workerVars, InStream, Entries, Base, TypeOK
  <2>2. ApartInv'
    BY <2>1 DEF AffinityInv, ApartInv
  <2>3. currentCluster' = ClusterOf[nextEntry]
    BY <1>1 DEF Dispatch
  <2>4. CASE currentCluster = ClusterOf[nextEntry]
    <3>1. FrontStream' = FrontStream
      BY <1>1, <2>4 DEF Dispatch, FrontStream
    <3> QED  BY <2>1, <2>2, <2>3, <2>4, <3>1 DEF AffinityInv
  <2>5. CASE currentCluster # ClusterOf[nextEntry]
    <3>1. \A s \in Streams : \A e \in InStream(s) : ClusterOf[e] # ClusterOf[nextEntry]
      <4> SUFFICES ASSUME NEW s \in Streams, NEW e \in InStream(s)
                   PROVE  ClusterOf[e] # ClusterOf[nextEntry]
        OBVIOUS
      <4>1. e \in 1..(nextEntry - 1)
        BY InStreamEarlier
      <4>2. nextEntry > 1
        BY <1>0, <4>1
      <4>3. ClusterOf[nextEntry - 1] # ClusterOf[nextEntry]
        BY <1>0, <2>1, <2>5, <4>2 DEF AffinityInv
      <4> QED  BY <2>1, <4>1, <4>2, <4>3, NewCluster
    <3> QED  BY <2>1, <2>2, <2>3, <3>1 DEF AffinityInv
  <2> QED  BY <2>4, <2>5
<1>2. CASE AddTask
  <2>1. /\ FrontStream \in Streams /\ FrontStream' = FrontStream
        /\ currentCluster' = currentCluster
        /\ mpc = "add" /\ mpc' = "iterate" /\ nextEntry' = nextEntry + 1
        /\ currentCluster = ClusterOf[nextEntry]
    BY <1>2, AddEffect DEF AddTask, FrontStream, AffinityInv
  <2>2. /\ InStream(FrontStream)' = InStream(FrontStream) \cup {nextEntry}
        /\ \A s \in Streams : s # FrontStream => InStream(s)' = InStream(s)
    <3>1. task' = task
      BY <1>2 DEF AddTask, workerVars
    <3>2. \A s \in Streams : s # FrontStream => taskQueue'[s] = taskQueue[s]
      BY <1>0, <1>2, AddEffect
    <3>3. Range(taskQueue'[FrontStream]) = Range(taskQueue[FrontStream]) \cup {nextEntry}
      BY <1>2, AddEffect
    <3> QED  BY <2>1, <3>1, <3>2, <3>3 DEF InStream
  <2>3. \A s \in Streams : s # FrontStream =>
            \A e \in InStream(s) : ClusterOf[e] # ClusterOf[nextEntry]
    BY <2>1 DEF AffinityInv
  <2>4. ApartInv'
    BY <2>1, <2>2, <2>3 DEF AffinityInv, ApartInv
  <2>5. currentCluster' = IF nextEntry' = 1 THEN NoCluster ELSE ClusterOf[nextEntry' - 1]
    <3>1. nextEntry' # 1 /\ nextEntry' - 1 = nextEntry
      BY <1>0, <1>2, <2>1 DEF Base, TypeOK
    <3> QED  BY <2>1, <3>1
  <2> QED  BY <2>1, <2>2, <2>3, <2>4, <2>5 DEF AffinityInv
<1>3. ASSUME NEW s \in Streams, wpc[s] \in {"fetch", "wait"}, TakeTask(s),
             UNCHANGED <<expectingMoreTasks, mainVars, checked, terminated>>
      PROVE  AffinityInv'
  <2>1. CASE taskQueue[s] # <<>>
    <3>1. /\ Range(taskQueue'[s]) \subseteq Range(taskQueue[s])
          /\ task'[s] \in Range(taskQueue[s])
      BY <1>0, <1>3, <2>1, TakeEffect
    <3>2. \A t \in Streams : t # s => taskQueue'[t] = taskQueue[t] /\ task'[t] = task[t]
      BY <1>0, <1>3, <2>1, TakeEffect
    <3>3. \A t \in Streams : InStream(t)' \subseteq InStream(t)
      BY <3>1, <3>2 DEF InStream
    <3> QED  BY <1>3, <3>3, NothingAdded DEF mainVars
  <2>2. CASE taskQueue[s] = <<>>
    BY <1>3, <2>2, NothingAdded DEF TakeTask, mainVars, InStream
  <2> QED  BY <2>1, <2>2
<1>4. ASSUME NEW s \in Streams, Check(s) PROVE AffinityInv'
  <2>1. \A t \in Streams : InStream(t)' \subseteq InStream(t)
    BY <1>0, <1>4 DEF Check, streamVars, InStream
  <2> QED  BY <1>4, <2>1, NothingAdded DEF Check, mainVars
<1>5. ASSUME UNCHANGED <<taskQueue, task>>,
             \/ UNCHANGED <<mpc, taskStreams, currentCluster, nextEntry>>
             \/ mpc' \notin {"iterate", "add"}
      PROVE  AffinityInv'
  BY <1>5, NothingAdded DEF InStream
<1>6. CASE AddTaskWait \/ EndOfEntries \/ IterationThrows \/ NoMoreTasks \/ Join
  BY <1>5, <1>6 DEF AddTaskWait, EndOfEntries, IterationThrows, NoMoreTasks, Join,
                    streamVars, workerVars, mainVars
<1>7. CASE UNCHANGED vars
  BY <1>5, <1>7 DEF vars
<1> QED
  BY <1>1, <1>2, <1>3, <1>4, <1>5, <1>6, <1>7
     DEF Next, Main, Worker, Environment, Finished, GetNextTaskWait, GetNextTask,
         GetNextTaskResume, CheckThrows, SpuriousWakeup, streamVars, workerVars,
         mainVars

\* The rotation of the streams in TaskDispatcher::addTask() does what it is for:
\* as long as the archive is iterated in cluster order, no two threads have
\* entries of one cluster, with any number of threads and any queue bound, and
\* whatever wakes up spuriously.
THEOREM OneThreadPerCluster == Spec => []ClusterAffinity
<1>1. CASE ClusterOrder
  <2>1. Init => Base /\ WaitInv /\ OnceInv /\ AffinityInv
    BY BaseInit, WaitInit, OnceInit, AffinityInit
  <2>2. Base /\ WaitInv /\ OnceInv /\ AffinityInv /\ [Next]_vars
            => (Base /\ WaitInv /\ OnceInv /\ AffinityInv)'
    BY <1>1, BaseStep, WaitStep, OnceStep, AffinityStep
  <2>3. AffinityInv => ClusterAffinity
    BY DEF AffinityInv, ApartInv, ClusterAffinity
  <2> QED  BY <2>1, <2>2, <2>3, PTL DEF Spec
<1>2. CASE ~ClusterOrder
  <2>1. ClusterAffinity
    BY <1>2 DEF ClusterAffinity
  <2> QED  BY <2>1, PTL
<1> QED  BY <1>1, <1>2

-----------------------------------------------------------------------------
(* When worker threads exit. This is where the `if` around the wait of     *)
(* getNextTask() matters: a woken worker finds what it was woken for only  *)
(* if nothing but a notification wakes it.                                 *)

ExitOK(s) ==
    /\ wpc[s] = "wait" /\ "worker" \notin waiters[s] => ~OutIsBlocked(s)
    /\ wpc[s] = "exited" => taskQueue[s] = <<>> /\ ~expectingMoreTasks[s]
    /\ s \in Range(taskStreams) \/ wpc[s] = "exited"

LoopEndInv ==
    mpc \in {"close", "join", "done"} /\ ~iterationFailed
        => nextEntry = NumEntries + 1

ExitInv == LoopEndInv /\ \A s \in Streams : ExitOK(s)

LEMMA ExitInit == Init => ExitInv
<1> SUFFICES ASSUME Init PROVE ExitInv
  OBVIOUS
<1>1. LoopEndInv
  BY DEF Init, LoopEndInv
<1>2. \A s \in Streams : s \in Range(taskStreams)
  BY Zenon DEF Init, Range
<1>3. QED
  BY <1>1, <1>2 DEF Init, ExitInv, ExitOK

LEMMA LoopEndStep == Base /\ LoopEndInv /\ [Next]_vars => LoopEndInv'
  BY NumEntriesAssumption
     DEF Base, TypeOK, LoopEndInv, Next, Main, Worker, Environment, Finished,
         Dispatch, AddTaskWait, AddTask, EndOfEntries, IterationThrows,
         NoMoreTasks, Join, GetNextTaskWait, GetNextTask, GetNextTaskResume,
         Check, CheckThrows, SpuriousWakeup, mainVars, vars

LEMMA ExitStep ==
    ASSUME "worker" \notin SpuriousSides
    PROVE  Base /\ WaitInv /\ ExitInv /\ [Next]_vars => ExitInv'
<1> SUFFICES ASSUME Base, WaitInv, ExitInv, [Next]_vars, NEW r \in Streams
             PROVE  ExitOK(r)'
  BY LoopEndStep DEF ExitInv
<1> USE DEF streamVars, workerVars, mainVars
<1>0. /\ ExitOK(r)
      /\ waiters \in [Streams -> SUBSET Sides]
      /\ taskQueue \in [Streams -> Seq(Entries)]
      /\ wpc \in [Streams -> {"fetch", "wait", "check", "exited"}]
      /\ expectingMoreTasks \in [Streams -> BOOLEAN]
      /\ taskStreams \in Seq(Streams)
  BY DEF ExitInv, Base, TypeOK
<1>1. CASE Dispatch
  <2>1. taskStreams # <<>>
    BY <1>1 DEF Dispatch, Base, PlaceInv
  <2>2. Range(Rotated) = Range(taskStreams)
    BY <1>0, <2>1, RotatedType DEF Rotated
  <2>3. Range(taskStreams') = Range(taskStreams)
    BY <1>1, <2>2 DEF Dispatch
  <2>4. QED
    BY <1>0, <1>1, <2>3 DEF Dispatch, ExitOK, OutIsBlocked
<1>2. CASE AddTaskWait
  BY <1>0, <1>2 DEF AddTaskWait, WaitOn, ExitOK, OutIsBlocked
<1>3. CASE AddTask
  <2>1. FrontStream \in Streams
    BY <1>3, FrontType DEF AddTask, Base, PlaceInv
  <2>2. /\ waiters' = [waiters EXCEPT ![FrontStream] = {}]
        /\ taskQueue' =
             [taskQueue EXCEPT ![FrontStream] = Append(@, nextEntry)]
    BY <1>3, <2>1, NotifyReleases DEF AddTask
  <2>3. taskQueue'[FrontStream] # <<>>
    <3>1. taskQueue'[FrontStream] = Append(taskQueue[FrontStream], nextEntry)
      BY <1>0, <2>1, <2>2
    <3>2. nextEntry \in Range(taskQueue'[FrontStream])
      BY <1>0, <2>1, <3>1, RangeAppend
    <3>3. QED
      BY <3>2, RangeEmpty, Zenon
  <2>4. \A s \in Streams : expectingMoreTasks[s] /\ wpc[s] # "exited"
    BY <1>3 DEF AddTask, Base, PlaceInv, ExitInv, ExitOK
  <2>5. QED
    BY <1>0, <1>3, <2>1, <2>2, <2>3, <2>4 DEF AddTask, ExitOK, OutIsBlocked
<1>4. CASE EndOfEntries
  BY <1>0, <1>4 DEF EndOfEntries, ExitOK, OutIsBlocked
<1>5. CASE IterationThrows
  BY <1>0, <1>5 DEF IterationThrows, ExitOK, OutIsBlocked
<1>6. CASE NoMoreTasks
  <2>1. FrontStream \in Streams
    BY <1>6, FrontType DEF NoMoreTasks
  <2>2. waiters' = [waiters EXCEPT ![FrontStream] = {}]
    BY <1>6, <2>1, NotifyReleases DEF NoMoreTasks
  <2>3. QED
    BY <1>0, <1>6, <2>1, <2>2 DEF NoMoreTasks, ExitOK, OutIsBlocked
<1>7. CASE Join
  <2>1. taskStreams # <<>>
    BY <1>7 DEF Join, Base, PlaceInv
  <2>2. Range(taskStreams) = {FrontStream} \cup Range(Tail(taskStreams))
    BY <1>0, <2>1, RangeTail DEF FrontStream
  <2>3. QED
    BY <1>0, <1>7, <2>2 DEF Join, ExitOK, OutIsBlocked
<1>8. ASSUME NEW s \in Streams, TakeTask(s), wpc[s] \in {"fetch", "wait"},
             "worker" \notin waiters[s], ~OutIsBlocked(s),
             UNCHANGED <<expectingMoreTasks, mainVars, checked, terminated>>
      PROVE  ExitOK(r)'
  <2>1. CASE taskQueue[s] # <<>>
    <3>1. waiters' = [waiters EXCEPT ![s] = {}]
      BY <1>8, <2>1, NotifyReleases DEF TakeTask
    <3>2. QED
      BY <1>0, <1>8, <2>1, <3>1 DEF TakeTask, ExitOK, OutIsBlocked
  <2>2. CASE taskQueue[s] = <<>>
    BY <1>0, <1>8, <2>2 DEF TakeTask, ExitOK, OutIsBlocked
  <2>3. QED
    BY <2>1, <2>2
<1>9. ASSUME NEW s \in Streams, GetNextTaskWait(s) PROVE ExitOK(r)'
  BY <1>0, <1>9 DEF GetNextTaskWait, WaitOn, ExitOK, OutIsBlocked
<1>10. ASSUME NEW s \in Streams, GetNextTask(s) PROVE ExitOK(r)'
  <2>1. "worker" \notin waiters[s]
    BY <1>10 DEF GetNextTask, WaitInv, WaitOK
  <2>2. QED
    BY <1>8, <1>10, <2>1 DEF GetNextTask
<1>11. ASSUME NEW s \in Streams, GetNextTaskResume(s) PROVE ExitOK(r)'
  <2>1. ~OutIsBlocked(s)
    BY <1>11 DEF GetNextTaskResume, ExitInv, ExitOK
  <2>2. QED
    BY <1>8, <1>11, <2>1 DEF GetNextTaskResume
<1>12. ASSUME NEW s \in Streams, Check(s) PROVE ExitOK(r)'
  BY <1>0, <1>12 DEF Check, ExitOK, OutIsBlocked
<1>13. ASSUME NEW s \in Streams, CheckThrows(s) PROVE ExitOK(r)'
  BY <1>0, <1>13 DEF CheckThrows, ExitOK, OutIsBlocked
<1>14. ASSUME NEW s \in Streams, NEW side \in Sides, SpuriousWakeup(s, side)
       PROVE  ExitOK(r)'
  <2>1. side # "worker"
    BY <1>14 DEF SpuriousWakeup
  <2>2. QED
    BY <1>0, <1>14, <2>1 DEF SpuriousWakeup, ExitOK, OutIsBlocked
<1>15. CASE UNCHANGED vars
  BY <1>0, <1>15 DEF vars, ExitOK, OutIsBlocked
<1>16. QED
  BY <1>1, <1>2, <1>3, <1>4, <1>5, <1>6, <1>7, <1>9, <1>10, <1>11, <1>12,
     <1>13, <1>14, <1>15
     DEF Next, Main, Worker, Environment, Finished

DispatcherInv == Base /\ WaitInv /\ OnceInv /\ ExitInv

LEMMA DispatcherInvariant ==
    ASSUME "worker" \notin SpuriousSides
    PROVE  Spec => []DispatcherInv
<1>1. Init => DispatcherInv
  BY BaseInit, WaitInit, OnceInit, ExitInit DEF DispatcherInv
<1>2. DispatcherInv /\ [Next]_vars => DispatcherInv'
  BY BaseStep, WaitStep, OnceStep, ExitStep DEF DispatcherInv
<1>3. QED
  BY <1>1, <1>2, PTL DEF Spec

\* Once every stream has been joined no entry is queued or held.
LEMMA JoinedMeansIdle ==
    ASSUME DispatcherInv, taskStreams = <<>>
    PROVE  /\ \A s \in Streams : wpc[s] = "exited"
           /\ Queued = {}
           /\ Held = {}
           /\ checked = 1..(nextEntry - 1)
<1>1. \A s \in Streams : /\ wpc[s] = "exited"
                         /\ taskQueue[s] = <<>>
                         /\ task[s] = NoTask
  BY RangeEmpty DEF DispatcherInv, ExitInv, ExitOK, Base, PlaceInv
<1>2. Queued = {}
  BY <1>1, RangeEmpty, Zenon DEF Queued
<1>3. Held = {}
  BY <1>1, Zenon DEF Held
<1>4. QED
  BY <1>1, <1>2, <1>3 DEF DispatcherInv, OnceInv

\* finish() keeps its promise, "Wait for all tasks to complete and terminate
\* the worker threads", if no worker ever wakes up spuriously.
THEOREM FinishWaits ==
    ASSUME "worker" \notin SpuriousSides
    PROVE  Spec => []AllTasksComplete
<1>1. DispatcherInv => AllTasksComplete
  <2>1. DispatcherInv /\ mpc = "done" => taskStreams = <<>>
    BY DEF DispatcherInv, Base, PlaceInv
  <2>2. QED
    BY <2>1, JoinedMeansIdle, Zenon DEF AllTasksComplete
<1>2. QED
  BY <1>1, DispatcherInvariant, PTL

-----------------------------------------------------------------------------
(* The dispatcher implements TaskDelivery, step by step. *)

LEMMA DeliveryInit == Init => Delivery!Init
<1> SUFFICES ASSUME Init PROVE Delivery!Init
  OBVIOUS
<1>1. \A s \in Streams : taskQueue[s] = <<>> /\ task[s] = NoTask
  BY DEF Init
<1>2. Queued = {} /\ Held = {}
  BY <1>1, RangeEmpty, Zenon DEF Queued, Held
<1>3. checked = {} /\ Outcome = "open"
  BY DEF Init, Outcome
<1>4. QED
  BY <1>2, <1>3 DEF Delivery!Init

LEMMA DeliveryStep ==
    DispatcherInv /\ [Next]_vars => [Delivery!Next]_(Delivery!vars)
<1> SUFFICES ASSUME DispatcherInv, [Next]_vars
             PROVE  [Delivery!Next]_(Delivery!vars)
  OBVIOUS
<1>0. Base /\ WaitInv /\ OnceInv /\ ExitInv
  BY DEF DispatcherInv
<1>1. ASSUME UNCHANGED <<taskQueue, task, checked, terminated, iterationFailed>>,
             (mpc # "done" /\ mpc' # "done") \/ mpc' = mpc
      PROVE  UNCHANGED Delivery!vars
  BY <1>1 DEF Delivery!vars, Queued, Held, Outcome
<1>2. CASE AddTask /\ ~terminated
  <2>1. /\ Outcome = "open"
        /\ Outcome' = "open"
    BY <1>2 DEF AddTask, Outcome
  <2>2. Delivery!HandOver(nextEntry) /\ nextEntry \in Entries
    BY <1>0, <1>2, <2>1, AddEffect DEF Delivery!HandOver, Delivery!Handed
  <2>3. QED
    BY <2>1, <2>2 DEF Delivery!Next
<1>3. CASE IterationThrows
  <2>1. UNCHANGED <<Queued, Held, checked, Outcome>>
    BY <1>3 DEF IterationThrows, streamVars, workerVars, Queued, Held, Outcome
  <2>2. QED
    BY <2>1 DEF Delivery!vars
<1>4. CASE Join /\ ~terminated
  <2>1. CASE mpc' = "done"
    <3>1. UNCHANGED <<Queued, Held, checked>> /\ Outcome = "open"
      BY <1>4 DEF Join, streamVars, workerVars, Queued, Held, Outcome
    <3>2. DispatcherInv' => taskStreams' = <<>>
      BY <2>1 DEF DispatcherInv, Base, PlaceInv
    <3>3. Queued = {} /\ Held = {}
      <4>1. taskStreams' = <<>> /\ \A s \in Streams : s \in Range(taskStreams) =>
                                        s = FrontStream
        <5>1. taskStreams \in Seq(Streams) /\ taskStreams # <<>>
          BY <1>0, <1>4 DEF Join, Base, TypeOK, PlaceInv
        <5>2. Tail(taskStreams) = <<>>
          BY <1>4, <2>1 DEF Join
        <5>3. Range(taskStreams) = {FrontStream} \cup Range(Tail(taskStreams))
          BY <5>1, RangeTail DEF FrontStream
        <5>4. QED
          BY <1>4, <5>2, <5>3, RangeEmpty DEF Join
      <4>2. \A s \in Streams : wpc[s] = "exited"
        BY <1>0, <1>4, <4>1 DEF Join, ExitInv, ExitOK
      <4>3. \A s \in Streams : taskQueue[s] = <<>> /\ task[s] = NoTask
        BY <1>0, <4>2 DEF ExitInv, ExitOK, Base, PlaceInv
      <4>4. QED
        BY <4>3, RangeEmpty, Zenon DEF Queued, Held
    <3>4. CASE iterationFailed
      <4>1. Outcome' = "interrupted"
        BY <1>4, <2>1, <3>4 DEF Join, Outcome
      <4>2. QED
        BY <3>1, <3>3, <4>1 DEF Delivery!Next, Delivery!Interrupt
    <3>5. CASE ~iterationFailed
      <4>1. Outcome' = "complete"
        BY <1>4, <2>1, <3>5 DEF Join, Outcome
      <4>2. checked = Entries
        <5>1. nextEntry = NumEntries + 1
          BY <1>0, <1>4, <3>5 DEF Join, ExitInv, LoopEndInv
        <5>2. checked = 1..(nextEntry - 1)
          BY <1>0, <3>3 DEF OnceInv
        <5>3. QED
          BY <5>1, <5>2, NumEntriesAssumption DEF Entries
      <4>3. QED
        BY <3>1, <4>1, <4>2 DEF Delivery!Next, Delivery!Complete
    <3>6. QED
      BY <3>4, <3>5
  <2>2. CASE mpc' # "done"
    BY <1>1, <1>4, <2>2 DEF Join, streamVars, workerVars
  <2>3. QED
    BY <2>1, <2>2
<1>5. ASSUME NEW s \in Streams, wpc[s] \in {"fetch", "wait"}, TakeTask(s),
             ~terminated,
             UNCHANGED <<expectingMoreTasks, mainVars, checked, terminated>>
      PROVE  [Delivery!Next]_(Delivery!vars)
  <2>1. CASE taskQueue[s] = <<>>
    BY <1>1, <1>5, <2>1 DEF TakeTask, mainVars
  <2>2. CASE taskQueue[s] # <<>>
    <3> DEFINE e == Head(taskQueue[s])
    <3>1. mpc # "done"
      BY <1>0, <1>5, JoinedMeansIdle DEF DispatcherInv, Base, PlaceInv
    <3>2. Outcome = "open" /\ Outcome' = "open"
      BY <1>5, <3>1 DEF Outcome, mainVars
    <3>3. /\ e \in Entries
          /\ e \in Queued
          /\ Queued' = Queued \ {e}
          /\ Held' = Held \cup {e}
          /\ checked' = checked
      BY <1>0, <1>5, <2>2, TakeEffect
    <3>4. Delivery!Begin(e)
      BY <3>2, <3>3 DEF Delivery!Begin
    <3>5. QED
      BY <3>2, <3>3, <3>4 DEF Delivery!Next
  <2>3. QED
    BY <2>1, <2>2
<1>6. ASSUME NEW s \in Streams, Check(s), ~terminated
      PROVE  [Delivery!Next]_(Delivery!vars)
  <2>1. mpc # "done"
    BY <1>0, <1>6, JoinedMeansIdle DEF Check, DispatcherInv, Base, PlaceInv
  <2>2. Outcome = "open" /\ Outcome' = "open"
    BY <1>6, <2>1 DEF Check, Outcome, mainVars
  <2>3. Delivery!End(task[s]) /\ task[s] \in Entries
    BY <1>0, <1>6, <2>2, CheckEffect DEF Delivery!End
  <2>4. QED
    BY <2>2, <2>3 DEF Delivery!Next
<1>7. ASSUME NEW s \in Streams, CheckThrows(s), ~terminated
      PROVE  [Delivery!Next]_(Delivery!vars)
  <2>1. mpc # "done"
    BY <1>0, <1>7, JoinedMeansIdle DEF CheckThrows, DispatcherInv, Base, PlaceInv
  <2>2. /\ Outcome = "open"
        /\ Outcome' = "terminated"
        /\ UNCHANGED <<Queued, Held, checked>>
    BY <1>7, <2>1
       DEF CheckThrows, Outcome, streamVars, workerVars, Queued, Held
  <2>3. Held # {}
    <3>1. task[s] # NoTask
      BY <1>0, <1>7 DEF CheckThrows, Base, PlaceInv
    <3>2. QED
      BY <3>1, InHeld
  <2>4. QED
    BY <2>2, <2>3 DEF Delivery!Next, Delivery!Terminate
<1>8. QED
  BY <1>1, <1>2, <1>3, <1>4, <1>5, <1>6, <1>7
     DEF Next, Main, Worker, Environment, Finished, Dispatch, AddTaskWait,
         EndOfEntries, NoMoreTasks, GetNextTaskWait, GetNextTask,
         GetNextTaskResume, SpuriousWakeup, streamVars, workerVars, mainVars,
         vars

\* Every entry handed over is checked by exactly one worker, once, and
\* test_articles() goes on only when no check is left to be done.
THEOREM Refinement ==
    ASSUME "worker" \notin SpuriousSides
    PROVE  Spec => ImplementsDelivery
<1>1. Spec => []DispatcherInv
  BY DispatcherInvariant
<1>2. QED
  BY <1>1, DeliveryInit, DeliveryStep, PTL
     DEF Spec, ImplementsDelivery, Delivery!Spec

=============================================================================
