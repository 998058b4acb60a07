--------------------------- MODULE TaskDispatcher ---------------------------
(***************************************************************************)
(* TaskStream and TaskDispatcher of src/zimcheck/checks.cpp, driven by the *)
(* loop of test_articles(): the main thread iterates over the entries of   *)
(* the archive in cluster order and appends each to the bounded queue of   *)
(* one of NumStreams streams; the worker thread of each stream takes       *)
(* entries from its queue and checks them.                                 *)
(*                                                                         *)
(* Every interval during which a stream's mutex is held is one action. A   *)
(* thread that calls cv.wait() is in the wait set `waiters` of its stream  *)
(* until a notify_one() (or a spurious wakeup) removes it from there.      *)
(***************************************************************************)
EXTENDS Integers, Sequences, Functions

CONSTANTS
    NumEntries,     \* entries are 1..NumEntries, in the order of iteration
    ClusterOf,      \* the cluster of each entry (0 for a redirect)
    NumStreams,     \* the thread count given to zimcheck --threads
    MAX_SIZE,       \* TaskStream::MAX_SIZE
    Throwing,       \* entries whose check may throw
    SpuriousSides   \* which of "main", "worker" may wake up spuriously

Entries == 1..NumEntries
Streams == 1..NumStreams
Sides == {"main", "worker"}

ASSUME NumEntriesAssumption == NumEntries \in Nat
ASSUME ClusterOfAssumption == ClusterOf \in [Entries -> Nat]
\* With --threads 0 the list of streams is empty and addTask() is undefined.
ASSUME NumStreamsAssumption == NumStreams \in Nat \ {0}
ASSUME MaxSizeAssumption == MAX_SIZE \in Nat \ {0}
ASSUME ThrowingAssumption == Throwing \subseteq Entries
ASSUME SpuriousAssumption == SpuriousSides \subseteq Sides

NoCluster == -1     \* currentCluster(-1): no archive has that many clusters
NoTask == 0         \* an empty Task pointer

VARIABLES
    \* the streams
    taskQueue, expectingMoreTasks, waiters,
    \* the worker threads: where each is and the entry it has taken
    wpc, task,
    \* the main thread
    mpc, nextEntry, taskStreams, currentCluster, iterationFailed,
    \* ghost: entries whose check has returned; state of the process
    checked, terminated

streamVars == <<taskQueue, expectingMoreTasks, waiters>>
workerVars == <<wpc, task>>
mainVars == <<mpc, nextEntry, taskStreams, currentCluster, iterationFailed>>
vars == <<taskQueue, expectingMoreTasks, waiters, wpc, task, mpc, nextEntry,
          taskStreams, currentCluster, iterationFailed, checked, terminated>>

TypeOK ==
    /\ taskQueue \in [Streams -> Seq(Entries)]
    /\ expectingMoreTasks \in [Streams -> BOOLEAN]
    /\ waiters \in [Streams -> SUBSET Sides]
    /\ wpc \in [Streams -> {"fetch", "wait", "check", "exited"}]
    /\ task \in [Streams -> Entries \cup {NoTask}]
    /\ mpc \in {"iterate", "add", "close", "join", "done"}
    /\ nextEntry \in 1..(NumEntries + 1)
    /\ taskStreams \in Seq(Streams)
    /\ currentCluster \in Nat \cup {NoCluster}
    /\ iterationFailed \in BOOLEAN
    /\ checked \in SUBSET Entries
    /\ terminated \in BOOLEAN

\* Mutant of Init: the iteration starts one before the first entry.
InitBeforeFirst ==
    /\ taskQueue = [s \in Streams |-> <<>>]
    /\ expectingMoreTasks = [s \in Streams |-> TRUE]
    /\ waiters = [s \in Streams |-> {}]
    /\ wpc = [s \in Streams |-> "fetch"]
    /\ task = [s \in Streams |-> NoTask]
    /\ mpc = "iterate"
    /\ nextEntry = 0
    /\ taskStreams = [s \in Streams |-> s]
    /\ currentCluster = NoCluster
    /\ iterationFailed = FALSE
    /\ checked = {}
    /\ terminated = FALSE

Init ==
    /\ taskQueue = [s \in Streams |-> <<>>]
    /\ expectingMoreTasks = [s \in Streams |-> TRUE]
    /\ waiters = [s \in Streams |-> {}]
    /\ wpc = [s \in Streams |-> "fetch"]
    /\ task = [s \in Streams |-> NoTask]
    /\ mpc = "iterate"
    /\ nextEntry = 1
    /\ taskStreams = [s \in Streams |-> s]
    /\ currentCluster = NoCluster
    /\ iterationFailed = FALSE
    /\ checked = {}
    /\ terminated = FALSE

-----------------------------------------------------------------------------
(* The two ends of a stream's queue. *)

InIsBlocked(s) == Len(taskQueue[s]) >= MAX_SIZE

OutIsBlocked(s) == expectingMoreTasks[s] /\ taskQueue[s] = <<>>

WaitOn(s, side) == waiters' = [waiters EXCEPT ![s] = @ \cup {side}]

\* cv.notify_one(): one of the waiting threads, if there is any, is released.
NotifyOne(s) ==
    IF waiters[s] = {}
      THEN UNCHANGED waiters
      ELSE \E side \in waiters[s] : waiters' = [waiters EXCEPT ![s] = @ \ {side}]

-----------------------------------------------------------------------------
(* The main thread. *)

FrontStream == Head(taskStreams)

Rotated == Append(Tail(taskStreams), Head(taskStreams))

\* Mutant of Dispatch: currentCluster is not updated.
DispatchForgetsCluster ==
    /\ mpc = "iterate"
    /\ nextEntry <= NumEntries
    /\ mpc' = "add"
    /\ taskStreams' = IF currentCluster # ClusterOf[nextEntry] THEN Rotated ELSE taskStreams
    /\ UNCHANGED <<streamVars, workerVars, nextEntry, currentCluster,
                   iterationFailed, checked, terminated>>

\* The loop of test_articles() yields an entry and TaskDispatcher::addTask()
\* chooses its stream: the next one in the rotation for a new cluster.
Dispatch ==
    /\ mpc = "iterate"
    /\ nextEntry <= NumEntries
    /\ mpc' = "add"
    /\ IF currentCluster # ClusterOf[nextEntry]
         THEN /\ taskStreams' = Rotated
              /\ currentCluster' = ClusterOf[nextEntry]
         ELSE UNCHANGED <<taskStreams, currentCluster>>
    /\ UNCHANGED <<streamVars, workerVars, nextEntry, iterationFailed,
                   checked, terminated>>

\* TaskStream::addTask(): block while the queue is full.
AddTaskWait ==
    /\ mpc = "add"
    /\ "main" \notin waiters[FrontStream]
    /\ InIsBlocked(FrontStream)
    /\ WaitOn(FrontStream, "main")
    /\ UNCHANGED <<taskQueue, expectingMoreTasks, workerVars, mainVars,
                   checked, terminated>>

\* TaskStream::addTask(): push the entry and unblockOut().
AddTask ==
    /\ mpc = "add"
    /\ "main" \notin waiters[FrontStream]
    /\ ~InIsBlocked(FrontStream)
    /\ taskQueue' = [taskQueue EXCEPT ![FrontStream] = Append(@, nextEntry)]
    /\ NotifyOne(FrontStream)
    /\ mpc' = "iterate"
    /\ nextEntry' = nextEntry + 1
    /\ UNCHANGED <<expectingMoreTasks, workerVars, taskStreams, currentCluster,
                   iterationFailed, checked, terminated>>

\* The loop ends and finish() starts clearing the list of streams.
EndOfEntries ==
    /\ mpc = "iterate"
    /\ nextEntry > NumEntries
    /\ mpc' = "close"
    /\ UNCHANGED <<streamVars, workerVars, nextEntry, taskStreams,
                   currentCluster, iterationFailed, checked, terminated>>

\* Reading an entry of the archive throws: the stack is unwound, and the
\* destructor of the dispatcher's list destroys the streams in the same way.
IterationThrows ==
    /\ mpc = "iterate"
    /\ nextEntry <= NumEntries
    /\ mpc' = "close"
    /\ iterationFailed' = TRUE
    /\ UNCHANGED <<streamVars, workerVars, nextEntry, taskStreams,
                   currentCluster, checked, terminated>>

\* Mutant of NoMoreTasks: unblockOut() is forgotten.
NoMoreTasksSilent ==
    /\ mpc = "close"
    /\ taskStreams # <<>>
    /\ expectingMoreTasks' = [expectingMoreTasks EXCEPT ![FrontStream] = FALSE]
    /\ mpc' = "join"
    /\ UNCHANGED <<taskQueue, waiters, workerVars, nextEntry, taskStreams,
                   currentCluster, iterationFailed, checked, terminated>>

\* ~TaskStream() of the front stream: noMoreTasks() ...
NoMoreTasks ==
    /\ mpc = "close"
    /\ taskStreams # <<>>
    /\ expectingMoreTasks' = [expectingMoreTasks EXCEPT ![FrontStream] = FALSE]
    /\ NotifyOne(FrontStream)
    /\ mpc' = "join"
    /\ UNCHANGED <<taskQueue, workerVars, nextEntry, taskStreams,
                   currentCluster, iterationFailed, checked, terminated>>

\* Mutant of Join: the thread is detached instead.
Detach ==
    /\ mpc = "join"
    /\ taskStreams' = Tail(taskStreams)
    /\ mpc' = IF Tail(taskStreams) = <<>> THEN "done" ELSE "close"
    /\ UNCHANGED <<streamVars, workerVars, nextEntry, currentCluster,
                   iterationFailed, checked, terminated>>

\* ... and then thread.join(); the list moves on to the next stream.
Join ==
    /\ mpc = "join"
    /\ wpc[FrontStream] = "exited"
    /\ taskStreams' = Tail(taskStreams)
    /\ mpc' = IF Tail(taskStreams) = <<>> THEN "done" ELSE "close"
    /\ UNCHANGED <<streamVars, workerVars, nextEntry, currentCluster,
                   iterationFailed, checked, terminated>>

-----------------------------------------------------------------------------
(* The worker thread of stream s: processTasks(). *)

\* Mutants of TakeTask: front() without pop(); pop without unblockIn().
PeekTask(s) ==
    \/ /\ taskQueue[s] # <<>>
       /\ task' = [task EXCEPT ![s] = Head(taskQueue[s])]
       /\ NotifyOne(s)
       /\ wpc' = [wpc EXCEPT ![s] = "check"]
       /\ UNCHANGED taskQueue
    \/ /\ taskQueue[s] = <<>>
       /\ wpc' = [wpc EXCEPT ![s] = "exited"]
       /\ UNCHANGED <<taskQueue, waiters, task>>

TakeTaskSilent(s) ==
    \/ /\ taskQueue[s] # <<>>
       /\ task' = [task EXCEPT ![s] = Head(taskQueue[s])]
       /\ taskQueue' = [taskQueue EXCEPT ![s] = Tail(@)]
       /\ wpc' = [wpc EXCEPT ![s] = "check"]
       /\ UNCHANGED waiters
    \/ /\ taskQueue[s] = <<>>
       /\ wpc' = [wpc EXCEPT ![s] = "exited"]
       /\ UNCHANGED <<taskQueue, waiters, task>>

\* The tail of getNextTask(): pop an entry if there is one, else return the
\* empty Task that ends processTasks().
TakeTask(s) ==
    \/ /\ taskQueue[s] # <<>>
       /\ task' = [task EXCEPT ![s] = Head(taskQueue[s])]
       /\ taskQueue' = [taskQueue EXCEPT ![s] = Tail(@)]
       /\ NotifyOne(s)
       /\ wpc' = [wpc EXCEPT ![s] = "check"]
    \/ /\ taskQueue[s] = <<>>
       /\ wpc' = [wpc EXCEPT ![s] = "exited"]
       /\ UNCHANGED <<taskQueue, waiters, task>>

GetNextTaskWait(s) ==
    /\ wpc[s] = "fetch"
    /\ OutIsBlocked(s)
    /\ WaitOn(s, "worker")
    /\ wpc' = [wpc EXCEPT ![s] = "wait"]
    /\ UNCHANGED <<taskQueue, expectingMoreTasks, task, mainVars, checked,
                   terminated>>

GetNextTask(s) ==
    /\ wpc[s] = "fetch"
    /\ ~OutIsBlocked(s)
    /\ TakeTask(s)
    /\ UNCHANGED <<expectingMoreTasks, mainVars, checked, terminated>>

\* cv.wait() has returned. The condition is not evaluated again: getNextTask()
\* has an `if` around the wait where addTask() has a `while`.
GetNextTaskResume(s) ==
    /\ wpc[s] = "wait"
    /\ "worker" \notin waiters[s]
    /\ TakeTask(s)
    /\ UNCHANGED <<expectingMoreTasks, mainVars, checked, terminated>>

\* articleChecker.check(*t) returns.
Check(s) ==
    /\ wpc[s] = "check"
    /\ checked' = checked \cup {task[s]}
    /\ task' = [task EXCEPT ![s] = NoTask]
    /\ wpc' = [wpc EXCEPT ![s] = "fetch"]
    /\ UNCHANGED <<streamVars, mainVars, terminated>>

\* articleChecker.check(*t) throws. Nothing in the thread catches it.
CheckThrows(s) ==
    /\ wpc[s] = "check"
    /\ task[s] \in Throwing
    /\ terminated' = TRUE
    /\ UNCHANGED <<streamVars, workerVars, mainVars, checked>>

-----------------------------------------------------------------------------
(* std::condition_variable::wait() may return without a notification. *)

SpuriousWakeup(s, side) ==
    /\ side \in waiters[s] \cap SpuriousSides
    /\ waiters' = [waiters EXCEPT ![s] = @ \ {side}]
    /\ UNCHANGED <<taskQueue, expectingMoreTasks, workerVars, mainVars,
                   checked, terminated>>

Main ==
    /\ ~terminated
    /\ \/ Dispatch
       \/ AddTaskWait
       \/ AddTask
       \/ EndOfEntries
       \/ IterationThrows
       \/ NoMoreTasks
       \/ Join

Worker(s) ==
    /\ ~terminated
    /\ \/ GetNextTaskWait(s)
       \/ GetNextTask(s)
       \/ GetNextTaskResume(s)
       \/ Check(s)
       \/ CheckThrows(s)

Environment ==
    /\ ~terminated
    /\ \E s \in Streams, side \in Sides : SpuriousWakeup(s, side)

\* test_articles() has returned, or the process is gone.
Finished ==
    /\ terminated \/ mpc = "done"
    /\ UNCHANGED vars

Next ==
    \/ Main
    \/ \E s \in Streams : Worker(s)
    \/ Environment
    \/ Finished

Spec == Init /\ [][Next]_vars

\* The operating system runs every thread that is able to run.
Fairness == WF_vars(Main) /\ \A s \in Streams : WF_vars(Worker(s))

FairSpec == Spec /\ Fairness

-----------------------------------------------------------------------------
(* Properties. *)

\* A thread sleeps on a stream's condition variable only while its end of the
\* queue is blocked: no notify_one() of addTask(), getNextTask() or
\* noMoreTasks() is missed by, or spent on, the wrong thread.
WaitersAreBlocked ==
    \A s \in Streams :
        /\ "worker" \in waiters[s] => OutIsBlocked(s)
        /\ "main" \in waiters[s] => InIsBlocked(s)

\* The comment on TaskStream::cv, which justifies one condition variable and
\* notify_one(): "only the consumer or the producer waits on cv".
OnlyOneSideWaits ==
    \A s \in Streams : waiters[s] # Sides

\* What finish() promises ("Wait for all tasks to complete and terminate the
\* worker threads"): once test_articles() goes on to the search for redundant
\* articles, no worker runs any more and every entry handed over is checked.
AllTasksComplete ==
    mpc = "done" =>
        /\ \A s \in Streams : wpc[s] = "exited"
        /\ 1..(nextEntry - 1) \subseteq checked

\* The entries a stream is responsible for at this moment.
InStream(s) == Range(taskQueue[s]) \cup ({task[s]} \ {NoTask})

ClusterOrder ==
    \A e1, e2, e3 \in Entries :
        e1 < e2 /\ e2 < e3 /\ ClusterOf[e1] = ClusterOf[e3]
            => ClusterOf[e2] = ClusterOf[e1]

\* The reason for the rotation of the streams in TaskDispatcher::addTask():
\* as long as the entries come in cluster order, no two threads are given
\* entries of one cluster, which both would have to decompress.
ClusterAffinity ==
    ClusterOrder =>
        \A s, t \in Streams : s # t =>
            \A e \in InStream(s), f \in InStream(t) : ClusterOf[e] # ClusterOf[f]

\* test_articles() returns: main never waits for ever for room in a queue
\* or for a worker that does not exit.
Termination == <>(mpc = "done" \/ terminated)

-----------------------------------------------------------------------------
(* The dispatcher implements TaskDelivery. *)

Queued == UNION {Range(taskQueue[s]) : s \in Streams}
Held == {task[s] : s \in Streams} \ {NoTask}

Outcome ==
    IF terminated THEN "terminated"
    ELSE IF mpc # "done" THEN "open"
    ELSE IF iterationFailed THEN "interrupted" ELSE "complete"

Delivery == INSTANCE TaskDelivery
              WITH pending <- Queued, active <- Held, outcome <- Outcome

\* Each entry is checked by one worker, once, and finish() returns when all of
\* them are.
ImplementsDelivery == Delivery!Spec

=============================================================================
