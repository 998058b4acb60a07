-------------------------- MODULE ConcurrentCache ---------------------------
(***************************************************************************)
(* zim::ConcurrentCache of src/concurrent_cache.h: threads that look keys  *)
(* up in one cache. A missing key is computed by the thread that missed    *)
(* it, outside of the lock; the cache holds a placeholder, the future of a *)
(* promise that this thread fulfils, and whoever finds the placeholder     *)
(* waits for it. zimcheck's workers share such a cache of link statuses.   *)
(*                                                                         *)
(* The value of a key is the key itself: f() is a function of the key.     *)
(***************************************************************************)
EXTENDS LruCache

CONSTANTS
    Threads,
    Keys,
    Sizes,          \* the limits to choose maxEntries from
    MaxCalls        \* bound: number of calls of getOrPut() in a behaviour

ASSUME SizesAssumption == Sizes \subseteq Nat
ASSUME MaxCallsAssumption == MaxCalls \in Nat

VARIABLES
    maxEntries,     \* the limit of this cache
    impl_,          \* the lru_cache of placeholders; a placeholder is the
                    \* number of its promise
    promises,       \* the promises made so far: the key each is for and
                    \* whether it is pending, ready (with a value) or broken
    pc, key, fut,   \* per thread: where it is in getOrPut(), the argument
                    \* and the placeholder x
    calls           \* number of calls so far

vars == <<maxEntries, impl_, promises, pc, key, fut, calls>>

NoKey == "no_key"
NoFuture == 0

Promise(k, st) == [key |-> k, state |-> st]

TypeOK ==
    /\ maxEntries \in Sizes
    /\ impl_.map \in SUBSET Keys
    /\ impl_.list \in Seq([key : Keys, val : 1..Len(promises)])
    /\ promises \in Seq([key : Keys, state : {"pending", "ready", "broken"}])
    /\ pc \in [Threads -> {"idle", "compute", "drop", "unwind", "get"}]
    /\ key \in [Threads -> Keys \cup {NoKey}]
    /\ fut \in [Threads -> 0..Len(promises)]
    /\ calls \in 0..MaxCalls

Init ==
    /\ maxEntries \in Sizes
    /\ impl_ = EmptyCache
    /\ promises = <<>>
    /\ pc = [t \in Threads |-> "idle"]
    /\ key = [t \in Threads |-> NoKey]
    /\ fut = [t \in Threads |-> NoFuture]
    /\ calls = 0

-----------------------------------------------------------------------------

Goto(t, l) == pc' = [pc EXCEPT ![t] = l]

\* getOrPut() is left, normally or by an exception.
Leave(t) ==
    /\ Goto(t, "idle")
    /\ key' = [key EXCEPT ![t] = NoKey]
    /\ fut' = [fut EXCEPT ![t] = NoFuture]

SetState(p, st) == promises' = [promises EXCEPT ![p].state = st]

\* Mutant of Lookup: a placeholder that is not ready yet does not count.
LookupReadyOnly(t, k) ==
    /\ pc[t] = "idle"
    /\ calls < MaxCalls
    /\ calls' = calls + 1
    /\ key' = [key EXCEPT ![t] = k]
    /\ impl_' = GetOrPut(impl_, maxEntries, k, Len(promises) + 1)
    /\ IF k \in impl_.map /\ promises[ValueOf(impl_, k)].state = "ready"
         THEN /\ fut' = [fut EXCEPT ![t] = ValueOf(impl_, k)]
              /\ Goto(t, "get")
              /\ UNCHANGED promises
         ELSE /\ fut' = [fut EXCEPT ![t] = Len(promises) + 1]
              /\ promises' = Append(promises, Promise(k, "pending"))
              /\ Goto(t, "compute")
    /\ UNCHANGED maxEntries

\* Mutant of Lookup: the placeholder is taken to be the one just made.
LookupOffByOne(t, k) ==
    /\ pc[t] = "idle"
    /\ calls < MaxCalls
    /\ calls' = calls + 1
    /\ key' = [key EXCEPT ![t] = k]
    /\ impl_' = GetOrPut(impl_, maxEntries, k, Len(promises) + 1)
    /\ fut' = [fut EXCEPT ![t] = Len(promises) + 1]
    /\ IF k \in impl_.map
         THEN Goto(t, "get") /\ UNCHANGED promises
         ELSE /\ promises' = Append(promises, Promise(k, "pending"))
              /\ Goto(t, "compute")
    /\ UNCHANGED maxEntries

\* The locked part of getOrPut(): find k's placeholder or put one's own.
Lookup(t, k) ==
    /\ pc[t] = "idle"
    /\ calls < MaxCalls
    /\ calls' = calls + 1
    /\ key' = [key EXCEPT ![t] = k]
    /\ impl_' = GetOrPut(impl_, maxEntries, k, Len(promises) + 1)
    /\ IF k \in impl_.map
         THEN /\ fut' = [fut EXCEPT ![t] = ValueOf(impl_, k)]
              /\ Goto(t, "get")
              /\ UNCHANGED promises
         ELSE /\ fut' = [fut EXCEPT ![t] = Len(promises) + 1]
              /\ promises' = Append(promises, Promise(k, "pending"))
              /\ Goto(t, "compute")
    /\ UNCHANGED maxEntries

\* valuePromise.set_value(f())
Compute(t) ==
    /\ pc[t] = "compute"
    /\ SetState(fut[t], "ready")
    /\ Goto(t, "get")
    /\ UNCHANGED <<maxEntries, impl_, key, fut, calls>>

\* Mutant of ComputeThrows: there is no handler that drops the key.
ComputeThrowsUncaught(t) ==
    /\ pc[t] = "compute"
    /\ Goto(t, "unwind")
    /\ UNCHANGED <<maxEntries, impl_, promises, key, fut, calls>>

\* f() throws a std::exception.
ComputeThrows(t) ==
    /\ pc[t] = "compute"
    /\ Goto(t, "drop")
    /\ UNCHANGED <<maxEntries, impl_, promises, key, fut, calls>>

\* The locked part of the handler: impl_.drop(key), whatever it holds now.
Drop(t) ==
    /\ pc[t] = "drop"
    /\ impl_' = DropKey(impl_, key[t])
    /\ Goto(t, "unwind")
    /\ UNCHANGED <<maxEntries, promises, key, fut, calls>>

\* Mutant of Unwind: the promise outlives the call and is never settled.
UnwindKeepsPromise(t) ==
    /\ pc[t] = "unwind"
    /\ Leave(t)
    /\ UNCHANGED <<maxEntries, impl_, promises, calls>>

\* The exception leaves getOrPut() and the destructor of valuePromise stores
\* broken_promise in the future.
Unwind(t) ==
    /\ pc[t] = "unwind"
    /\ SetState(fut[t], "broken")
    /\ Leave(t)
    /\ UNCHANGED <<maxEntries, impl_, calls>>

\* x.value().get(): wait for the promise, then return its value or, if it is
\* broken, throw.
Get(t) ==
    /\ pc[t] = "get"
    /\ promises[fut[t]].state # "pending"
    /\ Leave(t)
    /\ UNCHANGED <<maxEntries, impl_, promises, calls>>

InCall(t) == Compute(t) \/ ComputeThrows(t) \/ Drop(t) \/ Unwind(t) \/ Get(t)

Finished ==
    /\ calls = MaxCalls
    /\ \A t \in Threads : pc[t] = "idle"
    /\ UNCHANGED vars

Next ==
    \/ \E t \in Threads, k \in Keys : Lookup(t, k)
    \/ \E t \in Threads : InCall(t)
    \/ Finished

Spec == Init /\ [][Next]_vars

\* A thread inside a call is scheduled; nothing makes threads call.
FairSpec == Spec /\ \A t \in Threads : WF_vars(InCall(t))

-----------------------------------------------------------------------------
(* Properties. *)

\* The list and the map of the cache agree and respect the limit, also when a
\* placeholder is evicted or dropped by another thread than the one that put
\* it there.
CacheCoherent == Coherent(impl_, maxEntries)

\* No call is given the value of another key.
OwnPlaceholder ==
    /\ \A n \in 1..Len(impl_.list) :
          promises[impl_.list[n].val].key = impl_.list[n].key
    /\ \A t \in Threads : pc[t] # "idle" => promises[fut[t]].key = key[t]

\* The thread that will settle promise p.
Settles(t, p) == fut[t] = p /\ pc[t] \in {"compute", "drop", "unwind"}

\* Nobody waits for a promise that nobody is going to settle, even if its
\* placeholder has long left the cache.
PendingHasComputer ==
    \A p \in 1..Len(promises) :
        promises[p].state = "pending" <=> \E t \in Threads : Settles(t, p)

\* A failure is not remembered: the placeholder of a call that threw is out of
\* the cache before its promise is broken.
NoBrokenPlaceholder ==
    \A n \in 1..Len(impl_.list) : promises[impl_.list[n].val].state # "broken"

NothingThrew ==
    /\ \A p \in 1..Len(promises) : promises[p].state # "broken"
    /\ \A t \in Threads : pc[t] \notin {"drop", "unwind"}

\* "Concurrent access to the same element [...] will block until that element
\* becomes available": as long as nothing is evicted and f() does not throw,
\* f() is called once for each key.
ComputedOnce ==
    maxEntries >= Cardinality(Keys) /\ NothingThrew =>
        \A p, q \in 1..Len(promises) : promises[p].key = promises[q].key => p = q

\* Every call returns or throws.
CallsReturn == \A t \in Threads : (pc[t] # "idle") ~> (pc[t] = "idle")

=============================================================================
