# Verification of zim-tools

TLA+ models of the ZIM tools (`src/src/`), checked with TLC on small instances,
and theorems about them that TLAPS proves for every value of the constants.
Line numbers refer to `src/src/zimcheck/checks.cpp` unless a file is named.

## 1. The system

Nine command line tools share a library (libzim, external) and a few helpers.

| Component | State | Operations | Hard behaviour | What makes it correct |
|---|---|---|---|---|
| `TaskStream`, `TaskDispatcher` (513-700) | per stream a bounded queue, a flag, a mutex and one condition variable; a rotating list of streams | `addTask`, `getNextTask`, `noMoreTasks`, `finish`, destructors | blocking at both ends, lost and spurious wakeups, exceptions on both sides, shutdown one stream after the other | nobody sleeps without cause; each entry is checked once; `finish()` waits for all; clusters stay with a thread |
| `RedirectionTable` (702-806) | targets and loop statuses by index | `addItem`, `addRedirectionEntry`, `isInRedirectionLoop` | cycle search from outside of the ring, reuse of earlier results | it ends, every status written is right, exactly the unresolvable redirects are reported |
| `ConcurrentCache`, `lru_cache` (`concurrent_cache.h`, `lrucache.h`) | list, map, promises | `getOrPut` by any thread | eviction or failure while others wait | coherent at all times, every waiter released, no failure cached, values computed once |
| `ArticleChecker` (297-511) | `hash_main`, link cache, log | `check`, `detect_redundant_articles` | workers in any order, an unprotected hash table, lists replaced while they are searched | the log holds exactly the messages that the items and the targets of their links call for |
| `ErrorLogger`, JSON stream, zimcheck's main flow (149-235, `zimcheck.cpp`, `json_tools.*`) | test status, nesting of scopes, mutex | `addMsg`, start and end of the logs, one stage per test | messages from several threads, an exception in any stage | the output is JSON, the status agrees with the messages |
| `tools.cpp`, `tools.h` | none | extraction and resolution of links, paths, URLs | boundary cases of string cutting | agreement with what RFC 3986 and readers make of a link |
| `metadata.cpp`, `metadata_constraints.cpp` | a table of reserved metadata | `set`, `check` | constraints across several values | what zimwriterfs writes passes zimcheck |
| zimsplit | suffix indices, sizes, position in the archive | `check`, `run` | exact fits, running out of names | the parts concatenate to the archive, are well cut and sort in order |
| zimdiff, zimpatch | archives read and written, a diff file | diff, apply | entries added, removed, turned into redirects; a client that goes from release to release | the client has the release, or loses only what a diff file cannot carry |
| zimrecreate | archives read and written | copy | namespaces dropped, links rewritten as text | same entries, same targets |
| zimdump | the directory dumped to, a counter of shortened names | list, show, dump | names too long, files and directories that clash, links in the way | a file for each item, the same to read |
| zimwriterfs | directories being visited, the archive written, lines of redirects | traversal, adding | symbolic links, pages that redirect, arguments, metadata | what the directory has can be read in the archive |
| zimbench, zimsearch | - | wrappers of the library | - | - |

Interactions. `zimcheck()` runs its stages one after the other on the main
thread. `test_articles()` starts the workers of a `TaskDispatcher`; each calls
`ArticleChecker::check()`, which reports to the `ErrorLogger` (shared, under
`msgMutex`), looks links up in a `ConcurrentCache` (shared, under its lock),
inserts into `hash_main` (shared, without a lock) and counts on a `ProgressBar`
(shared, with a mutex of its own). Only after `finish()` does the main thread
read `hash_main`. The other tools are sequential programs that hand archives
and directories to each other: a diff file is written by zimdiff and read by
zimpatch, which keep two lists of its metadata; a directory is written by
zimdump and packed by zimwriterfs, whose HTML redirects must mean the same to
both; metadata are written by zimwriterfs and judged by zimcheck with the same
`zim::Metadata`. All of them rely on libzim's `Creator`, which drops redirects
to what is not in the archive when it finishes.

## 2. Modules

| Module | Models | Kind |
|---|---|---|
| `TaskDelivery` | what `test_articles()` expects of any machinery that spreads the checks | abstract specification |
| `TaskDispatcher` | `TaskStream`, `TaskDispatcher` and the loop of `test_articles()` | detailed; implements `TaskDelivery` |
| `TaskDispatcher_proofs` | theorems about it | proofs |
| `RedirectionTable` | the class and `test_redirect_loop()` | component |
| `RedirectionTable_proofs` | theorems about it | proofs |
| `LruCache` | `lru_cache` | operators on a record |
| `ConcurrentCache` | `getOrPut()` called by threads, on top of `LruCache` | component |
| `ConcurrentCache_proofs` | theorems about `LruCache` and about it | proofs |
| `Paths` | `computeAbsolutePath`, `computeRelativePath` | operators |
| `Links` | `generic_getLinks`, `detectUriKind`, `InternalLinkResolver` | operators, with a reference |
| `PatchedLinks` | what zimrecreate does to a link, and which links it is to adapt | operators, on top of `Links` |
| `Links_proofs` | theorems about the scanner, the resolver and patched links, lemmas about recursive functions | proofs |
| `ArticleChecker` | the workers' checks, from the page to the message, and the search for redundant items; entries are taken as `TaskDelivery` promises | component, on top of `Links` |
| `ArticleChecker_proofs` | theorems about it, from those of `Links_proofs` | proofs |
| `JsonStream` | `JSON::OutputStream` and a reader of what it writes | operators on a record |
| `ZimCheck` | a whole run of zimcheck on top of `JsonStream` | composition |
| `ZimCheck_proofs` | lemmas about `JsonStream`, theorems about `ZimCheck` | proofs |
| `ZimSplit` | zimsplit | component |
| `ZimSplit_proofs` | theorems about it | proofs |
| `Creator` | `zim::writer::Creator` (external) | operators |
| `ZimUpdate` | zimdiff, zimpatch and a client that updates its archive | composition |
| `ZimUpdate_proofs` | theorems about it | proofs |
| `FileSystem` | lookup, `mkdir`, `symlink`, `open` (external) | operators |
| `Pages` | what a reader gets from an archive and from a directory | reference |
| `Metadata` | `zim::Metadata` | operators |
| `ZimRecreate`, `ZimDump`, `ZimWriterFs` | the three programs | components |
| `Toolchain` | the three programs one after the other | composition |
| `MC...` | instances for TLC | |

Operators named "Mutant of ..." are variants with a plausible bug. They are not
part of any specification; replacing the definition they belong to by them must
make a property fail, and shows that the property can.

### TaskDispatcher

One action is one interval in which a stream's mutex is held. `Dispatch` is the
choice of a stream by `TaskDispatcher::addTask()` (657-668); `AddTask` and
`AddTaskWait` are the two outcomes of `TaskStream::addTask()` (541-551), whose
`while` re-evaluates the condition. On the worker's side `GetNextTaskResume`
does not: line 608 is an `if`. `waiters[s]` is the wait set of the condition
variable; `NotifyOne` picks any member of it. `NoMoreTasks` and `Join` are the
destructor (526-539). Three ways out of the ordinary: the iteration throws
(`IterationThrows`, the unwinding destroys the streams), a check throws in a
worker (`CheckThrows`, `std::terminate()`), and a wait returns spuriously
(`SpuriousWakeup`, allowed for the sides in `SpuriousSides`).

### RedirectionTable

The table is filled in path order and then queried for each index. One action
is one round of a loop, so that an endless loop would be an infinite behaviour.
`target` ranges over all redirect graphs: self-redirects, rings, chains into
rings or items. Being in a loop is defined independently of any walk: there is
a set of redirects closed under `target`.

### LruCache, ConcurrentCache

A cache is a record of the list and of the keys of the iterator map. A
placeholder is the number of its promise. `Lookup` is the locked `getOrPut()`
of the inner cache (62-68), `Compute` and `ComputeThrows` the call of `f()`
without the lock, `Drop` the second locked section in the handler, `Unwind` the
destruction of the promise (waiters get `broken_promise`), and `Get` the wait
on the future.

### Paths and Links

A path is the sequence of the components between its slashes, so that a slash
at the end is an empty last component: `a/` is `<<"a", "">>`. A link is its
scheme, whether an authority follows, the components of its path and the marks
`#` and `?` after it. `GetRelativePath` says "up from the base's directory to the
last directory that it shares with the target, then down" for the two loops of
`getRelativePath()`; the step more where the target is that directory is what
the tests ask for. `ResolveComponent` is one round of the loop of
`resolveLinkTarget()`; `ends` is `pathTerminator`. `Scan` is one round of
`generic_getLinks()` on the tokens it looks for: brackets of tags, begins and ends
of comments, `</script>` and attributes; `skip` is what `strSkipTillRightAfter()`
looks for, and `after` what it will look for once a script's tag has ended
(`processingAScriptTag`). `GetLinks` applies it to one token after the other, with a
recursive function. `ArticleChecker`'s properties compare with definitions that
neither scan nor fold (`LinksOfPage`, `LeadsOutside`, `Target`): a name remains in
the target unless what follows it goes up above it. `ProperElements`, `ProperUrls`
and `ProperPaths` are what the proofs are about (section 4).

### ArticleChecker

An entry is a record of what the checks look at; the page of an HTML item is a
sequence of elements. `CheckItem` computes the messages of an item in the order
of the code, from `GetLinks` to `ResolveLinkTarget`, with every effect of `--quick`
and of the enabled tests; `ReportNext` adds one of them to the log. `ReadBucket`
and `WriteBucket` are the two halves of `hash_main[...].push_back()` (380): the
race is modelled by the outcome in which one of two insertions is lost. The
build can do worse (a data race on a `std::map` of lists is undefined and may
crash); the model keeps the mildest outcome, which is enough to refute the
comment at 341. `CompareWithFirst` is one round of the loop of
`detect_redundant_articles()`, with its swap (`Kept` is what `push_back()` in a loop
leaves of a list). Groups of links are visited in the
order of their first links instead of the order of their paths: with `--quick`
this decides which dangling target is reported, and the property does not say.

### JsonStream, ZimCheck

`JsonStream` translates `json_tools.*` operation by operation on a record: the
nesting of scopes and the state of a reader of the text (`Read`, external: what
a JSON parser accepts next). The text itself is not kept. Characters inside
strings are abstracted, hence the escaping in `output(const char*)` (control
characters included) is not modelled. `ZimCheck` has one action per stage of `zimcheck()`
and per step of the workers. A message is written with one operation per step while
`msgMutex` is held. `Throws` may happen in any stage that reads the archive.
The mode with `--progress` prints into the same stream (`progress.h:71`).

### ZimSplit

A part is the interval of bytes copied to it. `CheckSizes` is the condition in
`main()`, with docopt's conversion of a value to `bool` (external, from its use:
a value is true if it holds anything). `NewFile` advances the suffix before it
tests it, as the code does. `CopyOut` is one batch; `CopyFails` an error of
either stream. A chunk of zero bytes cannot occur (offsets are distinct).

### Creator, ZimUpdate

An archive is its UID, its entries (a function from paths) and its main page. A
publisher has a history of releases; `ZimDiff(i, j)` makes the diff file between
two of them and `ZimPatch(i, j)` applies it to whatever archive the client has by
then, whether it fits or not, in any order and as often as it likes. `DiffOf` is
`create()` of `zimdiff.cpp` with the five metadata it writes, `Patched` that of
`zimpatch.cpp`, and `CheckDiffFile` what is looked at before. `Creator` holds what
these programs rely on in libzim, from their use of it: a second entry at a path
is an exception unless an item replaces a redirect, and finishing drops redirects
to what is not there. zimpatch demands a metadata entry that zimdiff does not
write (finding 3). `OtherMetadata` is what a diff file has beyond zimdiff's: with
`{}`, which is what the code does, no update ever happens; the passing run gives
the diff files the missing entry, so that everything behind that check is looked at.

What does not survive an update (`IsLost`): a redirect that becomes an item
(`zimdiff.cpp:114`, with a FIXME), a new title or mime type of the same data
(`:118`), and a new redirect to an entry that the diff file does not have (`:125`,
dropped when the diff file is finished; an item that stays as it is is never in
it). The client's archive then differs from the release, and a later list of
deleted paths may name what it does not have, which makes zimpatch throw
(`zimpatch.cpp:137`). `HasARelease` holds where nothing is lost between any two
releases, `LossIsLocal` says that anything else arrives in spite of it.

### FileSystem, Pages

A file system is a function from paths to directories, files, symbolic links and
special files. `Walk` resolves a path name by name and follows at most
`MaxSymlinks` links; the other operators say what `realpath`, `mkdir`, `symlink` and
`open` do. `Pages` is the reference: `Reads` what there is to read at a path of an
archive (through its redirects and through pages with a `refresh` element), `Opens`
the same for a directory (through symbolic links and such pages).

### ZimRecreate, ZimDump, Metadata, ZimWriterFs

One action per entry. `RecreateEntry` is one round of the loop at
`zimrecreate.cpp:139`: the two schemes, what is left out, and the eight
replacements in `getContentProvider()` applied to each link (`PatchedLink` of the
module `PatchedLinks`; a link starts with a quotation mark in the text, hence only
beginnings match). `IsAdapted` says which links the comment above the replacements
promises to fix: those of pages in the root or one directory below it, with steps up
only at their beginning. It took the proof to find what else a link needs: nothing but the
namespace is named like one, `.` stands nowhere in it, and neither is written with
percent-encoding, which the replacements do not see through.
`DumpEntry` is one round of `dumpFiles()`: its directories (`CreateDir`), the
shortening of names (a table of the names that are too long, and the counter),
and one of three outcomes, of which each can fail: a file, an HTML redirect or a
symbolic link. The entries come in the order of clusters, which the model does
not know: any order. `Metadata` is the table of `metadata_constraints.cpp` and the
order in which the constraints are evaluated.

`StartPack` is everything that zimwriterfs does before it reads the directory:
missing and wrong arguments, `makeMetadata()`, `checkMetadata()` and the canonical
paths. `VisitEntry` is one round of `visitDirectory()`, whose recursion is the
stack `visited`; names come in any order. `AddFile` and `ProcessSymlink` are the
functions of these names; a page whose `refresh` target cannot be opened ends the
program. `TypeOf` is `d_type`, or `stat()` where the file system does not tell.
`AddRedirect` is a line of the redirects file.

### Toolchain

`Toolchain` takes a plan (one program, or zimrecreate, zimdump and zimwriterfs in
a row), each program an `INSTANCE` on shared state. What one writes is what the
next reads; properties are about a program that has ended with status 0 and
compare what can be read afterwards with what could be read before.

## 3. What is checked

| Run | Instance | Shows |
|---|---|---|
| `task_dispatcher` | 2 streams of capacity 2, 5 entries in 3 clusters, entry 3 may throw, spurious wakeups of main | `WaitersAreBlocked`: no thread sleeps while its end of the queue is free. `ClusterAffinity`: no two workers hold entries of one cluster. `AllTasksComplete`: `finish()` returns when all is checked. `ImplementsDelivery`: refinement of `TaskDelivery`. `Termination`. |
| `task_dispatcher_spurious` | 1 stream, 1 entry, workers may wake up spuriously | violated: `AllTasksComplete` (finding 1) |
| `redirection_table` | all 6^5 redirect graphs on 5 entries | `StatusSound`, `ReportedExactly`, `Termination` |
| `concurrent_cache` | 3 threads, 2 keys, limits 0 to 2, 4 calls, `f()` may throw | `CacheCoherent`, `OwnPlaceholder`, `PendingHasComputer`, `NoBrokenPlaceholder`, `ComputedOnce`, `CallsReturn` |
| `article_checker` | 1 or 2 workers on 6 entries that take every branch; a page with links of every kind, a script, a comment and a text; links of up to 4 components out of 6 from 4 places | `MessagesExact`, `RedundancyExact` (one worker), `Termination` |
| `article_checker_race` | 2 workers, 3 items of one hash | violated: `AllInBucket` (finding 2) |
| `article_checker_quick` | 1 worker, `--quick`, a page with two absolute links | violated: `QuickReportsOnce` (finding 4) |
| `zimcheck` | 2 workers, 4 sets of tests, all output options except `--json` with `--progress` | `OutputIsJson`, `MessagesGoToLogs`, `StatusIsSound`, `DamagedArchiveIsNotRead` |
| `zimsplit` | archives of up to 8 bytes, every set of cluster offsets, sizes 0 to 5, batches of 2, 4 suffixes | `PartsConcatenate`, `PartsWellCut`, `NamesInOrder` |
| `zim_update` | 2 or 3 releases with up to 2 or 3 entries each, items and redirects, 2 data, 2 titles | `HasARelease`: without losses the client always has a release. `LossIsLocal`: what is lost takes nothing else with it. `OwnDiffsFit`: of all diff files, those from the client's version and only those fit its UID and its entries. The diff files have `M/layoutaurl` besides what zimdiff writes. |
| `zim_update_refused` | 2 releases of one item, the metadata zimdiff writes | violated: `OwnDiffApplies` (finding 3) |
| `toolchain` | 12070 scenarios: old and new archives to recreate; archives of up to 3 of 8 clashing paths to dump, to new and old directories; a directory with links, pages that redirect and 11 targets, all arguments and metadata to pack; all three in a row | `RecreateKeeps`, `Unpacks`, `Packs`, `PassesZimcheck` |

Each passing run also checks its module's `TypeOK`.

### Bounds

- `MAX_SIZE` is 1000 in the code. Only full, empty and in between matter; 2 has
  them all, and five entries fill a queue, wrap the rotation over two streams
  and leave tasks behind when the iteration ends. The theorems hold for any.
- Five entries allow a ring of three with a tail of two, two rings with an item,
  and every smaller shape: the walk's two pointers differ in speed, and tails
  and rings of both parities occur. The theorems hold for any number.
- Limit 1 with two keys evicts pending placeholders, limit 0 evicts a
  placeholder at once, limit 2 evicts nothing; three threads give a computer, a
  waiter and an evicter; a fourth call comes after a failure or an eviction.
- The archive of `MCArticleChecker` has aliases, a hash collision, a redirect and
  an empty item for the workers' interleavings; `MCPage` every kind of link, some twice, and what looks
  like links in places where it is none. The links from `PageAt` go up and down
  from depths 0 to 2, encoded or not, into and out of the archive: the resolver
  carries only the path so far and a separator from one component to the next,
  and every pair of kinds of component occurs at the root and below it. Links have
  one mark at most, as two show the flaw under 5 in section 5.
- `ZimCheck` reports any number of messages; the nesting is bounded by what the
  code writes.
- `MaxFileSize` bounds the archives of `ZimSplit`; `Letters` is 26 in the code
  and 2 here, so that names run out.
- `ZimUpdate`: an entry is new, gone, the same, changed, a redirect or once was
  one; three paths give a redirect whose target is new, old or a redirect, and
  three releases a client that skips one or goes on after a loss. Two bytes stand
  for a UID, below and above 127.
- `Toolchain`: three entries are an entry, one that it clashes with and a third
  that either redirects to or has their shortened name; two long names give two
  counters. In directories, links and pages lead to a file, a link, a directory, a
  circle, outside, to a sibling whose name begins with the directory's, and to
  nothing. Texts have lengths on both sides of each limit. `MaxSymlinks` is 40 in
  Linux; 3 is more than any chain here but the circles.
- What the properties require is part of what they say. Each precondition was
  dropped once and the property then failed: that nothing is lost
  (`HasARelease`), that the client has lost no entry (`OwnDiffsFit`), no clash of
  namespaces and only links the code adapts (`RecreateKeeps`), a new directory and
  no made-up names (`Unpacks`), types known to `readdir()` and no redirect through
  a link to a directory (`Packs`), a welcome page that can become an entry
  (`PassesZimcheck`).

### Fairness

`WF` of the main thread and of each worker in `TaskDispatcher` and
`ArticleChecker`, of each thread inside a call in `ConcurrentCache`, and of the
program in `RedirectionTable`: operating system threads that can run do run.
Strong fairness is not assumed: a mutex is held for one action, so no thread is
kept out by the others in these models, and waiting is a state of its own.
Nothing forces a thread to call `getOrPut()`, an exception to be thrown or a
wait to return spuriously. The fairness of the workers in `ArticleChecker` is
weak fairness with `ENABLED` written out (`CanStep`), which spares TLC finding it
out in each state. `ZimCheck`, `ZimSplit`, `ZimUpdate` and `Toolchain` have no
liveness properties: the last three are loops over finite lists, and nothing
makes a publisher or a client act. Deadlock is checked in all runs but those of
`ZimUpdate` and `Toolchain`: a client may be left with nothing that changes its
archive, and the programs of a plan end.

## 4. What is proved

All theorems are for every value of the constants that satisfies the named
assumptions of the modules. TLC evaluates these assumptions in the runs; they say
that numbers are numbers and archives archives, and what follows here:

| Assumption | Where | Why the code justifies it |
|---|---|---|
| at least one stream, `MAX_SIZE` at least 1 | `TaskDispatcher` | with `--threads 0` the program is undefined (section 6) |
| at least one worker | `ArticleChecker` (in `RunsAssumption`), `ZimCheck` | the same |
| `AliasAssumption`: one place in the archive has one content | `ArticleChecker` | `areAliases()` compares cluster and blob number |
| `HistoriesAssumption`: releases are complete archives with UIDs of their own | `ZimUpdate` | libzim's `Creator` drops dangling redirects and draws UIDs at random |
| buffer and letters at least 1 | `ZimSplit` | they are 4096 and 26 |

Some theorems have a hypothesis of their own:

- `FinishWaits` and `Refinement`: workers never wake up spuriously (finding 1).
- `CalledOnce`: there are finitely many keys, and nothing is thrown or evicted.
- `JsonIsWellFormed` and `MessagesInLogs`: `NoNoise`, `--progress` is not printed into
  the document (5 in section 5).
- `ScannerIsExact`, `ResolverIsExact`, `MessagesAreExact` (`ProperRuns`): pages, links
  and paths are proper. In a proper page no bracket stands in a text, nor the end of
  a comment or a script in what it ends; a proper link has one of `#` and `?` at most,
  and none of its components but the first and the last is empty; the directories of
  a proper path have names. Brackets and second marks are where the code is
  wrong (5 in section 5), the rest is what section 6 leaves out. `MCArticleChecker` assumes
  `ProperRuns` as well, so that TLC finds its archives proper.
- `PatchedLinksLead`: the link is one that zimrecreate promises to adapt (`IsAdapted`),
  which `RecreateKeeps` asks for as well, with links that are and links that are not in
  the archives of the run `toolchain`.

But for `CalledOnce`, they mark where the code does not keep the promise otherwise.

### TaskDispatcher_proofs

The inductive invariant `DispatcherInv` has four parts.

1. `Base`: `TypeOK`, and `PlaceInv`: when the list of streams is empty, that all
   streams expect more during the iteration, and that a worker holds a task
   exactly while it checks.
2. `WaitInv`: main waits only in `addTask()` on the front stream, which is full;
   a worker waits only on an empty stream that expects more. As a queue cannot
   be full and empty (`BlockedExclusion`, from `MAX_SIZE > 0`), at most one
   side waits (`OneCvSuffices`, the comment on `TaskStream::cv`), so
   `notify_one()` releases whoever there is (`NotifyReleases`), and that is why
   the invariant survives each `NotifyOne`: `NoLostWakeup`. Spurious wakeups
   are allowed on both sides here.
3. `OnceInv`: no entry is twice in the queues, the workers' hands and `checked`,
   and together these are the entries handed over so far.
4. `ExitInv`: a worker that was woken finds its end of the queue unblocked, one
   that has left did so with an empty queue that expects nothing more, and a
   stream is only missing from the list if its worker has left. This needs the
   assumption that workers never wake up spuriously
   (`"worker" \notin SpuriousSides`), which is exactly what finding 1 is about.

`FinishWaits` (the promise of `finish()`) and `Refinement` (`TaskDelivery` is
implemented) follow under that assumption. `TypeCorrect`, `NoLostWakeup`,
`OneCvSuffices` and `OneThreadPerCluster` do not need it. The last one rests on
`AffinityInv`: only the front stream has entries of `currentCluster`, and in
cluster order the clusters of what the other streams have do not come again.

### RedirectionTable_proofs

The invariant `Inv` adds to `TypeOK` that the table is
the graph (`TableInv`); that each known status is right (`StatusInv`); during the
detection, that `i` is in a loop exactly if `i2` is, and that there is a set of
redirects, the ones `i2` has passed since it was where `i1` is now, which is closed
but for the way to `i2` (`DetectInv`): when `redirTable[i2] = i1`, that set with
`i2` is closed, which makes `LOOP` right without knowing the order of the walk;
during the marking, that the status found is right for `cur` (`MarkInv`; a redirect
and its target are in a loop together, `LoopStep`); and what has been reported so
far (`ReportInv`). Theorems: `TypeCorrect` (no access outside of the vectors),
`StatusCorrect`, `ReportCorrect`, `StatusFinal` (a status is never overwritten,
hence all lookups together mark each entry once).

### ConcurrentCache_proofs

The lemmas of the first part reduce the list and the map of `lru_cache` to the set
of pairs that are cached, `Cached`, for any keys, values and limit:
`GetOrPutKeeps` and `DropKeeps` say what the operations do to it, up to which pair
a full cache gives up for a new one, and that the list and the map agree afterwards
(`Coherent`). The second part is about the threads
that use it. `CacheInv` has four parts: `Base` (types; `CacheStaysCoherent`),
`OwnInv` (a placeholder belongs to the promise of its key; `ValueOfOwnKey`),
`SettleInv` (a pending promise has a thread that computes, fails or unwinds, and no
two threads would settle one promise; `NobodyWaitsInVain`, `PromisesSettledOnce`),
and `BrokenInv`: no broken promise is cached, and while a thread unwinds, its
promise is not cached any more (`FailureNotCached`). The third line is why
`drop()` must come before the promise is destroyed. `OnceInv`, with a limit not
below the number of keys and without exceptions, says that all promises there are
are cached, which needs the cardinality of the cache: `CalledOnce`.

### Links_proofs

The recursive functions are the obstacle: what they compute is a fact about all
lengths. Induction over numbers is available in the form `UpTo` (if 0 is in Q, and
n whenever n - 1 is, so are all up to N), from the least element of a set of
numbers; `RecursionExists` says that there is a function with a given recursion,
and hence that the one chosen by a recursive definition has it. With them:

- `KeptElements`: what a loop with `push_back()` leaves of a list.
- `ScannerIsExact`: `GetLinks(page) = LinksOfPage(page)` for pages of any number of
  elements with any number of attributes. The invariant of the scanner at the end of
  each element is the state `Outside`: balance 0, nothing to skip, and the links
  of the elements so far.
- `ResolverIsExact`: the resolver finds a relative link out of bounds exactly if its
  steps rise above the root at some point, and else leads to their destination. The
  code has a stack of names; the reference counts. The two are related through the
  balance of a stretch of steps, the names in it less the `..`. The invariant (`Walked`):
  after n steps the path has the names at increasing positions p[1], p[2], ...
  (`Places`), the balance of all n steps is its length, and that of the steps after
  p[a] is its length less a and never below 0 in between. `WalkFurther` keeps
  this in each of the cases of `ResolveComponent`, `WalkedSoFar` is the induction. At the end
  a name is in the path exactly if nothing after it rises above it, and
  since there is one increasing list of a set of positions (`OneIncreasingList`), the
  path is the `Destination`.
- `PatchedLinksLead`: zimrecreate drops the first component of all paths, and
  `LinkTarget(PatchedLink(link), Tail(path)) = Tail(LinkTarget(link, path))` for each
  link `IsAdapted` from the entry `path` of an archive with any paths. The places after
  F names, k steps up and n names are known (`UpDown`, by induction over k and n with
  the lemmas about `Places` from above), hence where such a link leads (`LinkTargetIs`);
  more than F steps up lead outside (`UpTooFar`). If k < F no
  round changes the link, and it leads to the same entry when the directory has lost
  its first name (`LinkBelow`); if k = F exactly one round does, that of the namespace it
  leads to, and takes one step up and the namespace out of it (`LinkAcross`). That
  the seven other replacements, before and after it, leave the link alone is where the
  conditions of `IsAdapted` are needed.

### ArticleChecker_proofs

- Types (`TypeCorrect`) from `TypeInv`: it adds that a worker that works has an
  item that is to be examined, one that records it an item with data, and that
  messages are about entries and links.
- `SearchIsExact`: with one worker, `WorkerInv` (each item with data is to be taken,
  in its bucket, or in the worker's hands, which hold the bucket as it is) makes all
  buckets complete when the search begins; during the search, `Searched` says of
  each content that its items are in a bucket that is still to be visited, all in
  the list, or connected by the reports. A round keeps this because an alias of the
  first item, which is left out of the list, has its content
  (`AliasAssumption`). Collisions of the hash change nothing in it. That what
  is reported is right holds with any number of workers
  (`ReportedItemsAreRedundant`); that nothing is left out does not (finding 2).
- `LogIsThatOfTheItems` and `NoMessageTwice`, with any number of workers: after the
  checks, the log has of the items exactly the messages that the check of each of
  them makes, and each message once. `CollectInv` says that a worker has its item
  and its messages for itself, that what is in the log is with no worker any more,
  and that no message gets lost in between; `OnceInv` that an item is recorded once
  under the hash of its content, even if workers overwrite each other's bucket, and
  that an item is reported in one round only.
- `MessagesAreExact`, on proper archives: the log is the one that the reference `Due`
  asks for. By the line before, it is enough to look at the messages of one item
  (`ItemJudged`): its links are those of the page (`ScannerIsExact`), each is judged
  as it resolves (`ResolverIsExact`), one test after the other, and what `Due` calls
  groups are the sets of links with one dangling target, of which `--quick` leaves
  one. Of absolute and out-of-bounds links the property says only, with `--quick`,
  that one is reported if there is one, and none that is not one: how many is
  finding 4.

### ZimCheck_proofs

The lemmas about `JsonStream` say what each operation does to a well-formed
document: at the root object, in the array of logs, in a message. For `ZimCheck`
there are two invariants. `Control` says who may write: a worker runs only in the stage of
the articles, the holder of `msgMutex` is the only one with something left to write,
and main only in a stage that reports. With the order of the tests (`Damage`) and of
the status (`StatusInv`) it gives `StatusOfTheTests` and `DamageStopsTheTests`.
`DocInv` relates the document to it: the array of logs is open exactly in the stages
between, and what the holder of the mutex has left to write is the rest of one
message, for which the document is in the state that it needs. An exception at any
point keeps it, because a message is begun and finished under the lock and the
destructor closes what is open: `JsonIsWellFormed`, `MessagesInLogs`.

### ZimSplit_proofs

`IInv` is `TypeOK` with `Cursor` (the position, what is left to copy and the last
offset fit together, and the last part ends at the position), `Chained` (a part
begins where the one before ends), `Control` (what each place in the program knows),
`Cuts` (finished parts begin at chunks and had no room; the last one will when the
copying has reached the offset) and `Names` (used suffixes are before the next).
`PartsGiveTheArchive` follows from `Cursor`, `Chained` and `Control`, `SplitIsTight`
from `Cuts`, `NamesSort` from `Names`.

### ZimUpdate_proofs

No induction over updates is needed: the invariant is `TypeOK` with the releases
being a history, and for `ClientHasARelease` the property itself. The work is in
`Patched(client, DiffOf(start, end))`, entry by entry: kept, new, changed, deleted, a
redirect whose target is one of these. `LossStaysLocal` says that if the client has
what the diff file starts from, the result has what it leads to but for what is lost; `ClientHasARelease` that
without losses the result is the release; `OwnDiffsAreFit` that the client's UID stays
that of a release and that UIDs agree after their way through signed numbers exactly
where they should. `OtherMetadata` is arbitrary in all theorems: what zimdiff writes
is one case, in which no update happens but `OwnDiffsFit` still says which diff files
would fit.

### Only model-checked

- Liveness: `Termination`, `CallsReturn`.
- `Toolchain` and its programs, but for the links of zimrecreate: they use RECURSIVE
  operators (`FileSystem`, `Pages`), which the prover does not support.

## 5. Findings

1. *Spurious wakeup* (608). `getNextTask()` waits under an `if`. A spurious
   wakeup with an empty queue returns an empty task; the worker exits and
   what is queued for it later is never checked.
2. *Race on `hash_main`* (380). Two workers insert at the same time without a
   lock; an item can be missing from its bucket, and its redundancy from the report.
3. *zimpatch refuses what zimdiff makes* (`zimpatch.cpp:215`). It asks for the
   entry `M/layoutaurl`, which zimdiff does not write, and exits with 0.
4. *`--quick` reports more than one* (424, 427). "Report at most one error of each
   type per ZIM entry" (`zimcheck.cpp:64`) does not hold for absolute and
   out-of-bounds links: each of an item's is reported.

5. Met while modelling, without a run of their own:
   - zimsplit `--force` (`zimsplit.cpp:210`): `!args["--force"]` asks docopt whether
     the value holds anything, which it always does, so that the check of sizes that
     `--force` turns off is never made. `CheckSizes` models the condition as it is,
     and the properties of `ZimSplit` hold with and without `--force`.
   - `--json --progress` (`progress.h:71`): the progress is printed into the JSON;
     the run `zimcheck` leaves the two together out.
   - A link with a fragment and a search component is cut at the last `#` or `?`
     instead of the first (`tools.cpp:509`) and reported as dangling.
   - Lone `<` and `>` in a text put the scanner's count of tags out
     (`tools.cpp:385`), and the links after them are not seen.
   - The last of the 676 names of zimsplit is never used, as the program exits
     when it is handed out; an error while `ofstream::close()` flushes a part goes
     unnoticed.
   - What updates lose is listed under ZimUpdate above. `checkDiffFile()` also turns
     an array without a final zero into a string (`zimpatch.cpp:246`); the string is
     not used.
   - zimdump ignores `--ns` in `dump` (the filter is not used), and returns 0 with
     entries among the errors, where its usage promises 2 and a file `dump_errors.log`.
     A redirect to an entry whose name was shortened leads to the long name
     (`zimdump.cpp:335`); a dump into a directory with symbolic links of an earlier
     one writes through them (`:275`) or stops (`:343`).
   - zimrecreate rewrites links in pages at most one directory deep, as it says, and
     not those with a percent-encoded namespace or with `./` before it; two
     entries that differ in their namespaces only end it, or one gets lost.
   - zimwriterfs drops pages that redirect to a directory or, through a link, to
     somewhere else; takes a directory as the welcome page; refuses to write next
     to a directory whose name begins like it (`zimwriterfs.cpp:456`); and where
     `readdir()` does not tell types adds the targets of links, even from outside.

## 6. Not modelled, and why

- Printing, wording, argument parsing: no property is about them.
- libzim, ICU, docopt, Gumbo, libmagic, the JSON reader: external, modelled from
  their use or not at all. Of titles, mime types and hints only whether an item
  is HTML is kept; in `ZimUpdate` `about` stands for title and mime type.
- `zimcheck --threads` below 1: undefined behaviour (an empty list) or resource
  exhaustion; excluded by `NumStreamsAssumption`.
- `lru_cache::put`, `get`, `exists`, `size`: no caller in the programs.
- Paths of entries that begin with a slash or have empty components in the
  middle, and links with such components: the sequences of components would
  need the cases of `"/"` in `dropLastSegmentOfThePath()`.
- Entries with components `..`: zimdump's file names would leave its directory.
- Pages with several `refresh` elements or one with a fragment, inflated pages,
  unreadable files and directories, a full disk.
- zimdump `list`, `show` and `info`, and the Windows variants.
- zimbench, zimsearch, `version.h`: straight-line code around library calls.

## 7. Plan

What is left is to prove more of what the runs check:

1. `Toolchain`: the rest of `RecreateKeeps` (its links are done, `PatchedLinksLead`): the
   entries are copied one by one, with `Pages` rewritten to follow redirects by a
   recursive function.
2. `Metadata`: that what zimwriterfs accepts has no errors for zimcheck.
