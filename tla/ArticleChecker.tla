--------------------------- MODULE ArticleChecker ---------------------------
(***************************************************************************)
(* ArticleChecker of src/zimcheck/checks.cpp: worker threads check the     *)
(* entries of an archive (check(), check_item() and the checks of links)   *)
(* and collect the items by hash; when all are done, the main thread       *)
(* searches the buckets for redundant items. How entries get to workers    *)
(* is abstracted to what TaskDelivery promises: each is taken once.        *)
(*                                                                         *)
(* An entry is a record of its path and, if it is an item, of its `page`,  *)
(* its `content`, which stands for its data, and its place in the archive  *)
(* (cluster and blob number), `blob`. A message names the entry by its     *)
(* index and the links it is about by their positions in the page.         *)
(***************************************************************************)
EXTENDS Links

CONSTANTS
    Hash,           \* adler32() of each content
    Runs            \* what to check: an archive (a sequence of entries in path
                    \* order), ZimCheckOptions and the number of --threads

Items == [kind : {"item"}, ns : STRING, path : Seq(STRING), page : Seq(Elements),
          html : BOOLEAN, size : Nat, content : DOMAIN Hash, blob : Nat]
Redirects == [kind : {"redirect"}, ns : STRING, path : Seq(STRING)]

Tests == {"EMPTY", "URL_INTERNAL", "URL_EXTERNAL", "URL_EMPTY", "REDUNDANT"}

ASSUME RunsAssumption ==
    Runs \subseteq [archive : Seq(Items \cup Redirects),
                    options : [tests : SUBSET Tests, quick : BOOLEAN],
                    threads : Nat \ {0}]

ASSUME HashAssumption == Hash \in [DOMAIN Hash -> Nat]

Workers == UNION {1..run.threads : run \in Runs}

ASSUME AliasAssumption ==
    \A run \in Runs : \A e, f \in ToSet(run.archive) :
        e.kind = "item" /\ f.kind = "item" /\ e.blob = f.blob
            => e.content = f.content

VARIABLES
    archive,        \* the archive that is checked
    options,        \* enabledTests and quick
    threads,        \* the workers that have been started
    pending,        \* entries no worker has taken yet
    wpc, item,      \* per worker: where it is and the item it checks
    bucket,         \* per worker: the bucket as push_back() has read it
    toReport,       \* per worker: messages it has still to report
    hash_main,      \* the items recorded for each hash
    mpc, hashes, l, \* main thread: detect_redundant_articles()
    log, failed     \* ErrorLogger: what addMsg() was called with; testStatus

setup == <<archive, options, threads>>
workerVars == <<wpc, item, bucket, toReport>>
mainVars == <<mpc, hashes, l>>
reporter == <<log, failed>>
vars == <<setup, pending, wpc, item, bucket, toReport, hash_main,
          mpc, hashes, l, log, failed>>

NoItem == 0
Hashes == {Hash[c] : c \in DOMAIN Hash}

Entries == DOMAIN archive

IsEnabled(test) == test \in options.tests

Message(id, path, what) == [id |-> id, path |-> path, what |-> what]

\* Mutant of TestOf: a message of the table names a test that does not exist.
TestOfEntry(id) ==
    CASE id = "EMPTY_ENTRY" -> "EMPTY_ENTRY"
      [] id \in {"OUTOFBOUNDS_LINK", "ABSPATH_LINK", "DANGLING_LINKS"} -> "URL_INTERNAL"
      [] id = "EXTERNAL_LINK" -> "URL_EXTERNAL"
      [] id = "EMPTY_LINKS" -> "URL_EMPTY"
      [] id = "REDUNDANT_ITEMS" -> "REDUNDANT"

\* errormapping: the test that a message belongs to.
TestOf(id) ==
    CASE id = "EMPTY_ENTRY" -> "EMPTY"
      [] id \in {"OUTOFBOUNDS_LINK", "ABSPATH_LINK", "DANGLING_LINKS"} -> "URL_INTERNAL"
      [] id = "EXTERNAL_LINK" -> "URL_EXTERNAL"
      [] id = "EMPTY_LINKS" -> "URL_EMPTY"
      [] id = "REDUNDANT_ITEMS" -> "REDUNDANT"

TypeOK ==
    /\ options.quick \in BOOLEAN
    /\ threads \in {1..n : n \in Workers}
    /\ pending \in SUBSET Entries
    /\ wpc \in [Workers -> {"idle", "read", "write", "report"}]
    /\ item \in [Workers -> Entries \cup {NoItem}]
    /\ bucket \in [Workers -> Seq(Entries)]
    /\ hash_main \in [Hashes -> Seq(Entries)]
    /\ mpc \in {"check", "detect", "done"}
    /\ hashes \in SUBSET Hashes
    /\ l \in Seq(Entries)
    /\ failed \in SUBSET Tests

Init ==
    /\ \E run \in Runs : /\ archive = run.archive
                       /\ options = run.options
                       /\ threads = 1..run.threads
    /\ pending = Entries
    /\ wpc = [w \in Workers |-> "idle"]
    /\ item = [w \in Workers |-> NoItem]
    /\ bucket = [w \in Workers |-> <<>>]
    /\ toReport = [w \in Workers |-> <<>>]
    /\ hash_main = [h \in Hashes |-> <<>>]
    /\ mpc = "check"
    /\ hashes = {}
    /\ l = <<>>
    /\ log = EmptyBag
    /\ failed = {}

-----------------------------------------------------------------------------
(* The messages about one item, in the order in which they are reported.   *)

\* The positions of links that are in S, in order.
Positions(links, S) == Kept([n \in 1..Len(links) |-> n], S)

\* One message for each position in S.
MessageForEach(id, e, positions) ==
    [i \in DOMAIN positions |-> Message(id, e, {positions[i]})]

FirstIfQuick(msgs) ==
    IF options.quick /\ msgs # <<>> THEN <<Head(msgs)>> ELSE msgs

\* check_internal_links() goes on with links that are neither empty nor a mere
\* fragment or search component and that are not external.
Followed(links) ==
    {n \in DOMAIN links : ~IsEmptyLink(links[n].url) /\ ~StartsWithMark(links[n].url)
                             /\ IsInternalUrl(links[n].url)}

ResolvedLinks(e, links) ==
    [n \in Followed(links) |-> ResolveLinkTarget(links[n].url, archive[e].path)]

UnresolvableMessages(e, links, resolved) ==
    LET bad == Positions(links, {n \in DOMAIN resolved : resolved[n].error # "none"})
    IN  [i \in DOMAIN bad |->
            Message(IF resolved[bad[i]].error = "AbsolutePathURL"
                      THEN "ABSPATH_LINK" ELSE "OUTOFBOUNDS_LINK", e, {bad[i]})]

EmptyLinkMessages(e, links) ==
    LET empty == {n \in DOMAIN links : IsEmptyLink(links[n].url)}
    IN  IF empty = {} THEN <<>> ELSE <<Message("EMPTY_LINKS", e, empty)>>

PathsInArchive == {archive[e].path : e \in Entries}

DanglingLinks(resolved) ==
    {n \in DOMAIN resolved : resolved[n].error = "none"
                                /\ resolved[n].path \notin PathsInArchive}

\* Mutant of DanglingMessages: one message per link instead of one per target.
DanglingPerLink(e, links, resolved) ==
    FirstIfQuick(MessageForEach("DANGLING_LINKS", e,
                                Positions(links, DanglingLinks(resolved))))

\* The links are grouped by what they resolve to; --quick stops at the first
\* group that dangles. (The code visits the groups in the order of their paths,
\* which the order of their first links stands for.)
DanglingMessages(e, links, resolved) ==
    LET dangling == DanglingLinks(resolved)
        Group(m) == {n \in dangling : resolved[m].path = resolved[n].path}
        first == Positions(links, {n \in dangling : n = Min(Group(n))})
    IN  FirstIfQuick([i \in DOMAIN first |-> Message("DANGLING_LINKS", e, Group(first[i]))])

InternalLinkMessages(e, links) ==
    LET resolved == ResolvedLinks(e, links)
    IN  UnresolvableMessages(e, links, resolved) \o EmptyLinkMessages(e, links)
            \o DanglingMessages(e, links, resolved)

ExternalLinkMessages(e, links) ==
    FirstIfQuick(MessageForEach("EXTERNAL_LINK", e,
        Positions(links, {n \in DOMAIN links :
                            links[n].name = "src" /\ IsExternalUrl(links[n].url)})))

LinkMessages(e) ==
    LET links == GetLinks(archive[e].page)
    IN  IF ~archive[e].html THEN <<>>
        ELSE (IF IsEnabled("URL_INTERNAL") THEN InternalLinkMessages(e, links) ELSE <<>>)
             \o (IF IsEnabled("URL_EXTERNAL") THEN ExternalLinkMessages(e, links) ELSE <<>>)

EmptyItemMessages(e) ==
    IF IsEnabled("EMPTY") /\ archive[e].ns \in {"C", "A", "I"}
      THEN <<Message("EMPTY_ENTRY", e, {})>> ELSE <<>>

-----------------------------------------------------------------------------
(* The workers. *)

\* check() ignores redirects and metadata.
IsExamined(e) == archive[e].kind = "item" /\ archive[e].ns # "M"

Skip(w, e) ==
    /\ wpc[w] = "idle"
    /\ e \in pending
    /\ ~IsExamined(e)
    /\ pending' = pending \ {e}
    /\ UNCHANGED <<setup, workerVars, hash_main, mainVars, reporter>>

\* check_item() up to its first access to what the workers share.
CheckItem(w, e) ==
    /\ wpc[w] = "idle"
    /\ e \in pending
    /\ IsExamined(e)
    /\ pending' = pending \ {e}
    /\ item' = [item EXCEPT ![w] = e]
    /\ \/ /\ archive[e].size = 0
          /\ toReport' = [toReport EXCEPT ![w] = EmptyItemMessages(e)]
          /\ wpc' = [wpc EXCEPT ![w] = "report"]
       \/ /\ archive[e].size # 0
          /\ toReport' = [toReport EXCEPT ![w] = LinkMessages(e)]
          /\ wpc' = [wpc EXCEPT ![w] =
                       IF IsEnabled("REDUNDANT") THEN "read" ELSE "report"]
    /\ UNCHANGED <<setup, bucket, hash_main, mainVars, reporter>>

\* hash_main[adler32(data)].push_back(index), which no lock protects: what one
\* thread reads of the bucket may be old when it has written the bucket back.
ReadBucket(w) ==
    /\ wpc[w] = "read"
    /\ bucket' = [bucket EXCEPT ![w] = hash_main[Hash[archive[item[w]].content]]]
    /\ wpc' = [wpc EXCEPT ![w] = "write"]
    /\ UNCHANGED <<setup, pending, item, toReport, hash_main,
                   mainVars, reporter>>

WriteBucket(w) ==
    /\ wpc[w] = "write"
    /\ hash_main' = [hash_main EXCEPT ![Hash[archive[item[w]].content]] =
                       Append(bucket[w], item[w])]
    /\ bucket' = [bucket EXCEPT ![w] = <<>>]
    /\ wpc' = [wpc EXCEPT ![w] = "report"]
    /\ UNCHANGED <<setup, pending, item, toReport, mainVars, reporter>>

\* ErrorLogger::addMsg() under its mutex.
AddMsgs(msgs) ==
    /\ log' = log (+) SetToBag(msgs)
    /\ failed' = failed \cup {TestOf(m.id) : m \in msgs}

ReportNext(w) ==
    /\ wpc[w] = "report"
    /\ toReport[w] # <<>>
    /\ AddMsgs({Head(toReport[w])})
    /\ toReport' = [toReport EXCEPT ![w] = Tail(@)]
    /\ UNCHANGED <<setup, pending, wpc, item, bucket, hash_main, mainVars>>

EndCheck(w) ==
    /\ wpc[w] = "report"
    /\ toReport[w] = <<>>
    /\ wpc' = [wpc EXCEPT ![w] = "idle"]
    /\ item' = [item EXCEPT ![w] = NoItem]
    /\ UNCHANGED <<setup, pending, bucket, toReport, hash_main,
                   mainVars, reporter>>

-----------------------------------------------------------------------------
(* The main thread. *)

\* td.finish() has returned.
AllChecked ==
    /\ mpc = "check"
    /\ pending = {}
    /\ \A w \in threads : wpc[w] = "idle"
    /\ IF IsEnabled("REDUNDANT")
         THEN /\ mpc' = "detect"
              /\ hashes' = {h \in Hashes : hash_main[h] # <<>>}
         ELSE /\ mpc' = "done"
              /\ UNCHANGED hashes
    /\ UNCHANGED <<setup, pending, workerVars, hash_main, l, reporter>>

\* Mutant of NextBucket: the last bucket is not visited.
NextBucketButLast ==
    /\ mpc = "detect"
    /\ l = <<>>
    /\ Cardinality(hashes) > 1
    /\ l' = hash_main[Min(hashes)]
    /\ hashes' = hashes \ {Min(hashes)}
    /\ UNCHANGED <<setup, pending, workerVars, hash_main, mpc, reporter>>

\* detect_redundant_articles() visits the buckets in the order of the hashes.
NextBucket ==
    /\ mpc = "detect"
    /\ l = <<>>
    /\ hashes # {}
    /\ l' = hash_main[Min(hashes)]
    /\ hashes' = hashes \ {Min(hashes)}
    /\ UNCHANGED <<setup, pending, workerVars, hash_main, mpc, reporter>>

AreAliases(e, f) == archive[e].blob = archive[f].blob

\* Mutant of CompareWithFirst: one round per bucket.
CompareOnce ==
    /\ mpc = "detect"
    /\ l # <<>>
    /\ LET e1 == Head(l)
           Same(f) == archive[f].content = archive[e1].content
       IN  AddMsgs({Message("REDUNDANT_ITEMS", e1, {f}) :
                       f \in {g \in ToSet(Tail(l)) : ~AreAliases(e1, g) /\ Same(g)}})
    /\ l' = <<>>
    /\ UNCHANGED <<setup, pending, workerVars, hash_main, mpc, hashes>>

\* One round: the first of the list against the others; those that differ
\* from it are what the next round looks at.
CompareWithFirst ==
    /\ mpc = "detect"
    /\ l # <<>>
    /\ LET e1 == Head(l)
           others == {f \in ToSet(Tail(l)) : ~AreAliases(e1, f)}
           Same(f) == archive[f].content = archive[e1].content
       IN  /\ AddMsgs({Message("REDUNDANT_ITEMS", e1, {f}) : f \in {g \in others : Same(g)}})
           /\ l' = Kept(Tail(l), {f \in others : ~Same(f)})
    /\ UNCHANGED <<setup, pending, workerVars, hash_main, mpc, hashes>>

EndOfDetection ==
    /\ mpc = "detect"
    /\ l = <<>>
    /\ hashes = {}
    /\ mpc' = "done"
    /\ UNCHANGED <<setup, pending, workerVars, hash_main, hashes, l,
                   reporter>>

Worker(w) ==
    \/ \E e \in Entries : Skip(w, e) \/ CheckItem(w, e)
    \/ ReadBucket(w)
    \/ WriteBucket(w)
    \/ ReportNext(w)
    \/ EndCheck(w)

Main == AllChecked \/ NextBucket \/ CompareWithFirst \/ EndOfDetection

Done == mpc = "done" /\ UNCHANGED vars

Next == (\E w \in threads : Worker(w)) \/ Main \/ Done

Spec == Init /\ [][Next]_vars

\* All threads are scheduled. For the workers this is weak fairness with
\* ENABLED Worker(w) written out, which TLC need not find out in each state.
CanStep(w) == w \in threads /\ (wpc[w] = "idle" => pending # {})

FairSpec ==
    /\ Spec
    /\ WF_vars(Main)
    /\ \A w \in Workers : []<>~CanStep(w) \/ []<><<Worker(w)>>_vars

-----------------------------------------------------------------------------
(* Properties. *)

\* What the log must say of item e, from the options, the attributes of its
\* tags and what RFC 3986 makes of them.
Due(e, id) ==
    LET links == LinksOfPage(archive[e].page)
        At(n) == links[n].url
        empty == {n \in DOMAIN links : IsEmptyLink(At(n))}
        remote == {n \in DOMAIN links : At(n).scheme # "" \/ At(n).authority}
        inside == {n \in DOMAIN links \ remote : At(n).path # EmptyPath}
        absolute == {n \in inside : Head(At(n).path) = ""}
        outside == {n \in inside \ absolute : LeadsOutside(At(n), archive[e].path)}
        targets == {[link |-> n, path |-> Target(At(n), archive[e].path)] :
                        n \in inside \ (absolute \cup outside)}
        dangling == {t \in targets : t.path \notin PathsInArchive}
        groups == {{t.link : t \in {d \in dangling : d.path = path}} :
                        path \in {t.path : t \in dangling}}
        external == {n \in remote : /\ links[n].name = "src"
                                    /\ At(n).scheme # "data" \/ At(n).authority}
        html == archive[e].size # 0 /\ archive[e].html
    IN  CASE id = "EMPTY_ENTRY" ->
               IF /\ archive[e].size = 0 /\ archive[e].ns \in {"C", "A", "I"}
                  /\ IsEnabled("EMPTY") THEN {{}} ELSE {}
          [] id = "EXTERNAL_LINK" ->
               IF html /\ IsEnabled("URL_EXTERNAL") THEN {{n} : n \in external} ELSE {}
          [] id \notin {"EMPTY_ENTRY", "EXTERNAL_LINK"} ->
               IF ~html \/ ~IsEnabled("URL_INTERNAL") THEN {}
               ELSE CASE id = "ABSPATH_LINK" -> {{n} : n \in absolute}
                      [] id = "OUTOFBOUNDS_LINK" -> {{n} : n \in outside}
                      [] id = "DANGLING_LINKS" -> groups
                      [] id = "EMPTY_LINKS" -> {empty} \ {{}}

ItemMessageIds == {"EMPTY_ENTRY", "ABSPATH_LINK", "OUTOFBOUNDS_LINK", "EMPTY_LINKS",
                   "DANGLING_LINKS", "EXTERNAL_LINK"}

\* The pages, links and paths of the items are proper ones.
ProperItem(x) ==
    /\ x.page \in Seq(ProperElements)
    /\ x.path \in ProperPaths
    /\ \A n \in DOMAIN LinksOfPage(x.page) : LinksOfPage(x.page)[n].url \in ProperUrls

ProperRuns ==
    \A run \in Runs : \A x \in ToSet(run.archive) : x.kind = "item" => ProperItem(x)

\* However many workers there are and in whatever order they come to report,
\* each item's messages are in the log, once, and nothing else: check_item()
\* sees the links of the page and only these, and judges each of them as RFC
\* 3986 resolves it. With --quick there is at least one message of each kind
\* that is due, and of those kinds that --quick cuts short only one. (For the
\* other two see QuickReportsOnce.)
MessagesExact ==
    mpc # "check" =>
        /\ \A m \in BagToSet(log) : log[m] = 1
        /\ \A e \in Entries, id \in ItemMessageIds :
             LET due == IF IsExamined(e) THEN Due(e, id) ELSE {}
                 reported == {m.what : m \in {x \in BagToSet(log) : x.path = e /\ x.id = id}}
             IN  /\ ~options.quick => reported = due
                 /\ options.quick =>
                      /\ reported \subseteq due
                      /\ due # {} => reported # {}
                      /\ id \notin {"ABSPATH_LINK", "OUTOFBOUNDS_LINK"}
                           => Cardinality(reported) <= 1

\* "Report at most one error of each type per ZIM entry" (the usage text on
\* --quick): no two messages of a kind about one item. The search for redundant
\* items, which is about pairs of items, is left out.
QuickReportsOnce ==
    options.quick =>
        \A m, n \in BagToSet(log) :
            m.id \in ItemMessageIds /\ m.id = n.id /\ m.path = n.path => m = n

IsHashed(e) == IsExamined(e) /\ archive[e].size # 0

Redundant(e, f) == Message("REDUNDANT_ITEMS", e, {f}) \in BagToSet(log)

\* With one worker, what the search reports is right (the same content, twice
\* in the archive, and never twice reported) and leaves nothing out: items of
\* the same content are all connected with one of them, by being its alias or
\* by a report.
RedundancyExact ==
    mpc = "done" /\ IsEnabled("REDUNDANT") /\ Cardinality(threads) = 1 =>
        /\ \A m \in BagToSet(log) : m.id = "REDUNDANT_ITEMS" =>
             \A f \in m.what :
                 archive[m.path].content = archive[f].content /\ ~AreAliases(m.path, f)
        /\ \A c \in DOMAIN Hash :
             LET same == {e \in Entries : IsHashed(e) /\ archive[e].content = c}
             IN  same # {} =>
                 \E r \in same : \A e \in same : AreAliases(r, e) \/ Redundant(r, e)

\* "All article with the same hash will be recorded in the same bucket of this
\* hash table" (the comment on hash_main).
AllInBucket ==
    mpc # "check" /\ IsEnabled("REDUNDANT") =>
        \A e \in Entries : IsHashed(e) =>
            e \in ToSet(hash_main[Hash[archive[e].content]])

\* The checking and the search for redundant items come to an end.
Termination == <>(mpc = "done")

=============================================================================
