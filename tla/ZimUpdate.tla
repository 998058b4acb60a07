------------------------------ MODULE ZimUpdate ------------------------------
(***************************************************************************)
(* Incremental updates with src/zimdiff.cpp and src/zimpatch.cpp. A        *)
(* publisher releases versions of an archive and makes diff files between  *)
(* them; a client holds one archive and applies diff files to it, in any   *)
(* order.                                                                  *)
(*                                                                         *)
(* An archive is a record of its UID (a sequence of bytes), its entries    *)
(* and the path of its main page. `data` and `about` are an item's data    *)
(* and its title and mime type; for a redirect `about` is its title.       *)
(***************************************************************************)
EXTENDS Integers, Sequences, Creator

CONSTANTS
    Histories,      \* sequences of archives that may be released
    OtherMetadata   \* metadata that diff files have from elsewhere

NoMain == "no_main_page"

PathsOf(archive) == DOMAIN archive.entries

IsEntry(entry) ==
    entry = IF IsRedirect(entry)
              THEN [kind |-> "redirect", to |-> entry.to, about |-> entry.about]
              ELSE [kind |-> "item", data |-> entry.data, about |-> entry.about]

IsArchive(archive) ==
    /\ archive = [uid |-> archive.uid, entries |-> archive.entries, main |-> archive.main]
    /\ archive.uid \in [DOMAIN archive.uid -> 0..255]
    /\ archive.entries = [p \in PathsOf(archive) |-> archive.entries[p]]
    /\ \A p \in PathsOf(archive) : IsEntry(archive.entries[p])

\* Every archive has a UID of its own, no redirect to what it does not have, and
\* as its main page nothing or one of its entries.
ASSUME HistoriesAssumption ==
    \A history \in Histories :
        /\ 1 \in DOMAIN history
        /\ \A i \in DOMAIN history : IsArchive(history[i])
        /\ \A i, j \in DOMAIN history : history[i].uid = history[j].uid => i = j
        /\ \A i \in DOMAIN history :
             /\ Finished(history[i].entries) = history[i].entries
             /\ history[i].main \in DOMAIN history[i].entries \cup {NoMain}

VARIABLES
    releases,   \* the archives that are released
    diffs,      \* the pairs of releases between which there is a diff file
    client,     \* the client's archive
    outcome     \* what the last call of zimpatch came to

vars == <<releases, diffs, client, outcome>>

-----------------------------------------------------------------------------
(* zimdiff *)

\* A byte as the number that a signed char is written as.
NumberOf(byte) == IF byte < 128 THEN byte ELSE byte - 256

\* Mutant of DeletedPaths: the two archives are taken for each other.
AddedPaths(start, end) == PathsOf(end) \ PathsOf(start)

DeletedPaths(start, end) == PathsOf(start) \ PathsOf(end)

\* Items with other data; what is a redirect in one of them is left out.
IsChanged(old, new) ==
    ~IsRedirect(old) /\ ~IsRedirect(new) /\ old.data # new.data

\* Mutant of DiffEntries: new entries only.
NewEntries(start, end) == Restrict(end.entries, AddedPaths(start, end))

DiffEntries(start, end) ==
    Restrict(end.entries, {p \in PathsOf(end) :
        p \in PathsOf(start) => IsChanged(start.entries[p], end.entries[p])})

\* zimdiff adds the first five entries under M/ and no other; there is no
\* OtherMetadata in a diff file that it writes.
DiffOf(start, end) ==
    [metadata |-> {"dlist", "redirectlist", "startfileuid", "endfileuid", "mainaurl"}
                    \cup OtherMetadata,
     dlist |-> DeletedPaths(start, end),
     redirectlist |-> [p \in {q \in PathsOf(end) : IsRedirect(end.entries[q])} |->
                        end.entries[p].to],
     startfileuid |-> [n \in DOMAIN start.uid |-> NumberOf(start.uid[n])],
     endfileuid |-> [n \in DOMAIN end.uid |-> NumberOf(end.uid[n])],
     mainaurl |-> end.main,
     entries |-> Finished(DiffEntries(start, end))]

-----------------------------------------------------------------------------
(* zimpatch *)

\* Mutant of UidOf: the bytes are kept as the numbers they are written as.
UidOfNumbers(numbers) == numbers

\* (char) atoi(...)
UidOf(numbers) == [n \in DOMAIN numbers |-> numbers[n] % 256]

CheckDiffFile(start, diff) ==
    /\ {"dlist", "startfileuid", "endfileuid", "mainaurl", "layoutaurl",
        "redirectlist"} \subseteq diff.metadata
    /\ UidOf(diff.startfileuid) = start.uid

\* Mutant of PatchedEntry: what is in the diff file comes first.
PatchedEntryDiffFirst(start, diff, p) ==
    CASE p \in DOMAIN diff.entries -> diff.entries[p]
      [] p \in PathsOf(start) \ DOMAIN diff.entries -> start.entries[p]

\* The entry is the one of the diff file, if there is one, and a redirect if
\* the list of redirects says so.
PatchedEntry(start, diff, p) ==
    LET entry == IF p \in DOMAIN diff.entries THEN diff.entries[p] ELSE start.entries[p]
    IN  IF p \in DOMAIN diff.redirectlist
          THEN [kind |-> "redirect", to |-> diff.redirectlist[p], about |-> entry.about]
          ELSE entry

Patched(start, diff) ==
    LET entries == Finished([p \in (PathsOf(start) \ diff.dlist) \cup DOMAIN diff.entries |->
                                PatchedEntry(start, diff, p)])
    IN  [uid |-> UidOf(diff.endfileuid),
         entries |-> entries,
         main |-> IF diff.mainaurl \in DOMAIN entries THEN diff.mainaurl ELSE NoMain]

-----------------------------------------------------------------------------

TypeOK ==
    /\ diffs \subseteq (DOMAIN releases) \X (DOMAIN releases)
    /\ IsArchive(client)
    /\ outcome \in {"none", "patched", "refused", "exception"}

Init ==
    /\ releases \in Histories
    /\ diffs = {}
    /\ client = releases[1]
    /\ outcome = "none"

ZimDiff(i, j) ==
    /\ <<i, j>> \notin diffs
    /\ diffs' = diffs \cup {<<i, j>>}
    /\ UNCHANGED <<releases, client, outcome>>

\* The client replaces its archive by what zimpatch has written. The exit
\* status is 0 in any case.
ZimPatch(i, j) ==
    LET diff == DiffOf(releases[i], releases[j])
    IN  /\ <<i, j>> \in diffs
        /\ \/ /\ ~CheckDiffFile(client, diff)
              /\ outcome' = "refused"
              /\ UNCHANGED client
           \/ /\ CheckDiffFile(client, diff)
              /\ ~diff.dlist \subseteq PathsOf(client)
              /\ outcome' = "exception"
              /\ UNCHANGED client
           \/ /\ CheckDiffFile(client, diff)
              /\ diff.dlist \subseteq PathsOf(client)
              /\ outcome' = "patched"
              /\ client' = Patched(client, diff)
        /\ UNCHANGED <<releases, diffs>>

\* Diff files lead from a release to a later one.
Next == \E i, j \in DOMAIN releases : i < j /\ (ZimDiff(i, j) \/ ZimPatch(i, j))

Spec == Init /\ [][Next]_vars

-----------------------------------------------------------------------------
(* Properties. *)

\* What does not make it from `start` to `end`: a redirect that becomes an item
\* ("FIXME Handle redirection", zimdiff.cpp), another title or mime type of what
\* is otherwise the same, and a new redirect to an entry that the diff file need
\* not have, for then the diff file does not have the redirect either.
IsLost(start, end, p) ==
    LET new == end.entries[p]
        old == start.entries[p]
    IN  /\ p \in PathsOf(end)
        /\ IF p \in PathsOf(start)
             THEN IF IsRedirect(new) THEN new.about # old.about
                  ELSE IsRedirect(old) \/ (new.data = old.data /\ new.about # old.about)
             ELSE IsRedirect(new) /\ new.to \notin DOMAIN DiffOf(start, end).entries

Lossless(start, end) == \A p \in PathsOf(end) : ~IsLost(start, end, p)

\* Whatever diff files the client is given, in whatever order, it has one of the
\* released archives, to the last entry and the main page, as long as nothing is
\* lost between any two releases. (What zimdiff and zimpatch are for.)
HasARelease ==
    (\A i, j \in DOMAIN releases : i < j => Lossless(releases[i], releases[j]))
        => \E i \in DOMAIN releases : client = releases[i]

Same(archive1, archive2, p) ==
    \/ p \notin PathsOf(archive1) \cup PathsOf(archive2)
    \/ /\ p \in PathsOf(archive1) \cap PathsOf(archive2)
       /\ archive1.entries[p] = archive2.entries[p]

\* What is lost stays local: where the client's archive is the one the diff file
\* starts from and nothing is lost, the patched archive is the one it leads to.
\* A redirect needs this of its target, too.
LossIsLocal ==
    [][\A i, j \in DOMAIN releases :
        ZimPatch(i, j) /\ outcome' = "patched" =>
            LET start == releases[i]
                end == releases[j]
                Carried(p) == Same(client, start, p) /\ ~IsLost(start, end, p)
                Target(p) == IF p \in PathsOf(end) /\ IsRedirect(end.entries[p])
                               THEN end.entries[p].to ELSE p
            IN  \A p \in UNION {PathsOf(client), PathsOf(start), PathsOf(end)} :
                    Carried(p) /\ Carried(Target(p)) =>
                        /\ Same(client', end, p)
                        /\ end.main = p => client'.main = p]_vars

\* The client's archive has the identity of one release, whatever was applied to
\* it, and of all diff files those that start from this release, and only those,
\* are for it: neither can the UID be taken for another, nor is an entry to be
\* deleted that the client does not have, unless it has lost one.
OwnDiffsFit ==
    \E k \in DOMAIN releases :
        /\ client.uid = releases[k].uid
        /\ \A i, j \in DOMAIN releases : <<i, j>> \in diffs =>
             LET diff == DiffOf(releases[i], releases[j])
             IN  /\ UidOf(diff.startfileuid) = client.uid <=> i = k
                 /\ i = k /\ PathsOf(client) = PathsOf(releases[k])
                      => diff.dlist \subseteq PathsOf(client)

\* A diff file that zimdiff made from the client's version can be applied:
\* "zimpatch computes the end_file using a start_file and a diff_file (made by
\* zimdiff)". It needs a client that has not lost an entry.
OwnDiffApplies ==
    [][\A i, j \in DOMAIN releases :
        ZimPatch(i, j) /\ client.uid = releases[i].uid
            /\ PathsOf(client) = PathsOf(releases[i])
        => outcome' = "patched"]_vars
=============================================================================
