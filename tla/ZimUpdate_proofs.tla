-------------------------- MODULE ZimUpdate_proofs --------------------------
(***************************************************************************)
(* What zimpatch makes of a diff file of zimdiff, proved for all archives, *)
(* any number of releases and any order in which a client applies diffs.   *)
(***************************************************************************)
EXTENDS ZimUpdate, TLAPS

-----------------------------------------------------------------------------
(* Functions and entries. *)

LEMMA FinishedDomain ==
    ASSUME NEW entries
    PROVE  /\ DOMAIN Finished(entries) \subseteq DOMAIN entries
           /\ \A p \in DOMAIN entries :
                p \in DOMAIN Finished(entries) <=>
                    (IsRedirect(entries[p]) => entries[p].to \in DOMAIN entries)
           /\ \A p \in DOMAIN Finished(entries) : Finished(entries)[p] = entries[p]
BY Zenon DEF Finished, Restrict

\* An archive without redirects to what it does not have, with a main page of
\* its own.
Complete(archive) ==
    /\ IsArchive(archive)
    /\ Finished(archive.entries) = archive.entries
    /\ archive.main \in PathsOf(archive) \cup {NoMain}

LEMMA TargetsOf ==
    ASSUME NEW archive, Complete(archive), NEW p \in PathsOf(archive),
           IsRedirect(archive.entries[p])
    PROVE  archive.entries[p].to \in PathsOf(archive)
BY FinishedDomain, Zenon DEF Complete, PathsOf

\* Two entries of a kind are the same if what there is of such an entry is.
LEMMA SameEntry ==
    ASSUME NEW e, NEW f, IsEntry(e), IsEntry(f), e.about = f.about
    PROVE  /\ IsRedirect(e) /\ IsRedirect(f) /\ e.to = f.to => e = f
           /\ ~IsRedirect(e) /\ ~IsRedirect(f) /\ e.data = f.data => e = f
<1>1. ASSUME IsRedirect(e), IsRedirect(f), e.to = f.to PROVE e = f
  <2>1. e = [kind |-> "redirect", to |-> e.to, about |-> e.about]
    BY <1>1, Zenon DEF IsEntry
  <2>2. f = [kind |-> "redirect", to |-> f.to, about |-> f.about]
    BY <1>1, Zenon DEF IsEntry
  <2> QED  BY <1>1, <2>1, <2>2, Zenon
<1>2. ASSUME ~IsRedirect(e), ~IsRedirect(f), e.data = f.data PROVE e = f
  <2>1. e = [kind |-> "item", data |-> e.data, about |-> e.about]
    BY <1>2, Zenon DEF IsEntry
  <2>2. f = [kind |-> "item", data |-> f.data, about |-> f.about]
    BY <1>2, Zenon DEF IsEntry
  <2> QED  BY <1>2, <2>1, <2>2, Zenon
<1> QED  BY <1>1, <1>2

-----------------------------------------------------------------------------
(* UIDs *)

\* A byte survives being written as a signed number and cast back.
LEMMA ByteKept ==
    ASSUME NEW byte \in 0..255
    PROVE  NumberOf(byte) \in Int /\ NumberOf(byte) % 256 = byte
BY DEF NumberOf

LEMMA UidKept ==
    ASSUME NEW archive, IsArchive(archive)
    PROVE  UidOf([n \in DOMAIN archive.uid |-> NumberOf(archive.uid[n])]) = archive.uid
<1> DEFINE numbers == [n \in DOMAIN archive.uid |-> NumberOf(archive.uid[n])]
<1>1. archive.uid \in [DOMAIN archive.uid -> 0..255]
  BY DEF IsArchive
<1>2. UidOf(numbers) = [n \in DOMAIN archive.uid |-> numbers[n] % 256]
  BY DEF UidOf
<1>3. \A n \in DOMAIN archive.uid : numbers[n] % 256 = archive.uid[n]
  <2> SUFFICES ASSUME NEW n \in DOMAIN archive.uid PROVE numbers[n] % 256 = archive.uid[n]
    OBVIOUS
  <2>1. archive.uid[n] \in 0..255
    BY <1>1
  <2>2. numbers[n] = NumberOf(archive.uid[n])
    OBVIOUS
  <2> QED  BY <2>1, <2>2, ByteKept
<1>4. archive.uid = [n \in DOMAIN archive.uid |-> archive.uid[n]]
  BY <1>1
<1> HIDE DEF numbers
<1>5. [n \in DOMAIN archive.uid |-> numbers[n] % 256] =
          [n \in DOMAIN archive.uid |-> archive.uid[n]]
  BY <1>3
<1>6. UidOf(numbers) = archive.uid
  BY <1>2, <1>4, <1>5
<1> QED  BY <1>6 DEF numbers

\* The diff file tells which archive it starts from and which it leads to.
LEMMA UidsOfDiff ==
    ASSUME NEW start, NEW end, IsArchive(start), IsArchive(end)
    PROVE  /\ UidOf(DiffOf(start, end).startfileuid) = start.uid
           /\ UidOf(DiffOf(start, end).endfileuid) = end.uid
BY UidKept, Zenon DEF DiffOf

-----------------------------------------------------------------------------
(* Entries *)

\* What zimpatch adds before the archive is finished, and under which paths.
KeptPaths(old, diff) == (PathsOf(old) \ diff.dlist) \cup DOMAIN diff.entries

Collected(old, diff) == [p \in KeptPaths(old, diff) |-> PatchedEntry(old, diff, p)]

\* The part of a diff file that one entry is in.
LEMMA DiffAt ==
    ASSUME NEW start, NEW end, Complete(end), NEW p
    PROVE  LET diff == DiffOf(start, end)
           IN  /\ p \in diff.dlist <=> p \in PathsOf(start) /\ p \notin PathsOf(end)
               /\ p \in DOMAIN diff.redirectlist <=>
                    p \in PathsOf(end) /\ IsRedirect(end.entries[p])
               /\ p \in DOMAIN diff.redirectlist =>
                    diff.redirectlist[p] = end.entries[p].to
               /\ p \in DOMAIN diff.entries <=>
                    /\ p \in PathsOf(end)
                    /\ p \in PathsOf(start) => IsChanged(start.entries[p], end.entries[p])
                    /\ IsRedirect(end.entries[p]) =>
                         end.entries[p].to \in DOMAIN DiffEntries(start, end)
               /\ p \in DOMAIN diff.entries => diff.entries[p] = end.entries[p]
               /\ DOMAIN diff.entries \subseteq DOMAIN DiffEntries(start, end)
<1> DEFINE diff == DiffOf(start, end)
           all == DiffEntries(start, end)
<1>1. /\ p \in diff.dlist <=> p \in PathsOf(start) /\ p \notin PathsOf(end)
      /\ diff.redirectlist = [q \in {r \in PathsOf(end) : IsRedirect(end.entries[r])} |->
                                end.entries[q].to]
      /\ diff.entries = Finished(all)
  BY DEF DiffOf, DeletedPaths
<1>2. /\ p \in DOMAIN all <=>
           /\ p \in PathsOf(end)
           /\ p \in PathsOf(start) => IsChanged(start.entries[p], end.entries[p])
      /\ p \in DOMAIN all => all[p] = end.entries[p]
  BY Zenon DEF DiffEntries, Restrict
<1>3. /\ p \in DOMAIN diff.redirectlist <=>
           p \in PathsOf(end) /\ IsRedirect(end.entries[p])
      /\ p \in DOMAIN diff.redirectlist => diff.redirectlist[p] = end.entries[p].to
  BY <1>1, Zenon
<1>4. /\ DOMAIN Finished(all) \subseteq DOMAIN all
      /\ p \in DOMAIN all => (p \in DOMAIN Finished(all) <=>
                                (IsRedirect(all[p]) => all[p].to \in DOMAIN all))
      /\ p \in DOMAIN Finished(all) => Finished(all)[p] = all[p]
  BY FinishedDomain, Zenon
<1> HIDE DEF diff, all
<1>5. /\ p \in DOMAIN diff.entries <=>
           /\ p \in PathsOf(end)
           /\ p \in PathsOf(start) => IsChanged(start.entries[p], end.entries[p])
           /\ IsRedirect(end.entries[p]) => end.entries[p].to \in DOMAIN all
      /\ p \in DOMAIN diff.entries => diff.entries[p] = end.entries[p]
  BY <1>1, <1>2, <1>4, Zenon
<1> QED  BY <1>1, <1>3, <1>4, <1>5, Zenon DEF diff, all

\* What an entry redirects to is carried over.
TargetCarried(old, start, end, p) ==
    p \in PathsOf(end) /\ IsRedirect(end.entries[p]) =>
        /\ Same(old, start, end.entries[p].to)
        /\ ~IsLost(start, end, end.entries[p].to)

\* An entry that is where the diff file starts from, and that is not lost, is
\* collected if it is in the end archive, and is then the same as there.
LEMMA CarriedIsCollected ==
    ASSUME NEW old, NEW start, NEW end,
           IsArchive(old), Complete(start), Complete(end),
           NEW p, Same(old, start, p), ~IsLost(start, end, p)
    PROVE  /\ p \in KeptPaths(old, DiffOf(start, end)) <=> p \in PathsOf(end)
           /\ p \in PathsOf(end) =>
                PatchedEntry(old, DiffOf(start, end), p) = end.entries[p]
<1> DEFINE diff == DiffOf(start, end)
           new == end.entries[p]
           was == start.entries[p]
           entry == IF p \in DOMAIN diff.entries THEN diff.entries[p] ELSE old.entries[p]
<1>1. /\ p \in diff.dlist <=> p \in PathsOf(start) /\ p \notin PathsOf(end)
      /\ p \in DOMAIN diff.redirectlist <=> p \in PathsOf(end) /\ IsRedirect(new)
      /\ p \in DOMAIN diff.redirectlist => diff.redirectlist[p] = new.to
      /\ p \in DOMAIN diff.entries <=>
           /\ p \in PathsOf(end)
           /\ p \in PathsOf(start) => IsChanged(was, new)
           /\ IsRedirect(new) => new.to \in DOMAIN DiffEntries(start, end)
      /\ p \in DOMAIN diff.entries => diff.entries[p] = new
      /\ DOMAIN diff.entries \subseteq DOMAIN DiffEntries(start, end)
  BY DiffAt, Zenon
<1>2. p \in KeptPaths(old, diff) <=>
          (p \in PathsOf(old) /\ p \notin diff.dlist) \/ p \in DOMAIN diff.entries
  BY Zenon DEF KeptPaths
<1>3. PatchedEntry(old, diff, p) =
          IF p \in DOMAIN diff.redirectlist
            THEN [kind |-> "redirect", to |-> diff.redirectlist[p], about |-> entry.about]
            ELSE entry
  BY DEF PatchedEntry
<1>4. /\ p \in PathsOf(end) => IsEntry(new)
      /\ p \in PathsOf(start) => IsEntry(was)
  BY Zenon DEF Complete, IsArchive
<1>5. p \in PathsOf(old) <=> p \in PathsOf(start)
  BY Zenon DEF Same
<1>6. p \in PathsOf(old) => old.entries[p] = was
  BY Zenon DEF Same
<1> HIDE DEF diff, new, was
<1>7. CASE p \notin PathsOf(end)
  BY <1>1, <1>2, <1>5, <1>7, Zenon DEF diff
<1>8. CASE p \in PathsOf(end) /\ p \in PathsOf(start)
  <2>1. p \in KeptPaths(old, diff)
    BY <1>1, <1>2, <1>5, <1>8, Zenon
  <2>2. IF IsRedirect(new) THEN new.about = was.about
        ELSE ~IsRedirect(was) /\ (new.data = was.data => new.about = was.about)
    BY <1>8, Zenon DEF IsLost, new, was
  <2>3. CASE IsRedirect(new)
    <3>1. p \notin DOMAIN diff.entries
      BY <1>1, <1>8, <2>3, Zenon DEF IsChanged
    <3>2. entry = was
      BY <1>5, <1>6, <1>8, <3>1, Zenon
    <3>3. PatchedEntry(old, diff, p) =
              [kind |-> "redirect", to |-> new.to, about |-> new.about]
      BY <1>1, <1>3, <1>8, <2>2, <2>3, <3>2, Zenon
    <3> QED  BY <1>4, <1>8, <2>1, <2>3, <3>3, Zenon DEF IsEntry, diff, new
  <2>4. CASE ~IsRedirect(new) /\ new.data # was.data
    <3>1. p \in DOMAIN diff.entries
      BY <1>1, <1>8, <2>2, <2>4, Zenon DEF IsChanged
    <3> QED  BY <1>1, <1>3, <2>1, <1>8, <2>4, <3>1, Zenon DEF diff, new
  <2>5. CASE ~IsRedirect(new) /\ new.data = was.data
    <3>1. p \notin DOMAIN diff.entries
      BY <1>1, <1>8, <2>5, Zenon DEF IsChanged
    <3>2. was = new
      BY <1>4, <1>8, <2>2, <2>5, SameEntry, Zenon
    <3> QED  BY <1>1, <1>3, <1>5, <1>6, <1>8, <2>1, <2>5, <3>1, <3>2, Zenon DEF diff, new
  <2> QED  BY <2>3, <2>4, <2>5
<1>9. CASE p \in PathsOf(end) /\ p \notin PathsOf(start)
  <2>1. IsRedirect(new) => new.to \in DOMAIN diff.entries
    BY <1>9, Zenon DEF IsLost, new, diff
  <2>2. p \in DOMAIN diff.entries
    BY <1>1, <1>9, <2>1, Zenon
  <2>3. entry = new
    BY <1>1, <2>2, Zenon
  <2>4. PatchedEntry(old, diff, p) = new
    BY <1>1, <1>3, <1>4, <1>9, <2>3, Zenon DEF IsEntry
  <2> QED  BY <1>2, <1>9, <2>2, <2>4, Zenon DEF diff, new
<1> QED  BY <1>7, <1>8, <1>9

\* ... and is then in the patched archive as well, if what it redirects to is
\* carried over.
LEMMA CarriedIsPatched ==
    ASSUME NEW old, NEW start, NEW end,
           IsArchive(old), Complete(start), Complete(end),
           NEW p, Same(old, start, p), ~IsLost(start, end, p),
           TargetCarried(old, start, end, p)
    PROVE  LET patched == Patched(old, DiffOf(start, end))
           IN  /\ p \in PathsOf(patched) <=> p \in PathsOf(end)
               /\ p \in PathsOf(end) => patched.entries[p] = end.entries[p]
<1> DEFINE diff == DiffOf(start, end)
           patched == Patched(old, diff)
           all == Collected(old, diff)
<1>1. patched.entries = Finished(all)
  BY DEF Patched, Collected, KeptPaths
<1>2. /\ DOMAIN all = KeptPaths(old, diff)
      /\ p \in DOMAIN all => all[p] = PatchedEntry(old, diff, p)
  BY DEF Collected
<1>3. /\ p \in DOMAIN all <=> p \in PathsOf(end)
      /\ p \in PathsOf(end) => all[p] = end.entries[p]
  <2>1. /\ p \in KeptPaths(old, diff) <=> p \in PathsOf(end)
        /\ p \in PathsOf(end) => PatchedEntry(old, diff, p) = end.entries[p]
    BY CarriedIsCollected, SMT
  <2> HIDE DEF diff, all
  <2> QED  BY <1>2, <2>1
<1>4. /\ DOMAIN Finished(all) \subseteq DOMAIN all
      /\ p \in DOMAIN all => (p \in DOMAIN Finished(all) <=>
                                (IsRedirect(all[p]) => all[p].to \in DOMAIN all))
      /\ p \in DOMAIN Finished(all) => Finished(all)[p] = all[p]
  BY FinishedDomain, Zenon
<1>5. ASSUME p \in PathsOf(end), IsRedirect(end.entries[p])
      PROVE  end.entries[p].to \in DOMAIN all
  <2> DEFINE q == end.entries[p].to
  <2>1. q \in PathsOf(end)
    BY <1>5, TargetsOf, Zenon
  <2>2. Same(old, start, q) /\ ~IsLost(start, end, q)
    BY <1>5 DEF TargetCarried
  <2> HIDE DEF q
  <2>3. q \in KeptPaths(old, diff) <=> q \in PathsOf(end)
    BY <2>2, CarriedIsCollected, Zenon
  <2> QED  BY <1>2, <2>1, <2>3 DEF q
<1>6. p \in DOMAIN Finished(all) <=> p \in PathsOf(end)
  BY <1>3, <1>4, <1>5, Zenon
<1>7. p \in PathsOf(end) => Finished(all)[p] = end.entries[p]
  BY <1>3, <1>4, <1>6, Zenon
<1> QED  BY <1>1, <1>6, <1>7, Zenon DEF PathsOf

\* A main page that is carried over is the main page of the patched archive.
LEMMA MainIsPatched ==
    ASSUME NEW old, NEW start, NEW end, Complete(end),
           end.main \in PathsOf(Patched(old, DiffOf(start, end))) <=>
               end.main \in PathsOf(end)
    PROVE  Patched(old, DiffOf(start, end)).main = end.main
<1> DEFINE diff == DiffOf(start, end)
           patched == Patched(old, diff)
<1>1. diff.mainaurl = end.main
  BY DEF DiffOf
<1>2. patched.main = IF diff.mainaurl \in DOMAIN patched.entries THEN diff.mainaurl ELSE NoMain
  BY DEF Patched
<1> HIDE DEF diff
<1>3. patched.main = IF end.main \in PathsOf(end) THEN end.main ELSE NoMain
  BY <1>1, <1>2, Zenon DEF PathsOf, diff
<1>4. end.main \in PathsOf(end) \/ end.main = NoMain
  BY DEF Complete
<1> QED  BY <1>3, <1>4, Zenon DEF diff

-----------------------------------------------------------------------------
(* What zimpatch writes is an archive. *)

LEMMA PatchedIsArchive ==
    ASSUME NEW old, NEW start, NEW end,
           IsArchive(old), Complete(start), Complete(end)
    PROVE  IsArchive(Patched(old, DiffOf(start, end)))
<1> DEFINE diff == DiffOf(start, end)
           patched == Patched(old, diff)
           all == Collected(old, diff)
<1>1. /\ patched = [uid |-> UidOf(diff.endfileuid), entries |-> Finished(all),
                    main |-> patched.main]
      /\ patched.uid = UidOf(diff.endfileuid) /\ patched.entries = Finished(all)
  BY DEF Patched, Collected, KeptPaths
<1>2. patched.uid \in [DOMAIN patched.uid -> 0..255]
  <2>1. patched.uid = end.uid
    BY <1>1, UidsOfDiff, Zenon DEF Complete
  <2>2. end.uid \in [DOMAIN end.uid -> 0..255]
    BY DEF Complete, IsArchive
  <2> QED  BY <2>1, <2>2, Zenon
<1>3. Finished(all) = [p \in DOMAIN Finished(all) |-> Finished(all)[p]]
  BY Zenon DEF Finished, Restrict
<1>4. ASSUME NEW p \in DOMAIN Finished(all) PROVE IsEntry(Finished(all)[p])
  <2> DEFINE entry == IF p \in DOMAIN diff.entries THEN diff.entries[p] ELSE old.entries[p]
  <2>1. /\ p \in KeptPaths(old, diff)
        /\ Finished(all)[p] = PatchedEntry(old, diff, p)
    <3>1. p \in DOMAIN all /\ Finished(all)[p] = all[p]
      BY <1>4, FinishedDomain, Zenon
    <3>2. DOMAIN all = KeptPaths(old, diff)
      BY DEF Collected
    <3>3. p \in DOMAIN all => all[p] = PatchedEntry(old, diff, p)
      BY <3>2 DEF Collected
    <3> QED  BY <3>1, <3>2, <3>3, Zenon
  <2>2. PatchedEntry(old, diff, p) =
          IF p \in DOMAIN diff.redirectlist
            THEN [kind |-> "redirect", to |-> diff.redirectlist[p], about |-> entry.about]
            ELSE entry
    BY DEF PatchedEntry
  <2>3. CASE p \in DOMAIN diff.redirectlist
    <3> DEFINE e == [kind |-> "redirect", to |-> diff.redirectlist[p],
                     about |-> entry.about]
    <3>1. e.kind = "redirect" /\ e.to = diff.redirectlist[p] /\ e.about = entry.about
      OBVIOUS
    <3>2. IsEntry(e)
      BY <3>1, Zenon DEF IsEntry, IsRedirect
    <3> QED  BY <2>1, <2>2, <2>3, <3>2, Zenon
  <2>4. CASE p \notin DOMAIN diff.redirectlist
    <3>1. CASE p \in DOMAIN diff.entries
      <4>1. p \in PathsOf(end) /\ diff.entries[p] = end.entries[p]
        BY <3>1, DiffAt, Zenon
      <4> QED  BY <2>1, <2>2, <2>4, <3>1, <4>1, Zenon DEF Complete, IsArchive
    <3>2. CASE p \notin DOMAIN diff.entries
      <4>1. p \in PathsOf(old)
        BY <2>1, <3>2, Zenon DEF KeptPaths
      <4> QED  BY <2>1, <2>2, <2>4, <3>2, <4>1, Zenon DEF IsArchive
    <3> QED  BY <3>1, <3>2
  <2> QED  BY <2>3, <2>4
<1> QED  BY <1>1, <1>2, <1>3, <1>4, Zenon DEF IsArchive, PathsOf

-----------------------------------------------------------------------------
(* The releases, and the archive the client has. *)

ReleasesInv == releases \in Histories /\ TypeOK

LEMMA ReleaseIsComplete ==
    ASSUME releases \in Histories, NEW i \in DOMAIN releases
    PROVE  Complete(releases[i])
BY HistoriesAssumption, Zenon DEF Complete, PathsOf

LEMMA UidsDiffer ==
    ASSUME releases \in Histories, NEW i \in DOMAIN releases, NEW j \in DOMAIN releases,
           releases[i].uid = releases[j].uid
    PROVE  i = j
BY HistoriesAssumption, Zenon

\* A call of zimpatch that succeeds replaces the client's archive by the
\* patched one.
LEMMA PatchStep ==
    ASSUME NEW i, NEW j, ZimPatch(i, j)
    PROVE  /\ UNCHANGED <<releases, diffs>>
           /\ outcome' \in {"patched", "refused", "exception"}
           /\ outcome' # "patched" => client' = client
           /\ outcome' = "patched" =>
                /\ client' = Patched(client, DiffOf(releases[i], releases[j]))
                /\ CheckDiffFile(client, DiffOf(releases[i], releases[j]))
BY DEF ZimPatch

LEMMA ReleasesInit == Init => ReleasesInv
<1> SUFFICES ASSUME Init PROVE ReleasesInv
  OBVIOUS
<1>1. releases \in Histories /\ 1 \in DOMAIN releases
  BY HistoriesAssumption DEF Init
<1>2. IsArchive(client)
  BY <1>1, ReleaseIsComplete DEF Init, Complete
<1> QED  BY <1>1, <1>2 DEF Init, ReleasesInv, TypeOK

LEMMA ReleasesStep == ReleasesInv /\ [Next]_vars => ReleasesInv'
<1> SUFFICES ASSUME ReleasesInv, [Next]_vars PROVE ReleasesInv'
  OBVIOUS
<1>1. ASSUME NEW i \in DOMAIN releases, NEW j \in DOMAIN releases, ZimDiff(i, j)
      PROVE  ReleasesInv'
  BY <1>1 DEF ZimDiff, ReleasesInv, TypeOK
<1>2. ASSUME NEW i \in DOMAIN releases, NEW j \in DOMAIN releases, ZimPatch(i, j)
      PROVE  ReleasesInv'
  <2>1. IsArchive(client')
    <3>1. CASE outcome' = "patched"
      <4>1. IsArchive(Patched(client, DiffOf(releases[i], releases[j])))
        BY ReleaseIsComplete, PatchedIsArchive DEF ReleasesInv, TypeOK
      <4> QED  BY <1>2, <3>1, <4>1, PatchStep
    <3>2. CASE outcome' # "patched"
      BY <1>2, <3>2, PatchStep DEF ReleasesInv, TypeOK
    <3> QED  BY <3>1, <3>2
  <2> QED  BY <1>2, <2>1, PatchStep DEF ReleasesInv, TypeOK
<1>3. CASE UNCHANGED vars
  BY <1>3 DEF vars, ReleasesInv, TypeOK
<1> QED  BY <1>1, <1>2, <1>3 DEF Next

LEMMA ReleasesInvariant == Spec => []ReleasesInv
BY ReleasesInit, ReleasesStep, PTL DEF Spec

-----------------------------------------------------------------------------
(* The theorems. *)

\* What zimpatch writes is an archive again, whatever is patched with whatever.
THEOREM TypeCorrect == Spec => []TypeOK
<1>1. ReleasesInv => TypeOK
  BY DEF ReleasesInv
<1> QED  BY <1>1, ReleasesInvariant, PTL

\* Where nothing is lost and the client has what the diff file starts from,
\* zimpatch gives the client what the diff file leads to, entry by entry.
THEOREM LossStaysLocal == Spec => LossIsLocal
<1> DEFINE Local(i, j) ==
        ZimPatch(i, j) /\ outcome' = "patched" =>
            LET start == releases[i]
                end == releases[j]
                Carried(p) == Same(client, start, p) /\ ~IsLost(start, end, p)
                Target(p) == IF p \in PathsOf(end) /\ IsRedirect(end.entries[p])
                               THEN end.entries[p].to ELSE p
            IN  \A p \in UNION {PathsOf(client), PathsOf(start), PathsOf(end)} :
                    Carried(p) /\ Carried(Target(p)) =>
                        /\ Same(client', end, p)
                        /\ end.main = p => client'.main = p
<1>1. ReleasesInv => \A i, j \in DOMAIN releases : Local(i, j)
  <2> SUFFICES ASSUME ReleasesInv, NEW i \in DOMAIN releases, NEW j \in DOMAIN releases,
                      ZimPatch(i, j), outcome' = "patched",
                      NEW start, start = releases[i], NEW end, end = releases[j],
                      NEW p, Same(client, start, p), ~IsLost(start, end, p),
                      TargetCarried(client, start, end, p)
               PROVE  Same(client', end, p) /\ (end.main = p => client'.main = p)
    BY DEF TargetCarried
  <2>1. Complete(start) /\ Complete(end) /\ IsArchive(client)
    BY ReleaseIsComplete DEF ReleasesInv, TypeOK
  <2>2. client' = Patched(client, DiffOf(start, end))
    BY PatchStep
  <2>3. /\ p \in PathsOf(client') <=> p \in PathsOf(end)
        /\ p \in PathsOf(end) => client'.entries[p] = end.entries[p]
    BY <2>1, <2>2, CarriedIsPatched
  <2>4. Same(client', end, p)
    BY <2>3, Zenon DEF Same
  <2>5. end.main = p => client'.main = p
    BY <2>1, <2>2, <2>3, MainIsPatched
  <2> QED  BY <2>4, <2>5
<1>2. (\A i, j \in DOMAIN releases : Local(i, j)) =>
          [\A i, j \in DOMAIN releases : Local(i, j)]_vars
  OBVIOUS
<1> QED  BY <1>1, ReleasesInvariant, PTL DEF LossIsLocal

\* Of all diff files of zimdiff exactly those that start from the client's version
\* are for the client, whatever bytes the UIDs have and whatever it has applied
\* before, and they delete no entry that it has not lost. (Whether zimpatch accepts
\* them depends on the metadata, too, which this is not about.)
THEOREM OwnDiffsAreFit == Spec => []OwnDiffsFit
<1> DEFINE Version == \E k \in DOMAIN releases : client.uid = releases[k].uid
<1>1. Init => Version
  <2>1. ASSUME Init PROVE 1 \in DOMAIN releases /\ client = releases[1]
    BY <2>1, HistoriesAssumption DEF Init
  <2> QED  BY <2>1
<1>2. ReleasesInv /\ Version /\ [Next]_vars => Version'
  <2> SUFFICES ASSUME ReleasesInv, Version, [Next]_vars PROVE Version'
    OBVIOUS
  <2>1. releases' = releases
    BY PatchStep DEF Next, ZimDiff, vars
  <2>2. CASE client' = client
    BY <2>1, <2>2
  <2>3. CASE client' # client
    <3>1. PICK i \in DOMAIN releases, j \in DOMAIN releases : ZimPatch(i, j)
      BY <2>3 DEF Next, ZimDiff, vars
    <3>2. client' = Patched(client, DiffOf(releases[i], releases[j]))
      BY <2>3, <3>1, PatchStep
    <3>3. client'.uid = UidOf(DiffOf(releases[i], releases[j]).endfileuid)
      BY <3>2 DEF Patched
    <3>4. client'.uid = releases[j].uid
      BY <3>3, ReleaseIsComplete, UidsOfDiff DEF ReleasesInv, Complete
    <3> QED  BY <2>1, <3>4
  <2> QED  BY <2>2, <2>3
<1>3. ReleasesInv /\ Version => OwnDiffsFit
  <2> SUFFICES ASSUME ReleasesInv, NEW k \in DOMAIN releases, client.uid = releases[k].uid,
                      NEW i \in DOMAIN releases, NEW j \in DOMAIN releases
               PROVE  /\ UidOf(DiffOf(releases[i], releases[j]).startfileuid) = client.uid
                            <=> i = k
                      /\ i = k /\ PathsOf(client) = PathsOf(releases[k])
                           => DiffOf(releases[i], releases[j]).dlist \subseteq PathsOf(client)
    BY DEF OwnDiffsFit
  <2>1. UidOf(DiffOf(releases[i], releases[j]).startfileuid) = releases[i].uid
    BY ReleaseIsComplete, UidsOfDiff DEF ReleasesInv, Complete
  <2>2. releases[i].uid = releases[k].uid <=> i = k
    BY UidsDiffer DEF ReleasesInv
  <2>3. DiffOf(releases[i], releases[j]).dlist \subseteq PathsOf(releases[i])
    BY DEF DiffOf, DeletedPaths
  <2> QED  BY <2>1, <2>2, <2>3
<1> QED  BY <1>1, <1>2, <1>3, ReleasesInvariant, PTL DEF Spec

\* A diff file that is accepted starts from the client's own version, and turns it
\* into the one it leads to if nothing is lost between the two.
LEMMA PatchGivesEnd ==
    ASSUME releases \in Histories,
           NEW i \in DOMAIN releases, NEW j \in DOMAIN releases, NEW k \in DOMAIN releases,
           client = releases[k], Lossless(releases[i], releases[j]),
           CheckDiffFile(client, DiffOf(releases[i], releases[j]))
    PROVE  Patched(client, DiffOf(releases[i], releases[j])) = releases[j]
<1> DEFINE start == releases[i]
           end == releases[j]
           patched == Patched(client, DiffOf(start, end))
<1>1. Complete(start) /\ Complete(end)
  BY ReleaseIsComplete
<1>2. client = start
  <2>1. start.uid = client.uid
    BY <1>1, UidsOfDiff DEF CheckDiffFile, Complete
  <2>2. i = k
    BY <2>1, UidsDiffer
  <2> QED  BY <2>2
<1>3. IsArchive(patched)
  BY <1>1, <1>2, PatchedIsArchive DEF Complete
<1>4. ASSUME NEW p
      PROVE  /\ p \in PathsOf(patched) <=> p \in PathsOf(end)
             /\ p \in PathsOf(end) => patched.entries[p] = end.entries[p]
  <2>1. \A q : Same(client, start, q)
    BY <1>2 DEF Same
  <2>2. \A q : ~IsLost(start, end, q)
    BY DEF Lossless, IsLost
  <2>3. TargetCarried(client, start, end, p)
    BY <2>1, <2>2 DEF TargetCarried
  <2>4. IsArchive(client)
    BY <1>1, <1>2 DEF Complete
  <2> HIDE DEF start, end, patched
  <2> QED  BY <1>1, <2>1, <2>2, <2>3, <2>4, CarriedIsPatched DEF patched
<1>5. patched.entries = end.entries
  <2>1. PathsOf(patched) = PathsOf(end)
    BY <1>4
  <2>2. /\ patched.entries = [p \in PathsOf(patched) |-> patched.entries[p]]
        /\ end.entries = [p \in PathsOf(end) |-> end.entries[p]]
    BY <1>1, <1>3, Zenon DEF IsArchive, Complete
  <2> HIDE DEF patched, end
  <2>3. \A p \in PathsOf(end) : patched.entries[p] = end.entries[p]
    BY <1>4
  <2>4. [p \in PathsOf(end) |-> patched.entries[p]] = [p \in PathsOf(end) |-> end.entries[p]]
    BY <2>3
  <2> QED  BY <2>1, <2>2, <2>4, Zenon
<1>6. patched.main = end.main
  BY <1>1, <1>4, MainIsPatched
<1>7. patched.uid = end.uid
  <2>1. patched.uid = UidOf(DiffOf(start, end).endfileuid)
    BY DEF Patched
  <2> QED  BY <1>1, <2>1, UidsOfDiff DEF Complete
<1>8. /\ patched = [uid |-> patched.uid, entries |-> patched.entries, main |-> patched.main]
      /\ end = [uid |-> end.uid, entries |-> end.entries, main |-> end.main]
  BY <1>1, <1>3, Zenon DEF Complete, IsArchive
<1> HIDE DEF patched, end
<1>9. patched = end
  BY <1>5, <1>6, <1>7, <1>8, Zenon
<1> QED  BY <1>9 DEF patched, end

\* The client has one of the releases, to the last entry and the main page,
\* whatever diff files it applies in whatever order, as long as nothing is lost
\* between any two releases.
THEOREM ClientHasARelease == Spec => []HasARelease
<1> DEFINE AllLossless ==
        \A i, j \in DOMAIN releases : i < j => Lossless(releases[i], releases[j])
<1>1. Init => HasARelease
  <2> SUFFICES ASSUME Init PROVE \E i \in DOMAIN releases : client = releases[i]
    BY DEF HasARelease
  <2>1. 1 \in DOMAIN releases
    BY HistoriesAssumption DEF Init
  <2> QED  BY <2>1 DEF Init
<1>2. ReleasesInv /\ HasARelease /\ [Next]_vars => HasARelease'
  <2> SUFFICES ASSUME ReleasesInv, HasARelease, [Next]_vars, AllLossless'
               PROVE  \E i \in DOMAIN releases' : client' = releases'[i]
    BY DEF HasARelease
  <2>1. releases' = releases
    BY PatchStep DEF Next, ZimDiff, vars
  <2>2. AllLossless
    BY <2>1
  <2>3. PICK k \in DOMAIN releases : client = releases[k]
    BY <2>2 DEF HasARelease
  <2>4. CASE client' = client
    BY <2>1, <2>3, <2>4
  <2>5. CASE client' # client
    <3>1. PICK i \in DOMAIN releases, j \in DOMAIN releases : i < j /\ ZimPatch(i, j)
      BY <2>5 DEF Next, ZimDiff, vars
    <3>2. /\ client' = Patched(client, DiffOf(releases[i], releases[j]))
          /\ CheckDiffFile(client, DiffOf(releases[i], releases[j]))
      BY <2>5, <3>1, PatchStep
    <3>3. client' = releases[j]
      BY <2>2, <2>3, <3>1, <3>2, PatchGivesEnd DEF ReleasesInv
    <3> QED  BY <2>1, <3>3
  <2> QED  BY <2>4, <2>5
<1> QED  BY <1>1, <1>2, ReleasesInvariant, PTL DEF Spec

=============================================================================
