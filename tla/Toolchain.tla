----------------------------- MODULE Toolchain -----------------------------
(***************************************************************************)
(* zimrecreate, zimdump and zimwriterfs one after the other: an archive is *)
(* recreated, an archive is dumped to a directory, a directory is packed   *)
(* into an archive, and each of them takes what the one before it wrote.   *)
(***************************************************************************)
EXTENDS Pages, PatchedLinks

CONSTANTS
    Base,           \* the directory that is dumped to and packed
    LongNames,      \* names of more than 255 characters -> what is kept of them
    LongerNames,    \* names that begin with the last name of Base
    Scenarios       \* what to do: a `plan` (a sequence of programs), the archive
                    \* and the file system to begin with, and the arguments

VARIABLES
    plan,               \* the programs that are still to be called
    program, status,    \* the last program called and how it has ended
    arguments,          \* of all programs: the scenario
    archive, created,   \* the archive to read and the one that is written
    world,              \* the file system
    todo, truncatedFiles,   \* zimrecreate, zimdump
    visited, lines          \* zimwriterfs

vars == <<plan, program, status, arguments, archive, created, world, todo,
          truncatedFiles, visited, lines>>

Recreate == INSTANCE ZimRecreate
Dump == INSTANCE ZimDump
Pack == INSTANCE ZimWriterFs

NoArchive == [scheme |-> "none", entries |-> NoEntries, main |-> NoPath,
              metadata |-> NoEntries]

TypeOK ==
    /\ program \in {"none", "zimrecreate", "zimdump", "zimwriterfs"}
    /\ status \in {"none", "running", "success", "failure"}
    /\ \A a \in {archive, created} : \A p \in DOMAIN a.entries :
            a.entries[p].kind \in {"item", "redirect"}
    /\ \A p \in DOMAIN world : p # <<>> => IsA(world, Front(p), "dir")
    /\ todo \subseteq DOMAIN archive.entries
    /\ truncatedFiles <= Cardinality({p \in DOMAIN archive.entries : Last(p) \in DOMAIN LongNames})

Init ==
    /\ arguments \in Scenarios
    /\ plan = arguments.plan
    /\ archive = arguments.archive
    /\ world = arguments.world
    /\ program = "none"
    /\ status = "none"
    /\ created = NoArchive
    /\ todo = {}
    /\ truncatedFiles = 0
    /\ visited = <<>>
    /\ lines = <<>>

Calls(tool) ==
    /\ plan # <<>> /\ Head(plan) = tool
    /\ status \in {"none", "success"} /\ created = NoArchive
    /\ plan' = Tail(plan)

\* What has been written is what the next program reads.
TakeCreated ==
    /\ plan # <<>>
    /\ status = "success" /\ created # NoArchive
    /\ archive' = created
    /\ created' = NoArchive
    /\ UNCHANGED <<plan, program, status, arguments, world, todo, truncatedFiles,
                   visited, lines>>

RunRecreate ==
    /\ \/ Calls("zimrecreate") /\ Recreate!StartRecreate
       \/ UNCHANGED plan /\ Recreate!Next
    /\ UNCHANGED <<arguments, world, truncatedFiles, visited, lines>>

RunDump ==
    /\ \/ Calls("zimdump") /\ Dump!StartDump
       \/ UNCHANGED plan /\ Dump!Next
    /\ UNCHANGED <<created, visited, lines>>

RunPack ==
    /\ \/ Calls("zimwriterfs") /\ Pack!StartPack
       \/ UNCHANGED plan /\ Pack!Next
    /\ UNCHANGED <<archive, todo, truncatedFiles>>

Next == TakeCreated \/ RunRecreate \/ RunDump \/ RunPack

Spec == Init /\ [][Next]_vars

-----------------------------------------------------------------------------
(* Properties: what a program that has ended successfully leaves behind.   *)

Ended(tool) == program = tool /\ status = "success"

NewPath(path) == IF archive.scheme = "old" THEN Tail(path) ELSE path

IsContent(path) == archive.scheme = "old" => Head(path) \in Namespaces

\* Where no two entries differ in their namespaces only, everything is in the
\* recreated archive, a redirect leads to what it led to, and the links of a page
\* that could be adapted lead to what they led to (zimrecreate.cpp, "We only fix
\* links in articles in "root" path and in one subdirectory").
RecreateKeeps ==
    LET all == archive.entries
        Old == {p \in DOMAIN all : IsContent(p) /\ ItemPath(all, p) \in DOMAIN all}
    IN  Ended("zimrecreate") /\ created # NoArchive
            /\ (\A p, q \in Old : NewPath(p) = NewPath(q) => p = q) =>
        /\ DOMAIN created.entries = {NewPath(p) : p \in Old}
        /\ \A p \in Old :
             LET item == ItemPath(all, p)
                 old == all[item].content
                 now == created.entries[ItemPath(created.entries, NewPath(p))].content
             IN  /\ now.id = old.id
                 /\ \A n \in DOMAIN old.links :
                      (IF archive.scheme = "old"
                         THEN IsAdapted(old.links[n], item, DOMAIN all)
                         ELSE IsFollowed(old.links[n], item, DOMAIN all)) =>
                        LinkTarget(now.links[n], NewPath(item))
                            = NewPath(LinkTarget(old.links[n], item))

\* The files that the entry `path` may have been written to.
Outputs(path) ==
    IF Last(path) \in DOMAIN LongNames
      THEN {Append(Front(path), Dump!Shortened(Last(path), n)) : n \in 1..truncatedFiles}
      ELSE {path}

\* An entry whose path is also a directory for others has no place of its own.
IsBlocked(path) ==
    \/ Last(path) = ""
    \/ \E p \in DOMAIN archive.entries : IsStrictPrefix(p, path) \/ IsStrictPrefix(path, p)

\* An entry that has a name that zimdump makes up for others.
IsMadeUp(path) ==
    \/ Head(path) = "_exceptions"
    \/ \E name \in DOMAIN LongNames, n \in 1..truncatedFiles :
            Last(path) = Dump!Shortened(name, n)

\* In a new directory each item is written to a file of its own, in its place or,
\* where this is taken, among the errors; and where every entry has a place and its
\* own name, one reads there what the archive has, through symbolic links and HTML
\* redirects. (zimdump dump.)
Unpacks ==
    LET all == archive.entries
    IN  Ended("zimdump") /\ Base \notin DOMAIN arguments.world
            /\ (\A p \in DOMAIN all : ~IsMadeUp(p)) =>
        /\ \A p \in DOMAIN all : ~IsRedirect(all[p]) =>
             \E output \in Outputs(p), errors \in BOOLEAN :
                LET file == IF errors THEN Dump!ErrorFile(output) ELSE Base \o output
                IN  /\ errors => IsBlocked(p)
                    /\ IsA(world, file, "file")
                    /\ world[file].content = all[p].content
        /\ (\A p \in DOMAIN all : ~IsBlocked(p) /\ Last(p) \notin DOMAIN LongNames) =>
             \A p \in DOMAIN all : Opens(world, Base, p) = Reads(all, p)

IsBelow(path) == IsStrictPrefix(Base, path)
Below(path) == SubSeq(path, Len(Base) + 1, Len(path))

\* Files of the directory and links to them: what can become an entry.
IsArchivable(path) ==
    /\ path \in DOMAIN world /\ IsBelow(path)
    /\ world[path].type \in {"file", "symlink"}
    /\ IsBelow(RealPath(world, path)) /\ IsA(world, RealPath(world, path), "file")

RefreshPages ==
    {p \in DOMAIN world : IsArchivable(p) /\ IsA(world, p, "file") /\ IsRefresh(world[p].content)}

TargetOf(page) == Base \o RefreshTarget(world[page].content, Below(page))

\* No page redirects through a link to a directory: the entry would have the path
\* through the link, where nothing is archived.
AvoidsLinkedDirectories ==
    \A p \in RefreshPages : RealPath(world, Front(TargetOf(p))) \in {NoPath, Front(TargetOf(p))}

\* Where this is so and readdir() tells links from files, one reads in the archive
\* what the directory has, through links and redirects, and nothing from outside of
\* it. Additional redirects do not change what is there.
Packs ==
    Ended("zimwriterfs") /\ arguments.knowsTypes /\ AvoidsLinkedDirectories =>
        /\ \A p \in DOMAIN world : IsArchivable(p) =>
             Reads(created.entries, Below(p)) = Opens(world, Base, Below(p))
        /\ \A p \in DOMAIN created.entries :
             ~IsRedirect(created.entries[p]) => IsA(world, Base \o p, "file")

\* zimcheck finds nothing wrong with the metadata that zimwriterfs has written, and
\* it finds the main page if the welcome page can become an entry and no page
\* redirects to what cannot (a directory, a link to the outside).
PassesZimcheck ==
    Ended("zimwriterfs") =>
        /\ Pack!Check(created.metadata) = {}
        /\ /\ arguments.knowsTypes
           /\ \A p \in RefreshPages : IsArchivable(TargetOf(p))
           /\ arguments.welcome # NoPath /\ IsArchivable(Base \o arguments.welcome)
           => created.main \in DOMAIN created.entries
=============================================================================
