---------------------------- MODULE ZimWriterFs ----------------------------
(***************************************************************************)
(* src/zimwriterfs: an archive from a directory. zimwriterfs.cpp checks    *)
(* the arguments and the metadata, ZimCreatorFS (zimcreatorfs.cpp) visits  *)
(* the directory and reads the file with additional redirects.             *)
(***************************************************************************)
EXTENDS Pages, Metadata

CONSTANTS
    Base,           \* the canonical path of HTML_DIRECTORY
    LongerNames     \* names that begin with the last name of Base

VARIABLES
    program, status,    \* the running program and how it has ended
    arguments,          \* of the command line
    world,              \* the file system
    created,            \* the archive that it writes
    visited,            \* the directories being visited: path and names left
    lines               \* lines of the redirects file still to be read

vars == <<program, status, arguments, world, created, visited, lines>>

NoArgument == NoPath

-----------------------------------------------------------------------------
(* zimwriterfs.cpp: arguments and metadata. *)

MandatoryArguments == {"Creator", "Name", "Publisher", "Description", "Language", "Title"}

EmptyText == [length |-> 0, size |-> 0, matches |-> FALSE]

\* "zimwriterfs-" and a version
DefaultScraper == [length |-> 17, size |-> 17, matches |-> TRUE]

\* The text given for a metadata, or the one that stands for it if none is.
Given(name) ==
    IF name \in DOMAIN arguments.texts THEN arguments.texts[name]
    ELSE IF name = "Scraper" THEN DefaultScraper ELSE EmptyText

ThereAreMissingArguments ==
    /\ ~arguments.dontCheckArgs
    /\ \/ \E name \in MandatoryArguments : Given(name).size = 0
       \/ NoArgument \in {arguments.welcome, arguments.illustration}

FileExists(path) == Exists(world, Base \o path)

\* parse_args() and main() exit.
IsRefused ==
    \/ ThereAreMissingArguments
    \/ /\ ~arguments.dontCheckArgs
       /\ ~FileExists(arguments.welcome) \/ ~FileExists(arguments.illustration)
    \/ arguments.zimExists
    \/ ~arguments.magicLoads /\ ~arguments.continueWithoutMagic

Value(text, mimeType) ==
    [length |-> text.length, size |-> text.size, matches |-> text.matches,
     mimeType |-> mimeType]

Date == [length |-> 10, size |-> 10, matches |-> TRUE]
Tags == [length |-> 12, size |-> 12, matches |-> TRUE]

\* getFileContent() throws unless it is a file.
IllustrationIsReadable ==
    arguments.illustration # NoArgument =>
        IsA(world, RealPath(world, Base \o arguments.illustration), "file")

Illustration ==
    LET file == world[RealPath(world, Base \o arguments.illustration)]
    IN  [length |-> 1, size |-> 1, matches |-> file.content.id = "png"]

MakeMetadata ==
    [name \in MandatoryArguments \cup {"LongDescription", "Source", "Flavour", "Scraper"} |->
        Value(Given(name), "text/plain")]
    @@ ("Date" :> Value(Date, "text/plain")) @@ ("Tags" :> Value(Tags, "text/plain"))
    @@ (IF arguments.illustration = NoArgument THEN <<>>
        ELSE "Illustration_48x48@1" :> Value(Illustration, "image/png"))

\* Mutant of CheckMetadata: it is skipped with the checks of the arguments.
CheckMetadataOfCheckedArgs == arguments.dontCheckArgs \/ Check(MakeMetadata) = {}

CheckMetadata == Check(MakeMetadata) = {}

\* ZimCreatorFS::addMetadata() drops what is empty; libzim adds the Counter.
AddMetadata(metadata) ==
    ("Counter" :> Value(Tags, "text/plain"))
        @@ Restrict(metadata, {name \in DOMAIN metadata : metadata[name].size # 0})

\* The paths are compared as texts.
IsUnderSource(directory) ==
    /\ Len(directory) >= Len(Base)
    /\ IsPrefix(Front(Base), directory)
    /\ directory[Len(Base)] \in LongerNames \cup {Last(Base)}

\* create_zim() throws before it visits the directory.
CannotCreate ==
    LET directory == RealPath(world, arguments.zimDirectory)
    IN  ~Exists(world, Base) \/ directory = NoPath \/ IsUnderSource(directory)

-----------------------------------------------------------------------------
(* ZimCreatorFS. *)

\* The names in a directory, which readdir() gives in any order.
NamesIn(path) ==
    LET dir == RealPath(world, Base \o path)
    IN  {Last(p) : p \in {q \in DOMAIN world : q # <<>> /\ Front(q) = dir}}

\* Mutant of TypeOf: stat() is always asked.
TypeOfTarget(path) ==
    LET real == RealPath(world, Base \o path)
    IN  IF real = NoPath THEN "unknown" ELSE world[real].type

\* What visitDirectory() takes the entry for: d_type, or what stat() says where
\* that is DT_UNKNOWN.
TypeOf(path) ==
    LET dir == RealPath(world, Base \o Front(path))
        real == RealPath(world, Base \o path)
    IN  IF arguments.knowsTypes THEN world[Append(dir, Last(path))].type
        ELSE IF real = NoPath THEN "unknown" ELSE world[real].type

IsRunning == program = "zimwriterfs" /\ status = "running"

Fails ==
    /\ status' = "failure"
    /\ visited' = <<>>
    /\ lines' = <<>>
    /\ UNCHANGED created

\* addItem() and addRedirection(), whose exceptions end the program.
AddEntry(path, entry) ==
    LET IsAccepted == Accepts(created.entries, path, entry)
    IN  /\ created' = [created EXCEPT !.entries = IF IsAccepted THEN Added(@, path, entry) ELSE @]
        /\ status' = IF IsAccepted THEN status ELSE "failure"

\* parseAndAdaptHtml(): where a page redirects to, EmptyPath if it does not.
RedirectUrl(path, content) ==
    IF IsRefresh(content) THEN ComputeAbsolutePath(path, DecodeUrl(content.refresh))
    ELSE EmptyPath

\* The target need not be a file, nor in the directory, for FileExists().
AddFile(path) ==
    LET content == world[RealPath(world, Base \o path)].content
        url == RedirectUrl(path, content)
    IN  \/ /\ IsRefresh(content) /\ ~FileExists(url)
           /\ status' = "failure"
           /\ UNCHANGED created
        \/ /\ IsRefresh(content) /\ FileExists(url) /\ url # EmptyPath
           /\ AddEntry(path, [kind |-> "redirect", to |-> url])
        \/ /\ url = EmptyPath
           /\ AddEntry(path, [kind |-> "item", content |-> content])

\* A link that is broken, leads to a directory or outside is skipped.
ProcessSymlink(path) ==
    LET real == RealPath(world, Base \o path)
        IsSkipped == real = NoPath \/ IsA(world, real, "dir") \/ ~IsStrictPrefix(Base, real)
        target == SubSeq(real, Len(Base) + 1, Len(real))
    IN  \/ IsSkipped /\ UNCHANGED <<created, status>>
        \/ ~IsSkipped /\ AddEntry(path, [kind |-> "redirect", to |-> target])

-----------------------------------------------------------------------------
(* Steps of the program. *)

StartPack ==
    /\ program' = "zimwriterfs"
    /\ IF IsRefused \/ ~IllustrationIsReadable \/ ~CheckMetadata \/ CannotCreate
         THEN Fails
         ELSE /\ status' = "running"
              /\ created' = [scheme |-> "new", entries |-> NoEntries, main |-> arguments.welcome,
                             metadata |-> AddMetadata(MakeMetadata)]
              /\ visited' = <<[path |-> <<>>, names |-> NamesIn(<<>>)]>>
              /\ lines' = arguments.redirects
    /\ UNCHANGED <<arguments, world>>

\* One round of the loop of visitDirectory() over the innermost directory.
VisitEntry(name) ==
    LET path == Append(Last(visited).path, name)
        left == [Last(visited) EXCEPT !.names = @ \ {name}]
        type == TypeOf(path)
    IN  /\ IsRunning
        /\ \/ type = "file" /\ AddFile(path)
           \/ type = "symlink" /\ ProcessSymlink(path)
           \/ type \in {"dir", "special", "unknown"} /\ UNCHANGED <<created, status>>
        /\ visited' = Append(Front(visited), left)
                        \o IF type = "dir" THEN <<[path |-> path, names |-> NamesIn(path)]>>
                           ELSE <<>>
        /\ UNCHANGED <<program, arguments, world, lines>>

LeaveDirectory ==
    /\ IsRunning
    /\ visited # <<>> /\ Last(visited).names = {}
    /\ visited' = Front(visited)
    /\ UNCHANGED <<program, status, arguments, world, created, lines>>

\* A line of the redirects file is three texts between tabs; there is no such
\* file at all where the first line is not `valid`.
AddRedirect ==
    /\ IsRunning
    /\ visited = <<>> /\ lines # <<>>
    /\ lines' = Tail(lines)
    /\ \/ /\ Head(lines).valid
          /\ AddEntry(Head(lines).path, [kind |-> "redirect", to |-> Head(lines).target])
       \/ /\ ~Head(lines).valid
          /\ status' = "failure"
          /\ UNCHANGED created
    /\ UNCHANGED <<program, arguments, world, visited>>

EndPack ==
    /\ IsRunning
    /\ visited = <<>> /\ lines = <<>>
    /\ created' = [created EXCEPT !.entries = Finished(@)]
    /\ status' = "success"
    /\ UNCHANGED <<program, arguments, world, visited, lines>>

Next ==
    \/ visited # <<>> /\ \E name \in Last(visited).names : VisitEntry(name)
    \/ LeaveDirectory
    \/ AddRedirect
    \/ EndPack
=============================================================================
