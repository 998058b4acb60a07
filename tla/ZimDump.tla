------------------------------ MODULE ZimDump ------------------------------
(***************************************************************************)
(* The command dump of src/zimdump.cpp: each entry of an archive becomes a *)
(* file, an HTML page that redirects or a symbolic link.                   *)
(***************************************************************************)
EXTENDS Pages

CONSTANTS
    Base,           \* the directory given with --dir
    LongNames       \* names of more than 255 characters -> what is kept of them

VARIABLES
    program, status,    \* the running program and how it has ended
    arguments,          \* of the command line
    archive,            \* the archive that it reads
    world,              \* the file system
    todo,               \* paths of entries that are still to be read
    truncatedFiles      \* number of names that have been shortened

vars == <<program, status, arguments, archive, world, todo, truncatedFiles>>

ErrorsDir == Append(Base, "_exceptions")

\* createdir(): the directories above the last component, one after the other.
CreateDir(fs, path) ==
    FoldLeft(LAMBDA made, n : MakeDir(made, Base \o SubSeq(path, 1, n)), fs,
             [n \in 1..(Len(path) - 1) |-> n])

\* write_to_error_directory() of what should have been written to `path`.
ErrorFile(path) ==
    Append(ErrorsDir, FoldLeft(LAMBDA name, next : name \o "%2f" \o next, Head(path), Tail(path)))

IsTooLong(name) == name \in DOMAIN LongNames

Shortened(name, number) ==
    IF IsTooLong(name) THEN LongNames[name] \o "~" \o ToString(number) ELSE name

\* Mutant of OutputPath: every name is shortened to the same one.
OutputPathUncounted(path) == Append(Front(path), Shortened(Last(path), 1))

\* The path of an entry's file below the directory.
OutputPath(path) == Append(Front(path), Shortened(Last(path), truncatedFiles + 1))

EncodeUrl(path) ==
    [n \in DOMAIN path |->
        IF \E name \in DOMAIN Encoded : Encoded[name] = path[n]
          THEN CHOOSE name \in DOMAIN Encoded : Encoded[name] = path[n]
          ELSE path[n]]

HttpRedirectHtml(target) ==
    [id |-> "redirect", html |-> TRUE, refresh |-> EncodeUrl(target), links |-> <<>>]

StartDump ==
    /\ program' = "zimdump"
    /\ status' = "running"
    /\ world' = MakeDir(world, Base)
    /\ todo' = DOMAIN archive.entries
    /\ truncatedFiles' = 0
    /\ UNCHANGED <<arguments, archive>>

\* Mutant of Advance: every name counts as shortened.
AdvanceCountingAll(path) ==
    /\ todo' = todo \ {path}
    /\ truncatedFiles' = truncatedFiles + 1
    /\ UNCHANGED <<program, arguments, archive>>

\* What is done with every entry.
Advance(path) ==
    /\ todo' = todo \ {path}
    /\ truncatedFiles' = truncatedFiles + (IF IsTooLong(Last(path)) THEN 1 ELSE 0)
    /\ UNCHANGED <<program, arguments, archive>>

\* An exception ends the program.
Abort ==
    /\ status' = "failure"
    /\ todo' = {}
    /\ UNCHANGED <<program, arguments, archive, truncatedFiles>>

\* write_to_file(): if the file cannot be opened, its content goes to the
\* directory of errors, and if that fails an exception is thrown.
WriteToFile(made, path, output, content) ==
    LET failed == MakeDir(made, ErrorsDir)
    IN  \/ /\ Opened(made, Base \o output) # NoPath
           /\ world' = Written(made, Base \o output, content)
           /\ Advance(path)
           /\ UNCHANGED status
        \/ /\ Opened(made, Base \o output) = NoPath
           /\ Opened(failed, ErrorFile(output)) # NoPath
           /\ world' = Written(failed, ErrorFile(output), content)
           /\ Advance(path)
           /\ UNCHANGED status
        \/ /\ Opened(made, Base \o output) = NoPath
           /\ Opened(failed, ErrorFile(output)) = NoPath
           /\ world' = failed
           /\ Abort

MakeSymlink(made, path, output, target) ==
    LET here == NewEntry(made, Base \o output)
    IN  \/ /\ here # NoPath
           /\ world' = (here :> Symlink(target)) @@ made
           /\ Advance(path)
           /\ UNCHANGED status
        \/ /\ here = NoPath
           /\ world' = made
           /\ Abort

\* The entries come in the order of their clusters: in any order of paths.
DumpEntry(path) ==
    LET entry == archive.entries[path]
        item == ItemPath(archive.entries, path)
        content == archive.entries[item].content
        target == ComputeRelativePath(path, item)
        made == CreateDir(world, path)
        output == OutputPath(path)
    IN  /\ program = "zimdump"
        /\ status = "running"
        /\ path \in todo
        /\ \/ /\ ~IsRedirect(entry)
              /\ WriteToFile(made, path, output, content)
           \/ /\ IsRedirect(entry)
              /\ ~arguments.symlinks /\ content.html
              /\ WriteToFile(made, path, output, HttpRedirectHtml(target))
           \/ /\ IsRedirect(entry)
              /\ arguments.symlinks \/ ~content.html
              /\ MakeSymlink(made, path, output, target)

\* The exit status is 0, whatever went to the directory of errors.
EndDump ==
    /\ program = "zimdump"
    /\ status = "running"
    /\ todo = {}
    /\ status' = "success"
    /\ UNCHANGED <<program, arguments, archive, world, todo, truncatedFiles>>

Next == (\E path \in todo : DumpEntry(path)) \/ EndDump
=============================================================================
