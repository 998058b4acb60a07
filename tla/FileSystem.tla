----------------------------- MODULE FileSystem -----------------------------
(***************************************************************************)
(* What the tools that read and write directories rely on in the operating *)
(* system. A file system is a function from paths (sequences of names) to  *)
(* directories, files with a content, symbolic links and special files;    *)
(* <<>> is the root. Links are relative.                                   *)
(***************************************************************************)
EXTENDS Naturals, Sequences, SequencesExt, TLC

CONSTANT MaxSymlinks    \* links that one lookup follows at most (ELOOP)

ASSUME MaxSymlinksAssumption == MaxSymlinks \in Nat

Directory == [type |-> "dir"]
File(content) == [type |-> "file", content |-> content]
Symlink(to) == [type |-> "symlink", to |-> to]
SpecialFile == [type |-> "special"]

NoPath == <<"/">>   \* the lookup fails

IsA(fs, path, type) == path \in DOMAIN fs /\ fs[path].type = type

\* From the directory `dir` along `names`. If `create`, what the last name
\* stands for need not be there.
RECURSIVE Walk(_, _, _, _, _)
Walk(fs, dir, names, hops, create) ==
    LET rest == Tail(names)
        here == Append(dir, Head(names))
    IN  CASE names = <<>> -> dir
          [] names # <<>> /\ Head(names) \in {"", "."} -> Walk(fs, dir, rest, hops, create)
          [] names # <<>> /\ Head(names) = ".." ->
                Walk(fs, IF dir = <<>> THEN <<>> ELSE Front(dir), rest, hops, create)
          [] OTHER ->
                CASE here \notin DOMAIN fs ->
                        IF create /\ rest = <<>> THEN here ELSE NoPath
                  [] IsA(fs, here, "symlink") ->
                        IF hops = 0 THEN NoPath
                        ELSE Walk(fs, dir, fs[here].to \o rest, hops - 1, create)
                  [] IsA(fs, here, "dir") -> Walk(fs, here, rest, hops, create)
                  [] OTHER -> IF rest = <<>> THEN here ELSE NoPath

\* realpath(): the path without links, or NoPath.
RealPath(fs, path) == Walk(fs, <<>>, path, MaxSymlinks, FALSE)

Exists(fs, path) == RealPath(fs, path) # NoPath

\* Where mkdir(path) and symlink(..., path) make an entry, or NoPath.
NewEntry(fs, path) ==
    LET dir == RealPath(fs, Front(path))
        here == Append(dir, Last(path))
    IN  IF IsA(fs, dir, "dir") /\ Last(path) # "" /\ here \notin DOMAIN fs
          THEN here ELSE NoPath

MakeDir(fs, path) ==
    IF NewEntry(fs, path) = NoPath THEN fs
    ELSE (NewEntry(fs, path) :> Directory) @@ fs

\* Where open(path, O_WRONLY | O_CREAT) finds or makes a file, or NoPath.
Opened(fs, path) ==
    LET here == Walk(fs, <<>>, path, MaxSymlinks, TRUE)
    IN  IF here = NoPath \/ IsA(fs, here, "dir") THEN NoPath ELSE here

Written(fs, path, content) == (Opened(fs, path) :> File(content)) @@ fs
=============================================================================
