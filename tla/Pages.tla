-------------------------------- MODULE Pages --------------------------------
(***************************************************************************)
(* What a reader gets from an archive and from a directory, independently  *)
(* of the tools that turn one into the other.                              *)
(*                                                                         *)
(* A content is a record of what it is (`id`), whether it is an HTML page, *)
(* and of a page the target of its <meta http-equiv="refresh"> element     *)
(* (<<>> if it has none) and those of its links. A target is a relative    *)
(* path; that of a refresh element is percent-encoded.                     *)
(***************************************************************************)
EXTENDS Links, Creator, FileSystem

Nothing == [id |-> "nothing", html |-> FALSE, refresh |-> <<>>, links |-> <<>>]

IsRefresh(content) == content.html /\ content.refresh # <<>>

\* The page that a page at `path` passes its readers on to.
RefreshTarget(content, path) ==
    LET url == [path |-> content.refresh]
    IN  IF LeadsOutside(url, path) THEN NoPath ELSE Target(url, path)

RECURSIVE ReadsWithin(_, _, _)
ReadsWithin(entries, path, hops) ==
    IF path \notin DOMAIN entries \/ hops = 0 THEN Nothing
    ELSE IF IsRedirect(entries[path])
           THEN ReadsWithin(entries, entries[path].to, hops - 1)
    ELSE IF IsRefresh(entries[path].content)
           THEN ReadsWithin(entries, RefreshTarget(entries[path].content, path), hops - 1)
    ELSE entries[path].content

\* What there is to read at a path of an archive.
Reads(entries, path) == ReadsWithin(entries, path, Cardinality(DOMAIN entries) + 1)

\* Entry::getItem(true): the path of the item that redirects lead to.
RECURSIVE ItemPath(_, _)
ItemPath(entries, path) ==
    IF IsRedirect(entries[path]) THEN ItemPath(entries, entries[path].to) ELSE path

RECURSIVE OpensWithin(_, _, _, _)
OpensWithin(fs, base, path, hops) ==
    LET here == RealPath(fs, base \o path)
        below == SubSeq(here, Len(base) + 1, Len(here))
    IN  IF ~IsPrefix(base, here) \/ ~IsA(fs, here, "file") \/ hops = 0 THEN Nothing
        ELSE IF IsRefresh(fs[here].content)
               THEN OpensWithin(fs, base, RefreshTarget(fs[here].content, below), hops - 1)
        ELSE fs[here].content

\* What there is to read at a path of the directory `base`, whose contents have
\* no way out of it.
Opens(fs, base, path) == OpensWithin(fs, base, path, Cardinality(DOMAIN fs) + 1)
=============================================================================
