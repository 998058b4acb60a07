---------------------------- MODULE ZimRecreate ----------------------------
(***************************************************************************)
(* src/zimrecreate.cpp: a new archive from the entries of another one. In  *)
(* archives of the old scheme the first component of each path is a        *)
(* namespace, which the new one drops.                                     *)
(***************************************************************************)
EXTENDS Pages, PatchedLinks

VARIABLES
    program, status,    \* the running program and how it has ended
    archive,            \* the archive that it reads
    created,            \* the archive that it writes
    todo                \* paths of entries that are still to be read

vars == <<program, status, archive, created, todo>>

Fails ==
    /\ status' = "failure"
    /\ todo' = {}
    /\ UNCHANGED <<program, archive, created>>

HasNewNamespaceScheme == archive.scheme = "new"

Short(path) == Tail(path)

\* PatchItem::getPath() leaves a path that is nothing but a namespace.
PatchedPath(path) == IF Short(path) = EmptyPath THEN path ELSE Short(path)

\* Only text/html (and text/css) has links here.
PatchedContent(content) ==
    [content EXCEPT !.links = [n \in DOMAIN @ |-> PatchedLink(@[n])]]

\* All but what libzim adds itself and the illustrations, of which the one of 48
\* pixels is copied.
IsCopied(key) == key \notin {"Counter", "Illustration_96x96@1"}

MainPath ==
    LET path == ItemPath(archive.entries, archive.main)
    IN  IF HasNewNamespaceScheme THEN path ELSE Short(path)

StartRecreate ==
    /\ program' = "zimrecreate"
    /\ status' = "running"
    /\ created' = [scheme |-> "new",
                   entries |-> NoEntries,
                   main |-> IF archive.main = NoPath THEN NoPath ELSE MainPath,
                   metadata |-> Restrict(archive.metadata,
                                         {k \in DOMAIN archive.metadata : IsCopied(k)})]
    /\ todo' = DOMAIN archive.entries
    /\ UNCHANGED archive

\* Everything is copied but what old archives keep besides the content.
IsLeftOut(path) == ~HasNewNamespaceScheme /\ Head(path) \in {"Z", "X", "M", "W"}

NewPathOf(path) ==
    IF HasNewNamespaceScheme THEN path
    ELSE IF IsRedirect(archive.entries[path]) THEN Short(path)
    ELSE PatchedPath(path)

NewEntryOf(path) ==
    LET entry == archive.entries[path]
    IN  IF HasNewNamespaceScheme THEN entry
        ELSE IF IsRedirect(entry) THEN [entry EXCEPT !.to = Short(@)]
        ELSE [entry EXCEPT !.content = PatchedContent(@)]

\* addItem() and addRedirection() throw what create() does not catch.
RecreateEntry(path) ==
    LET IsAccepted == Accepts(created.entries, NewPathOf(path), NewEntryOf(path))
    IN  /\ program = "zimrecreate"
        /\ status = "running"
        /\ path \in todo
        /\ \/ /\ IsLeftOut(path)
              /\ todo' = todo \ {path}
              /\ UNCHANGED <<program, status, archive, created>>
           \/ /\ ~IsLeftOut(path) /\ IsAccepted
              /\ created' = [created EXCEPT !.entries =
                               Added(@, NewPathOf(path), NewEntryOf(path))]
              /\ todo' = todo \ {path}
              /\ UNCHANGED <<program, status, archive>>
           \/ /\ ~IsLeftOut(path) /\ ~IsAccepted
              /\ Fails

EndRecreate ==
    /\ program = "zimrecreate"
    /\ status = "running"
    /\ todo = {}
    /\ created' = [created EXCEPT !.entries = Finished(@)]
    /\ status' = "success"
    /\ UNCHANGED <<program, archive, todo>>

Next == (\E path \in todo : RecreateEntry(path)) \/ EndRecreate
=============================================================================
