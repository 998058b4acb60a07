---------------------------- MODULE PatchedLinks ----------------------------
(***************************************************************************)
(* How src/zimrecreate.cpp adapts the links of pages when the first        *)
(* component of all paths, a namespace, is dropped.                        *)
(***************************************************************************)
EXTENDS Links

\* Those of the content, in the order in which links are searched for them.
Namespaces == {"A", "I", "J", "-"}

\* replaceStringInPlace() on a link: its beginning is replaced if it is `search`.
Replaced(link, search, by) ==
    IF Len(search) < Len(link) /\ IsPrefix(search, link)
      THEN by \o SubSeq(link, Len(search) + 1, Len(link)) ELSE link

\* Mutant of Patched: only links of pages in the root are adapted.
PatchedFromRoot(link, ns) == Replaced(link, <<"..", ns>>, <<>>)

\* One round of the loop over the namespaces.
Patched(link, ns) ==
    Replaced(Replaced(link, <<"..", "..", ns>>, <<"..">>), <<"..", ns>>, <<>>)

\* Links of pages in the root and one directory below.
PatchedLink(link) == Patched(Patched(Patched(Patched(link, "A"), "I"), "J"), "-")

-----------------------------------------------------------------------------
(* Which links are adapted, and where links lead.                          *)

LinkTarget(link, path) == Target([path |-> link], path)

\* First up, then down to a file; percent-encoding hides neither dots nor what
\* reads like a namespace.
IsPlainLink(link) ==
    /\ \E ups \in 0..(Len(link) - 1) :
          /\ \A n \in 1..ups : link[n] = ".."
          /\ \A n \in (ups + 1)..Len(link) : IsName(link[n])
    /\ \A n \in DOMAIN link :
          DecodeUrl(link)[n] # link[n] =>
             {link[n], DecodeUrl(link)[n]} \cap (Dots \cup {""} \cup Namespaces) = {}

\* A link from the entry `path` to one of the entries in `paths`.
IsFollowed(link, path, paths) ==
    /\ IsPlainLink(link)
    /\ ~LeadsOutside([path |-> link], path)
    /\ LinkTarget(link, path) \in paths

\* Of those, the ones that the code promises to adapt: they are on pages at most one
\* directory below their namespace and lead to a namespace, and nothing else has
\* the name of one.
IsAdapted(link, path, paths) ==
    /\ IsFollowed(link, path, paths)
    /\ Len(path) <= 3
    /\ LinkTarget(link, path)[1] \in Namespaces
    /\ \A p \in paths : \A n \in 2..Len(p) : p[n] \notin Namespaces

\* Paths with a namespace.
OldPaths == {path \in ProperPaths : Len(path) > 1}
=============================================================================
