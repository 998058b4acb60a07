------------------------------- MODULE Creator -------------------------------
(***************************************************************************)
(* What the tools that write archives rely on in zim::writer::Creator,     *)
(* which is not part of the repository. The entries of an archive are a    *)
(* function from their paths to items and redirects.                       *)
(***************************************************************************)
EXTENDS Functions, TLC

NoEntries == <<>>

IsRedirect(entry) == entry.kind = "redirect"

\* An item takes the place of a redirect; any other second entry at a path is
\* an exception.
Accepts(entries, path, entry) ==
    path \in DOMAIN entries => IsRedirect(entries[path]) /\ ~IsRedirect(entry)

Added(entries, path, entry) == (path :> entry) @@ entries

\* finishZimCreation() drops the redirects to what is not there.
Finished(entries) ==
    Restrict(entries, {p \in DOMAIN entries :
                         IsRedirect(entries[p]) => entries[p].to \in DOMAIN entries})
=============================================================================
