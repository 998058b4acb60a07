------------------------- MODULE MCRedirectionTable -------------------------
(***************************************************************************)
(* All archives with NumEntries entries: every choice of items, redirects  *)
(* and targets is an initial state of RedirectionTable.                    *)
(***************************************************************************)
EXTENDS RedirectionTable
=============================================================================
